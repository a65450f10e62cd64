-------------------------- MODULE IngestionProofs --------------------------
(***************************************************************************)
(* The durable cursor covers only written records: proved for any tasks,   *)
(* sources, batch size, log length and number of failures.                 *)
(* For one task that is not cancelled: its receipts stay durable, and the  *)
(* stores hold nothing older than what the cursor covers.                  *)
(***************************************************************************)
EXTENDS Ingestion, FiniteSetTheorems, WellFoundedInduction, TLAPS

USE SourceAssumption, BoundAssumption

-----------------------------------------------------------------------------
(* The inductive invariant                                                 *)

\* The batch whose records some store may still lack.
Pending(p) == IF pc[p] \in {"lexical", "semantic", "ingest"} THEN Batch(p)
              ELSE {}

\* Every cursor a task holds, in memory or about to be saved, is covered.
CursorsCovered(p) ==
  /\ Covered(Src(p), progress[p].current)
  /\ At(p, "save_read") \/ At(p, "save_write")
       => Covered(Src(p), saving[p].cursor)
  /\ \A s \in Sources : Covered(s, saving[p].snapshot[s])

\* What the stream delivered is written, still to be handed out, or in hand,
\* unless a batch has failed.
StreamCovered(p) ==
  \/ progress[p].blocked
  \/ \A t \in Stores : Records(Src(p), 0, stream[p].upto)
                         \subseteq written[t][Src(p)] \cup stream[p].todo \cup Pending(p)

\* How the parts of a task's state fit together.
Shaped(p) ==
  /\ stream[p].ends \in {0, stream[p].upto}
  /\ \A x \in Batch(p) \cup stream[p].todo : x <= stream[p].upto
  /\ hand[p].terminal # 0
       => hand[p].terminal = stream[p].upto /\ stream[p].todo = {}
  /\ pc[p] \in {"read", "ingest"} => stream[p].todo = {}
  /\ pc[p] \in {"idle", "read", "hand"} => hand[p].terminal = 0
  /\ At(p, "idle") => Batch(p) = {}
  /\ At(p, "semantic") => Batch(p) \subseteq written["lexical"][Src(p)]

OrphanCovered(o) ==
  o.op = "save" => /\ Covered(o.src, o.cursor)
                   /\ \A s \in Sources : Covered(s, o.snapshot[s])

TaskSound(p) == CursorsCovered(p) /\ StreamCovered(p) /\ Shaped(p)

IInv ==
  /\ TypeOK
  /\ CheckpointCovered
  /\ \A p \in Procs : TaskSound(p)
  /\ \A o \in orphans : OrphanCovered(o)

-----------------------------------------------------------------------------
(* Lemmas about writing                                                    *)

\* Records are only ever added.
Grows == \A t \in Stores, s \in Sources : written[t][s] \subseteq written'[t][s]

LEMMA CoveredStays ==
  ASSUME Grows, NEW s \in Sources, NEW c, Covered(s, c)
  PROVE  Covered(s, c)'
  BY DEF Grows, Covered

\* The empty position covers everything.
LEMMA CoveredAtStart == \A s \in Sources : Covered(s, 0)
  BY DEF Covered, Records, Positions

\* A store that takes positions stays a map from records to versions.
LEMMA UpsertTyped ==
  ASSUME NEW versions \in [Keys -> Cursors], NEW s \in Sources,
         NEW W \in SUBSET Positions
  PROVE  Upsert(versions, s, W) \in [Keys -> Cursors]
<1> SUFFICES ASSUME NEW k \in Keys
             PROVE  Upsert(versions, s, W)[k] \in Cursors
  BY DEF Upsert
<1> DEFINE last == Latest({x \in W : KeyOf[s][x] = k})
<1>1. last \subseteq W /\ Positions \subseteq Cursors
  BY DEF Latest, Positions, Cursors
<1>2. last # {} => (CHOOSE x \in last : TRUE) \in last
  OBVIOUS
<1>3. Upsert(versions, s, W)[k] =
        IF last = {} THEN versions[k] ELSE CHOOSE x \in last : TRUE
  BY DEF Upsert
<1> HIDE DEF last
<1> QED
  BY <1>1, <1>2, <1>3

\* Writing keeps the stores typed, adds exactly the positions given, and
\* touches one source.
LEMMA WriteAllSound ==
  ASSUME TypeOK, NEW s \in Sources, NEW W \in [Stores -> SUBSET Positions],
         WriteAll(s, W)
  PROVE  /\ index' \in [Stores -> [Sources -> [Keys -> Cursors]]]
         /\ written' \in [Stores -> [Sources -> SUBSET Positions]]
         /\ Grows
         /\ \A t \in Stores : written'[t][s] = written[t][s] \cup W[t]
<1>1. ASSUME NEW t \in Stores
      PROVE  Upsert(index[t][s], s, W[t]) \in [Keys -> Cursors]
  <2>1. index[t][s] \in [Keys -> Cursors] /\ W[t] \in SUBSET Positions
    BY DEF TypeOK
  <2> QED
    BY <2>1, UpsertTyped
<1>2. index' = [t \in Stores |->
                 [index[t] EXCEPT ![s] = Upsert(index[t][s], s, W[t])]]
  BY DEF WriteAll
<1>3. index' \in [Stores -> [Sources -> [Keys -> Cursors]]]
  BY <1>1, <1>2 DEF TypeOK
<1>4. written' = [t \in Stores |-> [written[t] EXCEPT ![s] = written[t][s] \cup W[t]]]
  BY DEF WriteAll
<1>5. /\ written' \in [Stores -> [Sources -> SUBSET Positions]]
      /\ \A t \in Stores : written'[t][s] = written[t][s] \cup W[t]
      /\ Grows
  BY <1>4 DEF TypeOK, Grows
<1> QED
  BY <1>3, <1>5

LEMMA WriteSound ==
  ASSUME TypeOK, NEW s \in Sources, NEW store \in Stores,
         NEW W \in SUBSET Positions, Write(store, s, W)
  PROVE  /\ index' \in [Stores -> [Sources -> [Keys -> Cursors]]]
         /\ written' \in [Stores -> [Sources -> SUBSET Positions]]
         /\ Grows
         /\ W \subseteq written'[store][s]
<1> DEFINE V == [t \in Stores |-> IF t = store THEN W ELSE {}]
<1>1. V \in [Stores -> SUBSET Positions] /\ WriteAll(s, V) /\ V[store] = W
  BY DEF Write
<1> HIDE DEF V
<1> QED
  BY <1>1, WriteAllSound

-----------------------------------------------------------------------------
(* Lemmas about a task                                                     *)

\* A task that a step leaves alone stays sound while records are added.
LEMMA TaskStays ==
  ASSUME IInv, Grows, NEW q \in Procs,
         pc'[q] = pc[q], job'[q] = job[q], progress'[q] = progress[q],
         stream'[q] = stream[q], hand'[q] = hand[q], saving'[q] = saving[q]
  PROVE  TaskSound(q)'
<1>1. TaskSound(q) /\ Src(q) \in Sources /\ Src(q)' = Src(q)
  BY DEF IInv, TypeOK, Jobs, Src
<1>2. CursorsCovered(q)'
  BY <1>1, CoveredStays DEF TaskSound, CursorsCovered, At
<1>3. StreamCovered(q)'
  BY <1>1 DEF TaskSound, StreamCovered, Pending, Batch, Grows
<1>4. Shaped(q)'
  BY <1>1 DEF TaskSound, Shaped, Batch, At, Grows, Stores
<1> QED
  BY <1>2, <1>3, <1>4 DEF TaskSound

\* A step touches no other task than p.
OnlyTask(p) ==
  \A q \in Procs \ {p} :
    /\ pc'[q] = pc[q] /\ job'[q] = job[q] /\ progress'[q] = progress[q]
    /\ stream'[q] = stream[q] /\ hand'[q] = hand[q] /\ saving'[q] = saving[q]

TaskTyped ==
  /\ pc \in [Procs -> PCs]
  /\ job \in [Procs -> Jobs]
  /\ progress \in [Procs -> Progresses]
  /\ stream \in [Procs -> Streams]
  /\ hand \in [Procs -> Hands]
  /\ saving \in [Procs -> Savings]

AllSound == \A q \in Procs : TaskSound(q)

LEMMA OthersStay ==
  ASSUME IInv, Grows, NEW p \in Procs, OnlyTask(p), TaskSound(p)'
  PROVE  AllSound'
<1> SUFFICES ASSUME NEW q \in Procs, q # p PROVE TaskSound(q)'
  BY DEF AllSound
<1> QED
  BY TaskStays DEF OnlyTask

\* An abandoned or finished task is sound.
LEMMA ReturnSound ==
  ASSUME IInv, Grows, NEW p \in Procs, Return(p)
  PROVE  TaskTyped' /\ AllSound'
<1>1. /\ NoJob \in Jobs /\ NoProgress \in Progresses /\ NoStream \in Streams
      /\ NoHand \in Hands /\ NoSaving \in Savings
  <2>1. Src(p) \in Sources
    BY DEF IInv, TypeOK, Src, Jobs
  <2> QED
    BY <2>1 DEF NoJob, Jobs, Entries, NoProgress, Progresses, NoStream, Streams, NoHand,
                Hands, NoSaving, Savings, EmptyFile, Files, Cursors
<1>2. TaskTyped'
  BY <1>1 DEF IInv, TypeOK, Return, Goto, PCs, TaskTyped
<1>3. /\ OnlyTask(p)
      /\ pc'[p] = "idle" /\ job'[p] = NoJob /\ progress'[p] = NoProgress
      /\ stream'[p] = NoStream /\ hand'[p] = NoHand /\ saving'[p] = NoSaving
  BY DEF OnlyTask, Return, Goto, IInv, TypeOK
<1>4. Src(p)' \in Sources
  BY <1>1, <1>3 DEF Src, Jobs
<1>5. CursorsCovered(p)'
  <2>1. \A s \in Sources : Covered(s, 0)'
    BY DEF Covered, Records, Positions
  <2> QED
    BY <1>3, <1>4, <2>1 DEF CursorsCovered, NoProgress, NoSaving, EmptyFile, At
<1>6. StreamCovered(p)'
  BY <1>3, <1>4 DEF StreamCovered, NoStream, Records, Positions
<1>7. Shaped(p)'
  BY <1>3 DEF Shaped, NoStream, NoHand, Batch, At
<1> QED
  BY <1>2, <1>3, <1>5, <1>6, <1>7, OthersStay DEF TaskSound

\* Going on with the next batch is sound when its cursor is covered and the
\* delivered records are written, unless the checkpoint is blocked.
LEMMA ContinueSound ==
  ASSUME IInv, Grows, NEW p \in Procs, NEW current \in Cursors,
         NEW blocked \in BOOLEAN, ContinueWith(p, current, blocked),
         \A t \in Stores : Records(Src(p), 0, current) \subseteq written'[t][Src(p)],
         blocked \/ \A t \in Stores : Records(Src(p), 0, stream[p].upto)
                      \subseteq written'[t][Src(p)] \cup stream[p].todo
  PROVE  TaskTyped' /\ AllSound'
<1>1. NoHand \in Hands /\ NoSaving \in Savings
  BY DEF NoHand, Hands, NoSaving, Savings, EmptyFile, Files, Cursors
<1>2. TaskTyped'
  BY <1>1 DEF IInv, TypeOK, ContinueWith, Goto, PCs, TaskTyped, Progresses
<1>3. /\ OnlyTask(p)
      /\ pc'[p] = IF stream[p].todo = {} THEN "read" ELSE "hand"
      /\ job'[p] = job[p]
      /\ progress'[p] = [current |-> current, blocked |-> blocked]
      /\ stream'[p] = stream[p] /\ hand'[p] = NoHand /\ saving'[p] = NoSaving
  BY DEF OnlyTask, ContinueWith, Goto, IInv, TypeOK
<1>4. Src(p)' = Src(p) /\ Src(p) \in Sources
  BY <1>3 DEF Src, IInv, TypeOK, Jobs
<1>5. CursorsCovered(p)'
  <2>1. \A s \in Sources : Covered(s, 0)'
    BY DEF Covered, Records, Positions
  <2>2. Covered(Src(p), progress[p].current)'
    BY <1>3, <1>4 DEF Covered
  <2> QED
    BY <1>3, <1>4, <2>1, <2>2 DEF CursorsCovered, NoSaving, EmptyFile, At
<1>6. StreamCovered(p)'
  BY <1>3, <1>4 DEF StreamCovered
<1>7. Shaped(p)'
  BY <1>3 DEF Shaped, NoHand, Batch, At, IInv, TaskSound
<1> QED
  BY <1>2, <1>3, <1>5, <1>6, <1>7, OthersStay DEF TaskSound

\* Beginning to save a covered cursor is sound under the same condition.
LEMMA SaveSound ==
  ASSUME IInv, Grows, NEW p \in Procs, NEW cursor \in Cursors,
         NEW blocked \in BOOLEAN, BeginSave(p, cursor, blocked),
         ~At(p, "idle"),
         \A t \in Stores : Records(Src(p), 0, cursor) \subseteq written'[t][Src(p)],
         blocked \/ \A t \in Stores : Records(Src(p), 0, stream[p].upto)
                      \subseteq written'[t][Src(p)] \cup stream[p].todo
  PROVE  TaskTyped' /\ AllSound'
<1> DEFINE saved == [cursor |-> cursor, snapshot |-> EmptyFile]
           moved == [current |-> progress[p].current, blocked |-> blocked]
<1>1. saved \in Savings /\ moved \in Progresses
  BY DEF Savings, EmptyFile, Files, Cursors, IInv, TypeOK, Progresses
<1>2. TaskTyped'
  BY <1>1 DEF IInv, TypeOK, BeginSave, Goto, PCs, TaskTyped
<1>3. /\ OnlyTask(p)
      /\ pc'[p] = "save_read" /\ job'[p] = job[p] /\ progress'[p] = moved
      /\ stream'[p] = stream[p] /\ hand'[p] = hand[p] /\ saving'[p] = saved
  BY DEF OnlyTask, BeginSave, Goto, IInv, TypeOK
<1>4. Src(p)' = Src(p) /\ Src(p) \in Sources
  BY <1>3 DEF Src, IInv, TypeOK, Jobs
<1>5. CursorsCovered(p)'
  <2>1. \A s \in Sources : Covered(s, 0)'
    BY DEF Covered, Records, Positions
  <2>2. Covered(Src(p), progress[p].current)'
    <3>1. Covered(Src(p), progress[p].current)
      BY DEF IInv, TaskSound, CursorsCovered
    <3>2. progress'[p].current = progress[p].current
      BY <1>3
    <3> QED
      BY <3>1, <3>2, <1>4 DEF Covered, Grows
  <2>3. Covered(Src(p), saving[p].cursor)'
    BY <1>3, <1>4 DEF Covered
  <2> QED
    BY <1>3, <1>4, <2>1, <2>2, <2>3 DEF CursorsCovered, EmptyFile, At
<1>6. StreamCovered(p)'
  BY <1>3, <1>4 DEF StreamCovered
<1>7. Shaped(p)'
  BY <1>3 DEF Shaped, Batch, At, IInv, TaskSound
<1> QED
  BY <1>2, <1>3, <1>5, <1>6, <1>7, OthersStay DEF TaskSound

-----------------------------------------------------------------------------
(* One lemma per action                                                    *)

\* What every action has to establish.
DataTyped ==
  /\ produced \in [Sources -> Cursors]
  /\ index \in [Stores -> [Sources -> [Keys -> Cursors]]]
  /\ written \in [Stores -> [Sources -> SUBSET Positions]]
  /\ acked \in [Sources -> Cursors]
  /\ faults \in 0..MaxFaults

DurableSound ==
  /\ file \in [Sources -> Cursors]
  /\ orphans \subseteq Writers \cup Savers
  /\ CheckpointCovered
  /\ \A o \in orphans : OrphanCovered(o)

LEMMA Parts == DataTyped' /\ TaskTyped' /\ DurableSound' /\ AllSound' => IInv'
  BY DEF IInv, TypeOK, DataTyped, TaskTyped, DurableSound, AllSound

\* Saved cursors stay covered while the file and the threads are left alone.
LEMMA DurableStays ==
  ASSUME IInv, Grows, UNCHANGED file, orphans' \subseteq orphans
  PROVE  DurableSound'
<1>1. CheckpointCovered'
  BY CoveredStays DEF CheckpointCovered, IInv
<1>2. ASSUME NEW o \in orphans' PROVE OrphanCovered(o)'
  <2>1. OrphanCovered(o) /\ o \in Writers \cup Savers
    BY <1>2 DEF IInv, TypeOK
  <2>2. CASE o.op # "save"
    BY <2>2 DEF OrphanCovered
  <2>3. CASE o.op = "save"
    <3>1. o.src \in Sources
      BY <2>1 DEF Writers, Savers
    <3>2. Covered(o.src, o.cursor)'
      BY <2>1, <2>3, <3>1, CoveredStays DEF OrphanCovered
    <3>3. \A s \in Sources : Covered(s, o.snapshot[s])'
      BY <2>1, <2>3, CoveredStays DEF OrphanCovered
    <3> QED
      BY <3>2, <3>3 DEF OrphanCovered
  <2> QED
    BY <2>2, <2>3
<1> QED
  BY <1>1, <1>2 DEF DurableSound, IInv, TypeOK

LEMMA FaultTyped == Fault /\ faults \in 0..MaxFaults => faults' \in 0..MaxFaults
  BY DEF Fault

LEMMA ProduceSound ==
  ASSUME IInv, NEW s \in Sources, Produce(s)
  PROVE  IInv'
<1>1. Grows /\ UNCHANGED <<file, orphans, task>>
  BY DEF Produce, stores, Grows
<1>2. DataTyped' /\ TaskTyped'
  BY DEF Produce, stores, task, IInv, TypeOK, DataTyped, TaskTyped, Cursors
<1>3. AllSound'
  BY <1>1, TaskStays DEF AllSound, task
<1> QED
  BY <1>1, <1>2, <1>3, DurableStays, Parts

LEMMA StartSound ==
  ASSUME IInv, NEW p \in Procs, NEW s \in Sources, NEW e \in Entries, NEW m \in Modes,
         Start(p, s, e, m)
  PROVE  IInv'
<1> DEFINE opened == [upto |-> file[s], todo |-> {}, ends |-> 0, ended |-> FALSE]
           begun == [current |-> file[s], blocked |-> FALSE]
<1>1. Grows /\ UNCHANGED <<file, orphans>>
  BY DEF Start, stores, Grows
<1>2. DataTyped'
  BY DEF Start, stores, IInv, TypeOK, DataTyped
<1>3. /\ opened \in Streams /\ begun \in Progresses
      /\ [src |-> s, entry |-> e, mode |-> m] \in Jobs
  <2>1. file[s] \in Cursors /\ 0 \in Cursors /\ m \in {"strict", "lenient"}
    BY DEF IInv, TypeOK, Cursors
  <2> QED
    BY <2>1 DEF Streams, Progresses, Jobs
<1>4. TaskTyped'
  BY <1>3 DEF Start, Goto, PCs, TaskTyped, IInv, TypeOK
<1>5. /\ OnlyTask(p) /\ pc[p] = "idle"
      /\ pc'[p] = "read" /\ job'[p] = [src |-> s, entry |-> e, mode |-> m]
      /\ progress'[p] = begun /\ stream'[p] = opened
      /\ hand'[p] = hand[p] /\ saving'[p] = saving[p]
  BY DEF Start, Goto, OnlyTask, At, IInv, TypeOK
<1>6. Covered(s, file[s])'
  BY <1>1 DEF IInv, CheckpointCovered, Covered, Grows
<1>7. CursorsCovered(p)'
  <2>1. ASSUME NEW x \in Sources PROVE Covered(x, saving[p].snapshot[x])'
    <3>1. Covered(x, saving[p].snapshot[x])
      BY DEF IInv, TaskSound, CursorsCovered
    <3> QED
      BY <1>1, <1>5, <3>1 DEF Covered, Grows
  <2> QED
    BY <1>1, <1>5, <1>6, <2>1 DEF CursorsCovered, At, Src
<1>8. StreamCovered(p)'
  BY <1>1, <1>5, <1>6 DEF StreamCovered, Covered, Src
<1>9. Shaped(p)'
  <2>1. Batch(p) = {} /\ hand[p].terminal = 0
    BY <1>5 DEF IInv, TaskSound, Shaped, At
  <2> QED
    BY <1>5, <2>1 DEF Shaped, Batch, At
<1> QED
  BY <1>1, <1>2, <1>4, <1>5, <1>7, <1>8, <1>9, OthersStay, DurableStays, Parts
     DEF TaskSound

LEMMA DeliverSound ==
  ASSUME IInv, NEW p \in Procs, At(p, "read"), NEW hi \in Cursors,
         NEW ends \in {0, hi}, NEW ended \in BOOLEAN, stream[p].upto <= hi,
         Deliver(p, hi, ends, ended)
  PROVE  IInv'
<1> DEFINE todo == Records(Src(p), stream[p].upto, hi)
           read == [upto |-> hi, todo |-> todo, ends |-> ends, ended |-> ended]
<1>1. Grows /\ UNCHANGED <<file, orphans>>
  BY DEF Deliver, stores, Grows
<1>2. DataTyped'
  BY DEF Deliver, stores, IInv, TypeOK, DataTyped
<1>3. read \in Streams
  BY DEF Records, Streams, Cursors
<1>4. TaskTyped'
  BY <1>3 DEF Deliver, Goto, PCs, TaskTyped, IInv, TypeOK
<1>5. /\ OnlyTask(p) /\ pc[p] = "read"
      /\ pc'[p] = "hand" /\ job'[p] = job[p] /\ progress'[p] = progress[p]
      /\ stream'[p] = read /\ hand'[p] = hand[p] /\ saving'[p] = saving[p]
  BY DEF Deliver, Goto, OnlyTask, At, IInv, TypeOK
<1>6. Src(p)' = Src(p) /\ Src(p) \in Sources /\ TaskSound(p)
  BY <1>5 DEF Src, IInv, TypeOK, Jobs
<1>7. CursorsCovered(p)'
  BY <1>1, <1>5, <1>6, CoveredStays DEF TaskSound, CursorsCovered, At
<1>8. StreamCovered(p)'
  <2>1. \A x \in Records(Src(p), 0, hi) :
          x \in Records(Src(p), 0, stream[p].upto) \/ x \in todo
    BY DEF Records, Positions, IInv, TypeOK, Streams, Cursors
  <2>2. /\ progress'[p] = progress[p] /\ stream'[p].upto = hi
        /\ stream'[p].todo = todo /\ stream[p].todo = {} /\ Pending(p) = {}
    BY <1>5, <1>6 DEF TaskSound, Shaped, Pending
  <2> HIDE DEF todo
  <2> QED
    BY <1>1, <1>6, <2>1, <2>2 DEF TaskSound, StreamCovered, Grows
<1>9. Shaped(p)'
  <2>1. \A x \in Batch(p) : x <= hi
    BY <1>6 DEF TaskSound, Shaped, IInv, TypeOK, Hands, Batch, Positions,
                Streams, Cursors
  <2>2. hand[p].terminal = 0
    BY <1>5, <1>6 DEF TaskSound, Shaped
  <2>3. \A x \in todo : x <= hi
    BY DEF Records
  <2> QED
    BY <1>5, <2>1, <2>2, <2>3 DEF Shaped, Batch, At
<1> QED
  BY <1>1, <1>2, <1>4, <1>5, <1>7, <1>8, <1>9, OthersStay, DurableStays, Parts
     DEF TaskSound

LEMMA HandSound ==
  ASSUME IInv, NEW p \in Procs, Hand(p)
  PROVE  IInv'
<1> DEFINE part == Part(p)
           rest == [upto |-> stream[p].upto, todo |-> stream[p].todo \ part,
                    ends |-> stream[p].ends, ended |-> stream[p].ended]
           term == IF part = stream[p].todo THEN stream[p].ends ELSE 0
           next == IF part = {} THEN "settle"
                   ELSE IF job[p].entry = "kernel" THEN "ingest" ELSE "lexical"
<1>1. Grows /\ UNCHANGED <<file, orphans>>
  BY DEF Hand, TakeBatch, stores, Grows
<1>2. DataTyped'
  BY DEF Hand, TakeBatch, stores, IInv, TypeOK, DataTyped
<1>3. part \subseteq stream[p].todo
  BY DEF Part, First
<1>4. /\ rest \in Streams /\ [batch |-> part, terminal |-> term] \in Hands
      /\ rest.upto = stream[p].upto /\ rest.ends = stream[p].ends
      /\ rest.todo = stream[p].todo \ part
  <2>1. stream[p] \in Streams /\ 0 \in Cursors
    BY DEF IInv, TypeOK, Cursors
  <2> HIDE DEF part
  <2> QED
    BY <1>3, <2>1 DEF Streams, Hands
<1> HIDE DEF part
<1>5. TaskTyped'
  <2>1. next \in PCs
    BY DEF PCs
  <2>2. /\ pc' = [pc EXCEPT ![p] = next] /\ UNCHANGED <<job, progress, saving>>
        /\ hand' = [hand EXCEPT ![p] = [batch |-> part, terminal |-> term]]
        /\ stream' = [stream EXCEPT ![p] = rest]
    BY DEF Hand, TakeBatch, Goto, part, IInv, TypeOK
  <2> HIDE DEF rest, term, next
  <2> QED
    BY <1>4, <2>1, <2>2 DEF TaskTyped, IInv, TypeOK
<1>6. /\ OnlyTask(p) /\ pc[p] = "hand"
      /\ pc'[p] = next /\ job'[p] = job[p] /\ progress'[p] = progress[p]
      /\ stream'[p] = rest /\ saving'[p] = saving[p]
      /\ hand'[p] = [batch |-> part, terminal |-> term]
  BY DEF Hand, TakeBatch, Goto, OnlyTask, At, IInv, TypeOK, part
<1>7. Src(p)' = Src(p) /\ Src(p) \in Sources /\ TaskSound(p)
  BY <1>6 DEF Src, IInv, TypeOK, Jobs
<1>8. next \notin {"save_read", "save_write", "idle", "read", "hand", "semantic"}
  OBVIOUS
<1>9. CursorsCovered(p)'
  BY <1>1, <1>6, <1>7, <1>8, CoveredStays DEF TaskSound, CursorsCovered, At
<1>10. StreamCovered(p)'
  <2>1. Pending(p)' = part
    BY <1>6 DEF Pending, Batch
  <2>2. Pending(p) = {}
    BY <1>6 DEF Pending
  <2>3. stream'[p].upto = stream[p].upto /\ stream'[p].todo = stream[p].todo \ part
    BY <1>4, <1>6
  <2> HIDE DEF rest, next, term
  <2> QED
    BY <1>1, <1>3, <1>6, <1>7, <2>1, <2>2, <2>3 DEF TaskSound, StreamCovered, Grows
<1>11. Shaped(p)'
  <2>1. \A x \in part \cup rest.todo : x <= stream[p].upto
    BY <1>3, <1>4, <1>7 DEF TaskSound, Shaped
  <2>2. stream[p].ends \in {0, stream[p].upto}
    BY <1>7 DEF TaskSound, Shaped
  <2>3. term # 0 => term = stream[p].upto /\ rest.todo = {}
    BY <1>4, <2>2
  <2>4. next = "ingest" => rest.todo = {}
    BY <1>4 DEF part, Part
  <2>5. /\ Batch(p)' = part /\ stream'[p].upto = stream[p].upto
        /\ stream'[p].ends = stream[p].ends /\ stream'[p].todo = rest.todo
        /\ hand'[p].terminal = term /\ pc'[p] = next
    BY <1>4, <1>6 DEF Batch
  <2> HIDE DEF rest, next, term
  <2> QED
    BY <1>3, <1>8, <2>1, <2>2, <2>3, <2>4, <2>5 DEF Shaped, At
<1> QED
  BY <1>1, <1>2, <1>5, <1>6, <1>9, <1>10, <1>11, OthersStay, DurableStays, Parts
     DEF TaskSound

LEMMA FinishSound ==
  ASSUME IInv, NEW p \in Procs, Finish(p)
  PROVE  IInv'
<1>1. Grows /\ UNCHANGED <<file, orphans>> /\ Return(p)
  BY DEF Finish, stores, Grows
<1>2. progress[p].current \in Cursors
  BY DEF IInv, TypeOK, Progresses
<1>3. DataTyped'
  BY <1>2 DEF Finish, stores, IInv, TypeOK, DataTyped
<1> QED
  BY <1>1, <1>3, ReturnSound, DurableStays, Parts

\* A failed batch is sound: the checkpoint is blocked from now on.
LEMMA FailBatchSound ==
  ASSUME IInv, Grows, NEW p \in Procs, FailBatch(p)
  PROVE  TaskTyped' /\ AllSound'
<1>1. CASE job[p].mode = "strict"
  BY <1>1, ReturnSound DEF FailBatch
<1>2. CASE job[p].mode # "strict"
  <2>1. ContinueWith(p, progress[p].current, TRUE)
    BY <1>2 DEF FailBatch
  <2>2. job'[p] = job[p] /\ progress[p].current \in Cursors /\ Src(p) \in Sources
    BY <2>1 DEF ContinueWith, IInv, TypeOK, Progresses, Src, Jobs
  <2>3. Covered(Src(p), progress[p].current)
    BY DEF IInv, TaskSound, CursorsCovered
  <2> QED
    BY <2>1, <2>2, <2>3, ContinueSound DEF Covered, Grows
<1> QED
  BY <1>1, <1>2

\* A lexical or semantic stage: the batch is written, or fails.
LEMMA StageSound ==
  ASSUME IInv, NEW p \in Procs, NEW store \in Stores, At(p, store),
         NEW next \in {"semantic", "settle"},
         store = "lexical" => next = "semantic",
         store = "semantic" => next = "settle",
         Stage(p, store, next)
  PROVE  IInv'
<1>1. /\ Src(p) \in Sources /\ Batch(p) \in SUBSET Positions /\ TypeOK
      /\ UNCHANGED <<file, orphans, produced, acked>> /\ TaskSound(p)
  BY DEF Stage, IInv, TypeOK, Src, Jobs, Batch, Hands
<1>2. ASSUME Fault, NEW W \in SUBSET Batch(p), Write(store, Src(p), W), FailBatch(p)
      PROVE  IInv'
  <2>1. /\ Grows /\ written' \in [Stores -> [Sources -> SUBSET Positions]]
        /\ index' \in [Stores -> [Sources -> [Keys -> Cursors]]]
    BY <1>1, <1>2, WriteSound
  <2>2. DataTyped'
    BY <1>1, <1>2, <2>1, FaultTyped DEF DataTyped, TypeOK
  <2> QED
    BY <1>1, <1>2, <2>1, <2>2, FailBatchSound, DurableStays, Parts
<1>3. ASSUME Write(store, Src(p), Batch(p)), Goto(p, next),
             UNCHANGED <<job, progress, stream, hand, saving, faults>>
      PROVE  IInv'
  <2>1. /\ Grows /\ written' \in [Stores -> [Sources -> SUBSET Positions]]
        /\ index' \in [Stores -> [Sources -> [Keys -> Cursors]]]
        /\ Batch(p) \subseteq written'[store][Src(p)]
    BY <1>1, <1>3, WriteSound
  <2>2. DataTyped'
    BY <1>1, <1>3, <2>1 DEF DataTyped, TypeOK
  <2>3. TaskTyped'
    BY <1>1, <1>3 DEF TaskTyped, TypeOK, Goto, PCs
  <2>4. OnlyTask(p) /\ pc'[p] = next
    BY <1>1, <1>3 DEF OnlyTask, Goto, TypeOK
  <2>5. CursorsCovered(p)'
    BY <1>1, <1>3, <2>1, <2>4, CoveredStays DEF TaskSound, CursorsCovered, At, Src
  <2>6. StreamCovered(p)'
    <3>1. CASE next = "semantic"
      <4>1. Pending(p)' = Pending(p)
        BY <1>3, <2>4, <3>1 DEF Pending, Batch, At, Stores
      <4>2. Src(p)' = Src(p)
        BY <1>3 DEF Src
      <4> QED
        BY <1>1, <1>3, <2>1, <4>1, <4>2 DEF TaskSound, StreamCovered, Grows
    <3>2. CASE next = "settle"
      <4>1. store = "semantic" /\ Pending(p) = Batch(p)
        BY <3>2 DEF Pending, At, Stores
      <4>2. Batch(p) \subseteq written["lexical"][Src(p)]
        BY <1>1, <4>1 DEF TaskSound, Shaped
      <4>3. \A t \in Stores : Batch(p) \subseteq written'[t][Src(p)]
        BY <1>1, <2>1, <4>1, <4>2 DEF Grows, Stores
      <4> QED
        BY <1>1, <1>3, <2>1, <4>1, <4>3 DEF TaskSound, StreamCovered, Grows, Src
    <3> QED
      BY <3>1, <3>2
  <2>7. Shaped(p)'
    BY <1>1, <1>3, <2>1, <2>4 DEF TaskSound, Shaped, At, Batch, Stores, Src
  <2> QED
    BY <1>1, <2>1, <2>2, <2>3, <2>4, <2>5, <2>6, <2>7, OthersStay, DurableStays,
       Parts DEF TaskSound
<1> QED
  BY <1>2, <1>3 DEF Stage

LEMMA SettleSound ==
  ASSUME IInv, NEW p \in Procs, Settle(p)
  PROVE  IInv'
<1>1. /\ Grows /\ UNCHANGED <<file, orphans>> /\ pc[p] = "settle"
      /\ UNCHANGED written
  BY DEF Settle, stores, Grows, At
<1>2. DataTyped'
  BY DEF Settle, stores, IInv, TypeOK, DataTyped
<1>3. /\ Src(p) \in Sources /\ progress[p].current \in Cursors
      /\ progress[p].blocked \in BOOLEAN /\ hand[p].terminal \in Cursors
      /\ TaskSound(p)
  BY DEF IInv, TypeOK, Src, Jobs, Progresses, Hands
<1>4. progress[p].blocked \/ \A t \in Stores : Records(Src(p), 0, stream[p].upto)
                              \subseteq written'[t][Src(p)] \cup stream[p].todo
  BY <1>1, <1>3 DEF TaskSound, StreamCovered, Pending
<1>5. CASE Advances(p)
  <2>1. BeginSave(p, hand[p].terminal, FALSE) /\ ~At(p, "idle") /\ UNCHANGED job
    BY <1>1, <1>5 DEF Settle, At, BeginSave
  <2>2. ~progress[p].blocked /\ stream[p].todo = {}
        /\ hand[p].terminal = stream[p].upto
    BY <1>3, <1>5 DEF Advances, TaskSound, Shaped
  <2>3. Covered(Src(p), hand[p].terminal)
    BY <1>1, <1>4, <2>2 DEF Covered
  <2>4. \A t \in Stores : Records(Src(p), 0, hand[p].terminal)
                           \subseteq written'[t][Src(p)]
    BY <1>1, <2>3 DEF Covered
  <2>5. TaskTyped' /\ AllSound'
    BY <1>1, <1>3, <1>4, <2>1, <2>2, <2>4, SaveSound
  <2> QED
    BY <1>1, <1>2, <2>5, DurableStays, Parts
<1>6. CASE ~Advances(p)
  <2>1. ContinueWith(p, progress[p].current, progress[p].blocked)
    BY <1>6 DEF Settle, Continue
  <2>2. UNCHANGED job /\ \A t \in Stores :
          Records(Src(p), 0, progress[p].current) \subseteq written'[t][Src(p)]
    BY <1>1, <1>3, <2>1 DEF ContinueWith, TaskSound, CursorsCovered, Covered
  <2>3. TaskTyped' /\ AllSound'
    BY <1>1, <1>3, <1>4, <2>1, <2>2, ContinueSound
  <2> QED
    BY <1>1, <1>2, <2>3, DurableStays, Parts
<1> QED
  BY <1>5, <1>6

\* The records before the first failure are written in both stores, and the
\* cursor chosen from them is covered.
LEMMA CandidateSound ==
  ASSUME IInv, Grows, NEW p \in Procs, At(p, "ingest"),
         NEW ok \in SUBSET Batch(p),
         \A t \in Stores : ok \subseteq written'[t][Src(p)],
         NEW c \in Candidates(p, ok)
  PROVE  /\ c \in Cursors
         /\ \A t \in Stores : Records(Src(p), 0, c) \subseteq written'[t][Src(p)]
         /\ \/ progress[p].blocked \/ ok # Batch(p)
            \/ \A t \in Stores : Records(Src(p), 0, stream[p].upto)
                 \subseteq written'[t][Src(p)] \cup stream[p].todo
<1>1. /\ Src(p) \in Sources /\ TaskSound(p) /\ stream[p].todo = {}
      /\ progress[p].current \in Cursors /\ hand[p].terminal \in Cursors
      /\ stream[p].upto \in Cursors
      /\ Batch(p) \subseteq Positions /\ Pending(p) = Batch(p)
  BY DEF IInv, TypeOK, Src, Jobs, Progresses, Hands, Streams, TaskSound, Shaped,
         At, Batch, Pending
<1>2. progress[p].blocked \/ \A t \in Stores :
        Records(Src(p), 0, stream[p].upto) \subseteq written'[t][Src(p)] \cup Batch(p)
  BY <1>1 DEF TaskSound, StreamCovered, Grows
<1>3. \A t \in Stores : Records(Src(p), 0, progress[p].current)
                          \subseteq written'[t][Src(p)]
  BY <1>1 DEF TaskSound, CursorsCovered, Covered, Grows
<1>4. CASE c = progress[p].current
  BY <1>1, <1>2, <1>3, <1>4
<1>5. CASE ~progress[p].blocked /\ hand[p].terminal # 0 /\ ok = Batch(p)
           /\ c = hand[p].terminal
  <2>1. c = stream[p].upto
    BY <1>1, <1>5 DEF TaskSound, Shaped
  <2> QED
    BY <1>1, <1>2, <1>5, <2>1
<1>6. CASE ~progress[p].blocked /\ c \in Prefix(p, ok)
  <2>1. /\ c \in Batch(p) /\ c \in Positions /\ c <= stream[p].upto
        /\ \A y \in Batch(p) : y <= c => y \in ok
    BY <1>1, <1>6 DEF Prefix, TaskSound, Shaped
  <2>2. \A x \in Records(Src(p), 0, c) :
          x \in Records(Src(p), 0, stream[p].upto) /\ x <= c
    BY <1>1, <2>1 DEF Records, Positions, Cursors
  <2>3. \A t \in Stores : Records(Src(p), 0, c) \subseteq written'[t][Src(p)]
    BY <1>2, <1>6, <2>1, <2>2
  <2>4. c \in Cursors
    BY <2>1 DEF Positions, Cursors
  <2> QED
    BY <1>1, <1>2, <2>3, <2>4
<1>7. \A x \in Latest(Prefix(p, ok)) : x \in Prefix(p, ok)
  BY DEF Latest
<1> QED
  BY <1>4, <1>5, <1>6, <1>7 DEF Candidates, SafeBatchCheckpoint, LastOf

LEMMA IngestBatchSound ==
  ASSUME IInv, NEW p \in Procs, IngestBatch(p)
  PROVE  IInv'
<1>1. PICK L \in SUBSET Batch(p), S \in SUBSET Batch(p) :
        /\ IF L \cap S = Batch(p) THEN UNCHANGED faults ELSE Fault
        /\ WriteAll(Src(p), [t \in Stores |-> IF t = "lexical" THEN L ELSE S])
        /\ Conclude(p, L \cap S)
  BY DEF IngestBatch
<1> DEFINE ok == L \cap S
           V == [t \in Stores |-> IF t = "lexical" THEN L ELSE S]
<1>2. /\ Src(p) \in Sources /\ Batch(p) \in SUBSET Positions /\ TypeOK
      /\ progress[p].current \in Cursors /\ progress[p].blocked \in BOOLEAN
      /\ UNCHANGED <<file, orphans, produced, acked>> /\ At(p, "ingest")
  BY DEF IngestBatch, IInv, TypeOK, Src, Jobs, Batch, Hands, Progresses
<1>3. V \in [Stores -> SUBSET Positions] /\ \A t \in Stores : ok \subseteq V[t]
  BY <1>2
<1>4. WriteAll(Src(p), V)
  BY <1>1
<1>5. /\ index' \in [Stores -> [Sources -> [Keys -> Cursors]]]
      /\ written' \in [Stores -> [Sources -> SUBSET Positions]]
      /\ Grows
      /\ \A t \in Stores : written'[t][Src(p)] = written[t][Src(p)] \cup V[t]
  <2> HIDE DEF V
  <2> QED
    BY <1>2, <1>3, <1>4, WriteAllSound
<1>6. ok \in SUBSET Batch(p) /\ \A t \in Stores : ok \subseteq written'[t][Src(p)]
  <2> HIDE DEF V
  <2> QED
    BY <1>3, <1>5
<1>7. DataTyped'
  BY <1>1, <1>2, <1>5, FaultTyped DEF DataTyped, TypeOK
<1>8. Conclude(p, ok)
  BY <1>1
<1> HIDE DEF ok, V
<1>9. CASE ok # Batch(p) /\ job[p].mode = "strict"
  <2>1. Return(p)
    BY <1>8, <1>9 DEF Conclude
  <2> QED
    BY <1>2, <1>5, <1>7, <2>1, ReturnSound, DurableStays, Parts
<1>10. CASE ~(ok # Batch(p) /\ job[p].mode = "strict")
  <2> DEFINE blocked == progress[p].blocked \/ ok # Batch(p)
  <2>1. PICK c \in Candidates(p, ok) :
          IF c # progress[p].current THEN BeginSave(p, c, blocked)
          ELSE ContinueWith(p, c, blocked)
    BY <1>8, <1>10 DEF Conclude
  <2>2. /\ c \in Cursors
        /\ \A t \in Stores : Records(Src(p), 0, c) \subseteq written'[t][Src(p)]
        /\ blocked \/ \A t \in Stores : Records(Src(p), 0, stream[p].upto)
                        \subseteq written'[t][Src(p)] \cup stream[p].todo
    BY <1>2, <1>5, <1>6, CandidateSound
  <2>3. blocked \in BOOLEAN
    OBVIOUS
  <2>4. ~At(p, "idle")
    BY <1>2 DEF At
  <2> HIDE DEF blocked
  <2>5. TaskTyped' /\ AllSound'
    BY <1>5, <2>1, <2>2, <2>3, <2>4, SaveSound, ContinueSound
  <2> QED
    BY <1>2, <1>5, <1>7, <2>5, DurableStays, Parts
<1> QED
  BY <1>9, <1>10

\* The snapshot that a save merges into is the covered file.
LEMMA SaveReadSound ==
  ASSUME IInv, NEW p \in Procs, SaveRead(p)
  PROVE  IInv'
<1> DEFINE read == [cursor |-> saving[p].cursor, snapshot |-> file]
<1>1. Grows /\ UNCHANGED <<file, orphans>>
  BY DEF SaveRead, stores, Grows
<1>2. DataTyped'
  BY DEF SaveRead, stores, IInv, TypeOK, DataTyped
<1>3. read \in Savings
  BY DEF IInv, TypeOK, Savings, Files
<1>4. TaskTyped'
  BY <1>3 DEF SaveRead, Goto, PCs, TaskTyped, IInv, TypeOK
<1>5. /\ OnlyTask(p) /\ pc[p] = "save_read"
      /\ pc'[p] = "save_write" /\ job'[p] = job[p] /\ progress'[p] = progress[p]
      /\ stream'[p] = stream[p] /\ hand'[p] = hand[p] /\ saving'[p] = read
  BY DEF SaveRead, Goto, OnlyTask, At, IInv, TypeOK
<1>6. Src(p)' = Src(p) /\ Src(p) \in Sources /\ TaskSound(p)
  BY <1>5 DEF Src, IInv, TypeOK, Jobs
<1>7. CursorsCovered(p)'
  <2>1. \A s \in Sources : Covered(s, file[s])'
    BY <1>1 DEF IInv, CheckpointCovered, Covered, Grows
  <2>2. Covered(Src(p), progress[p].current)' /\ Covered(Src(p), saving[p].cursor)'
    BY <1>1, <1>5, <1>6, CoveredStays DEF TaskSound, CursorsCovered, At
  <2>3. \A s \in Sources : Covered(s, saving[p].snapshot[s])'
    BY <1>1, <1>5, <2>1
  <2> QED
    BY <2>2, <2>3 DEF CursorsCovered
<1>8. StreamCovered(p)'
  BY <1>1, <1>5, <1>6 DEF TaskSound, StreamCovered, Pending, Grows
<1>9. Shaped(p)'
  BY <1>5, <1>6 DEF TaskSound, Shaped, Batch, At
<1> QED
  BY <1>1, <1>2, <1>4, <1>5, <1>7, <1>8, <1>9, OthersStay, DurableStays, Parts
     DEF TaskSound

\* Writing back a covered snapshot with one covered cursor.
LEMMA FileSound ==
  ASSUME IInv, Grows, NEW s \in Sources, NEW cursor \in Cursors,
         NEW snapshot \in Files, Covered(s, cursor),
         \A x \in Sources : Covered(x, snapshot[x]),
         file' = [snapshot EXCEPT ![s] = cursor], orphans' \subseteq orphans
  PROVE  DurableSound'
<1>1. \A x \in Sources : file'[x] = IF x = s THEN cursor ELSE snapshot[x]
  BY DEF Files
<1>2. \A x \in Sources : Covered(x, file[x])'
  BY <1>1 DEF Covered, Grows
<1>3. file' \in [Sources -> Cursors]
  BY DEF Files
<1>4. ASSUME NEW o \in orphans' PROVE OrphanCovered(o)'
  <2>1. OrphanCovered(o) /\ o \in Writers \cup Savers
    BY <1>4 DEF IInv, TypeOK
  <2>2. o.op = "save" => o.src \in Sources
    BY <2>1 DEF Writers, Savers
  <2> QED
    BY <2>1, <2>2 DEF OrphanCovered, Covered, Grows
<1> QED
  BY <1>2, <1>3, <1>4 DEF DurableSound, CheckpointCovered, IInv, TypeOK

LEMMA SaveWriteSound ==
  ASSUME IInv, NEW p \in Procs, SaveWrite(p)
  PROVE  IInv'
<1>1. /\ Grows /\ UNCHANGED <<written, orphans>> /\ pc[p] = "save_write"
      /\ file' = [saving[p].snapshot EXCEPT ![Src(p)] = saving[p].cursor]
      /\ ContinueWith(p, saving[p].cursor, progress[p].blocked)
  BY DEF SaveWrite, stores, Grows, At
<1>2. /\ Src(p) \in Sources /\ saving[p].cursor \in Cursors /\ TaskSound(p)
      /\ saving[p].snapshot \in Files /\ progress[p].blocked \in BOOLEAN
  BY DEF IInv, TypeOK, Src, Jobs, Progresses, Savings
<1>3. DataTyped'
  BY DEF SaveWrite, stores, IInv, TypeOK, DataTyped
<1>4. Covered(Src(p), saving[p].cursor) /\ \A x \in Sources : Covered(x, saving[p].snapshot[x])
  BY <1>1, <1>2 DEF TaskSound, CursorsCovered, At
<1>5. DurableSound'
  BY <1>1, <1>2, <1>4, FileSound
<1>6. \A t \in Stores : Records(Src(p), 0, saving[p].cursor)
                          \subseteq written'[t][Src(p)]
  BY <1>1, <1>4 DEF Covered
<1>7. progress[p].blocked \/ \A t \in Stores : Records(Src(p), 0, stream[p].upto)
                              \subseteq written'[t][Src(p)] \cup stream[p].todo
  BY <1>1, <1>2 DEF TaskSound, StreamCovered, Pending
<1>8. TaskTyped' /\ AllSound'
  BY <1>1, <1>2, <1>6, <1>7, ContinueSound
<1> QED
  BY <1>3, <1>5, <1>8, Parts

\* A thread that outlives its call holds only covered cursors.
LEMMA ThreadsSound ==
  ASSUME IInv, NEW p \in Procs
  PROVE  Threads(p) \subseteq Writers \cup Savers
         /\ \A o \in Threads(p) : OrphanCovered(o)
<1>1. /\ Src(p) \in Sources /\ saving[p].cursor \in Cursors /\ TaskSound(p)
      /\ saving[p].snapshot \in Files /\ Batch(p) \in SUBSET Positions
  BY DEF IInv, TypeOK, Src, Jobs, Savings, Batch, Hands
<1>2. ASSUME NEW t \in Stores
      PROVE  LET o == [owner |-> p, op |-> t, src |-> Src(p), batch |-> Batch(p)]
             IN  o \in Writers /\ OrphanCovered(o)
  BY <1>1 DEF Writers, OrphanCovered, Stores
<1>3. ASSUME At(p, "save_write")
      PROVE  LET o == [owner |-> p, op |-> "save", src |-> Src(p),
                       cursor |-> saving[p].cursor, snapshot |-> saving[p].snapshot]
             IN  o \in Savers /\ OrphanCovered(o)
  BY <1>1, <1>3 DEF Savers, OrphanCovered, TaskSound, CursorsCovered
<1>4. Writing(p) \subseteq Stores
  BY DEF Writing
<1> QED
  BY <1>2, <1>3, <1>4 DEF Threads

LEMMA CancelSound ==
  ASSUME IInv, NEW p \in Procs, Cancel(p)
  PROVE  IInv'
<1>1. /\ Grows /\ UNCHANGED <<file, written>> /\ Return(p) /\ Fault
      /\ orphans' \subseteq orphans \cup Threads(p)
  BY DEF Cancel, stores, Grows
<1>2. DataTyped'
  BY <1>1, FaultTyped DEF Cancel, stores, IInv, TypeOK, DataTyped
<1>3. CheckpointCovered'
  BY <1>1, CoveredStays DEF CheckpointCovered, IInv
<1>4. \A o \in orphans' : o \in Writers \cup Savers /\ OrphanCovered(o)
  BY <1>1, ThreadsSound DEF IInv, TypeOK
<1>5. \A o \in orphans' : OrphanCovered(o)'
  BY <1>1, <1>4 DEF OrphanCovered, Covered
<1>6. DurableSound'
  BY <1>1, <1>3, <1>4, <1>5 DEF DurableSound, IInv, TypeOK
<1> QED
  BY <1>1, <1>2, <1>6, ReturnSound, Parts

LEMMA OrphanWritesSound ==
  ASSUME IInv, NEW o \in orphans, OrphanWrites(o)
  PROVE  IInv'
<1>1. /\ o.op \in Stores /\ Write(o.op, o.src, o.batch) /\ TypeOK
      /\ UNCHANGED <<produced, file, acked, task, faults>>
      /\ orphans' \subseteq orphans
  BY DEF OrphanWrites, IInv
<1>2. o.src \in Sources /\ o.batch \in SUBSET Positions
  BY <1>1 DEF TypeOK, Writers, Savers, Stores
<1>3. /\ Grows /\ written' \in [Stores -> [Sources -> SUBSET Positions]]
      /\ index' \in [Stores -> [Sources -> [Keys -> Cursors]]]
  BY <1>1, <1>2, WriteSound
<1>4. DataTyped' /\ TaskTyped'
  BY <1>1, <1>3 DEF DataTyped, TaskTyped, TypeOK, task
<1>5. AllSound'
  BY <1>1, <1>3, TaskStays DEF AllSound, task
<1> QED
  BY <1>1, <1>3, <1>4, <1>5, DurableStays, Parts

LEMMA OrphanSavesSound ==
  ASSUME IInv, NEW o \in orphans, OrphanSaves(o)
  PROVE  IInv'
<1>1. /\ o.op = "save" /\ OrphanCovered(o) /\ TypeOK
      /\ file' = [o.snapshot EXCEPT ![o.src] = o.cursor]
      /\ UNCHANGED <<produced, stores, acked, task, faults>>
      /\ orphans' \subseteq orphans
  BY DEF OrphanSaves, IInv
<1>2. o.src \in Sources /\ o.cursor \in Cursors /\ o.snapshot \in Files
  BY <1>1 DEF TypeOK, Writers, Savers, Stores
<1>3. Grows
  BY <1>1 DEF Grows, stores
<1>4. DurableSound'
  BY <1>1, <1>2, <1>3, FileSound DEF OrphanCovered
<1>5. DataTyped' /\ TaskTyped'
  BY <1>1 DEF DataTyped, TaskTyped, TypeOK, task, stores
<1>6. AllSound'
  BY <1>1, <1>3, TaskStays DEF AllSound, task
<1> QED
  BY <1>4, <1>5, <1>6, Parts

LEMMA CrashSound ==
  ASSUME IInv, NEW p \in Procs, Crash(p)
  PROVE  IInv'
<1>1. /\ Grows /\ UNCHANGED file /\ Return(p) /\ Fault
      /\ orphans' \subseteq orphans
  BY DEF Crash, stores, Grows
<1>2. DataTyped'
  BY <1>1, FaultTyped DEF Crash, stores, IInv, TypeOK, DataTyped
<1> QED
  BY <1>1, <1>2, ReturnSound, DurableStays, Parts

LEMMA DeliveriesSound ==
  ASSUME IInv, NEW p \in Procs, DeliverRecords(p) \/ DeliverSourceBatch(p)
  PROVE  IInv'
<1>1. /\ Src(p) \in Sources /\ stream[p].upto \in Cursors
      /\ produced[Src(p)] \in Cursors
  BY DEF IInv, TypeOK, Src, Jobs, Streams
<1>2. CASE DeliverRecords(p)
  <2> DEFINE full == stream[p].upto + BatchSize <= produced[Src(p)]
             hi == IF full THEN stream[p].upto + BatchSize ELSE produced[Src(p)]
  <2>1. Deliver(p, hi, hi, ~full) /\ At(p, "read")
    BY <1>2 DEF DeliverRecords
  <2>2. hi \in Cursors /\ stream[p].upto <= hi
    BY <1>1, <1>2 DEF DeliverRecords, Cursors
  <2> HIDE DEF hi, full
  <2>3. (~full) \in BOOLEAN
    OBVIOUS
  <2>4. hi \in {0, hi}
    OBVIOUS
  <2> QED
    BY <2>1, <2>2, <2>3, <2>4, DeliverSound
<1>3. CASE DeliverSourceBatch(p)
  <2>1. PICK hi \in Positions :
          /\ stream[p].upto < hi
          /\ Deliver(p, hi, hi, FALSE) \/ Deliver(p, hi, 0, FALSE)
    BY <1>3 DEF DeliverSourceBatch
  <2>2. hi \in Cursors /\ stream[p].upto <= hi /\ At(p, "read")
    BY <1>1, <1>3, <2>1 DEF DeliverSourceBatch, Positions, Cursors
  <2> QED
    BY <2>1, <2>2, DeliverSound
<1> QED
  BY <1>2, <1>3

-----------------------------------------------------------------------------
(* The theorems                                                            *)

LEMMA StepSound ==
  ASSUME IInv, NEW p \in Procs, Step(p)
  PROVE  IInv'
<1>1. CASE LexicalStage(p)
  BY <1>1, StageSound DEF LexicalStage, Stores
<1>2. CASE SemanticStage(p)
  BY <1>2, StageSound DEF SemanticStage, Stores
<1> QED
  BY <1>1, <1>2, DeliveriesSound, HandSound, FinishSound, SettleSound,
     IngestBatchSound, SaveReadSound, SaveWriteSound DEF Step

LEMMA InitSound == Init => IInv
<1> SUFFICES ASSUME Init PROVE IInv
  OBVIOUS
<1>1. /\ EmptyFile \in Files /\ NoProgress \in Progresses /\ NoStream \in Streams
      /\ NoHand \in Hands /\ NoSaving \in Savings /\ 0 \in Cursors
  BY DEF EmptyFile, Files, NoProgress, Progresses, NoStream, Streams, NoHand,
         Hands, NoSaving, Savings, Cursors
<1>2. NoJob \in Jobs
  BY DEF NoJob, Jobs, Entries
<1>3. TypeOK
  BY <1>1, <1>2 DEF Init, TypeOK, EmptyFile, PCs
<1>4. CheckpointCovered /\ \A o \in orphans : OrphanCovered(o)
  BY CoveredAtStart DEF Init, EmptyFile, CheckpointCovered
<1>5. ASSUME NEW p \in Procs PROVE TaskSound(p)
  <2>1. /\ pc[p] = "idle" /\ progress[p] = NoProgress /\ stream[p] = NoStream
        /\ hand[p] = NoHand /\ saving[p] = NoSaving
    BY DEF Init
  <2>2. Src(p) \in Sources
    BY <1>2 DEF Init, Src, Jobs
  <2>3. CursorsCovered(p)
    BY <2>1, <2>2, CoveredAtStart DEF CursorsCovered, NoProgress, NoSaving, EmptyFile, At
  <2>4. StreamCovered(p) /\ Shaped(p)
    BY <2>1 DEF StreamCovered, Shaped, NoStream, NoHand, Records, Positions, Batch, At
  <2> QED
    BY <2>3, <2>4 DEF TaskSound
<1> QED
  BY <1>3, <1>4, <1>5 DEF IInv

\* The inductive invariant holds in every reachable state.
THEOREM SoundAlways == Spec => []IInv
<1>1. Init => IInv
  BY InitSound
<1>2. IInv /\ [Next]_vars => IInv'
  <2> SUFFICES ASSUME IInv, [Next]_vars PROVE IInv'
    OBVIOUS
  <2>1. CASE UNCHANGED vars
    <3>1. Grows /\ UNCHANGED <<produced, index, written, file, acked, pc, job,
                               progress, stream, hand, saving, orphans, faults>>
      BY <2>1 DEF vars, stores, task, Grows
    <3>2. DataTyped' /\ TaskTyped'
      BY <3>1 DEF DataTyped, TaskTyped, IInv, TypeOK
    <3>3. AllSound'
      BY <3>1, TaskStays DEF AllSound
    <3> QED
      BY <3>1, <3>2, <3>3, DurableStays, Parts
  <2>2. CASE \E s \in Sources : Produce(s)
    BY <2>2, ProduceSound
  <2>3. CASE \E p \in Procs : Starts(p) \/ Step(p) \/ Cancel(p) \/ Crash(p)
    BY <2>3, StartSound, StepSound, CancelSound, CrashSound DEF Starts
  <2>4. CASE \E o \in orphans : OrphanWrites(o) \/ OrphanSaves(o)
    BY <2>4, OrphanWritesSound, OrphanSavesSound
  <2> QED
    BY <2>1, <2>2, <2>3, <2>4 DEF Next
<1> QED
  BY <1>1, <1>2, PTL DEF Spec

\* The state of an ingestion stays well formed whatever fails or overlaps.
THEOREM TypeCorrect == Spec => []TypeOK
<1>1. IInv => TypeOK
  BY DEF IInv
<1> QED
  BY <1>1, SoundAlways, PTL

\* The durable cursor of JsonCheckpointStore never passes a record that one
\* of the stores lacks: run_source and iter_ingest_source save it only after
\* both stores took the batch, and no merge of an old file or late thread
\* moves it beyond what was written.
THEOREM CheckpointAlwaysCovered == Spec => []CheckpointCovered
<1>1. IInv => CheckpointCovered
  BY DEF IInv
<1> QED
  BY <1>1, SoundAlways, PTL

-----------------------------------------------------------------------------
(* One task that is not cancelled                                          *)

\* With two tasks, or a thread that outlives its cancelled call, what follows
\* fails: one saves over what the other saved, or writes an old version late.
Alone == ~Cancels /\ \A p, q \in Procs : p = q

\* Store t holds the record at position x of s, or a later version.
Fresh(t, s, x) == index[t][s][KeyOf[s][x]] >= x

FreshTo(s, c) == \A t \in Stores : \A x \in Records(s, 0, c) : Fresh(t, s, x)

Saving(p) == At(p, "save_read") \/ At(p, "save_write")

\* The batch that store t has not taken yet.
PendingIn(t, p) == IF \/ At(p, "lexical") \/ At(p, "ingest")
                      \/ At(p, "semantic") /\ t = "semantic"
                   THEN Batch(p) ELSE {}

\* The task's checkpoint is the durable one, and what it is given comes after.
Resumed(p) ==
  /\ progress[p].current = file[Src(p)]
  /\ progress[p].current <= stream[p].upto
  /\ \A x \in Batch(p) \cup stream[p].todo : progress[p].current < x

\* Records are taken in log order.
InLogOrder(p) ==
  \A x \in Records(Src(p), 0, stream[p].upto) \ stream[p].todo :
    /\ \A y \in stream[p].todo : x < y
    /\ x \notin Batch(p) => \A y \in Batch(p) : x < y

\* Unless a batch has failed, the stores are fresh up to what is still to be
\* taken.
StreamFresh(p) ==
  \/ progress[p].blocked
  \/ \A t \in Stores :
       \A x \in Records(Src(p), 0, stream[p].upto) \ (stream[p].todo \cup PendingIn(t, p)) :
         Fresh(t, Src(p), x)

\* A cursor about to be saved goes forward, over fresh records, into the file
\* as it is.
SaveFresh(p) ==
  /\ stream[p].todo = {}
  /\ progress[p].current <= saving[p].cursor
  /\ saving[p].cursor <= stream[p].upto
  /\ FreshTo(Src(p), saving[p].cursor)
  /\ At(p, "save_write") => saving[p].snapshot = file

TaskFresh(p) ==
  /\ Resumed(p) /\ InLogOrder(p) /\ StreamFresh(p)
  /\ Saving(p) => SaveFresh(p)
  /\ pc[p] \in {"read", "hand"} => Batch(p) = {}

Lone ==
  /\ Alone
  /\ orphans = {}
  /\ \A s \in Sources : FreshTo(s, file[s])
  /\ ReceiptDurable
  /\ \A p \in Procs : ~At(p, "idle") => TaskFresh(p)

\* A set of positions that is not empty has a last one.
LEMMA LatestExists ==
  ASSUME NEW S \in SUBSET Positions, S # {}
  PROVE  \E x \in S : Latest(S) = {x} /\ \A y \in S : y <= x
<1> DEFINE B == {u \in Nat : \A y \in S : y <= u}
<1>1. MaxLog \in B
  BY DEF Positions
<1>2. \E u \in B : \A v \in B : <<v, u>> \notin OpToRel(<, Nat)
  <2>1. IsWellFoundedOn(OpToRel(<, Nat), Nat)
    BY NatLessThanWellFounded
  <2>2. B \subseteq Nat /\ B # {}
    BY <1>1
  <2> HIDE DEF B
  <2> QED
    BY <2>1, <2>2, WFMin
<1>3. ASSUME NEW v \in Nat, NEW u \in Nat, <<v, u>> \notin OpToRel(<, Nat)
      PROVE  ~(v < u)
  BY <1>3, Zenon DEF OpToRel
<1>4. PICK u \in B : \A v \in B : ~(v < u)
  BY <1>2, <1>3
<1>5. u \in S
  <2>1. SUFFICES ASSUME u \notin S PROVE FALSE
    OBVIOUS
  <2>2. u # 0
    <3>1. PICK y \in S : TRUE
      OBVIOUS
    <3> QED
      BY <3>1 DEF Positions
  <2>3. u - 1 \in B
    BY <2>1, <2>2 DEF Positions
  <2> QED
    BY <1>4, <2>3
<1>6. \A y \in S : y \in Nat /\ y <= u
  BY DEF Positions
<1>7. u \in Latest(S)
  BY <1>5, <1>6 DEF Latest
<1>8. ASSUME NEW y \in Latest(S) PROVE y = u
  <2>1. y \in S /\ u <= y
    BY <1>5 DEF Latest
  <2>2. y <= u /\ y \in Nat /\ u \in Nat
    BY <1>5, <1>6, <2>1
  <2> QED
    BY <2>1, <2>2
<1>9. Latest(S) = {u}
  BY <1>7, <1>8
<1> QED
  BY <1>5, <1>6, <1>9

\* A store that takes W in log order has its positions or later ones, and
\* loses none before them.
LEMMA UpsertFresh ==
  ASSUME NEW versions \in [Keys -> Cursors], NEW s \in Sources,
         NEW W \in SUBSET Positions, NEW x \in Positions, KeyOf[s][x] \in Keys,
         x \in W \/ (versions[KeyOf[s][x]] >= x /\ \A y \in W : x < y)
  PROVE  Upsert(versions, s, W)[KeyOf[s][x]] >= x
<1> DEFINE k == KeyOf[s][x]
           taken == {y \in W : KeyOf[s][y] = k}
<1>1. Upsert(versions, s, W)[k] =
        IF Latest(taken) = {} THEN versions[k] ELSE CHOOSE y \in Latest(taken) : TRUE
  BY DEF Upsert
<1>2. CASE taken = {}
  <2>1. Latest(taken) = {}
    BY <1>2 DEF Latest
  <2>2. x \notin W
    BY <1>2
  <2> QED
    BY <1>1, <2>1, <2>2
<1>3. CASE taken # {}
  <2>1. PICK last \in taken : Latest(taken) = {last} /\ \A y \in taken : y <= last
    BY <1>3, LatestExists
  <2>2. (CHOOSE y \in Latest(taken) : TRUE) = last
    BY <2>1
  <2>3. last >= x
    <3>1. CASE x \in W
      BY <2>1, <3>1 DEF Positions
    <3>2. CASE x \notin W
      BY <2>1, <3>2 DEF Positions
    <3> QED
      BY <3>1, <3>2
  <2> HIDE DEF taken
  <2> QED
    BY <1>1, <2>1, <2>2, <2>3
<1> QED
  BY <1>2, <1>3

\* The same of a write to both stores.
LEMMA WriteFresh ==
  ASSUME TypeOK, NEW s \in Sources, NEW W \in [Stores -> SUBSET Positions],
         WriteAll(s, W), NEW t \in Stores, NEW r \in Sources, NEW x \in Positions,
         KeyOf[r][x] # NoKey,
         \/ s = r /\ x \in W[t]
         \/ Fresh(t, r, x) /\ (s = r => \A y \in W[t] : x < y)
  PROVE  Fresh(t, r, x)'
<1>1. KeyOf[r][x] \in Keys
  OBVIOUS
<1>2. PICK versions \in [Keys -> Cursors] : versions = index[t][s]
  BY DEF TypeOK
<1>3. index'[t] = [index[t] EXCEPT ![s] = Upsert(index[t][s], s, W[t])]
  BY DEF WriteAll
<1>4. CASE s = r
  <2>1. index'[t][r] = Upsert(versions, s, W[t])
    BY <1>2, <1>3, <1>4 DEF TypeOK
  <2>2. W[t] \in SUBSET Positions
    OBVIOUS
  <2>3. x \in W[t] \/ (versions[KeyOf[s][x]] >= x /\ \A y \in W[t] : x < y)
    BY <1>2, <1>4 DEF Fresh
  <2>4. Upsert(versions, s, W[t])[KeyOf[s][x]] >= x
    BY <1>1, <1>4, <2>2, <2>3, UpsertFresh
  <2> QED
    BY <1>4, <2>1, <2>4 DEF Fresh
<1>5. CASE s # r
  BY <1>3, <1>5 DEF TypeOK, Fresh
<1> QED
  BY <1>4, <1>5

\* The parts of a task's state.
LEMMA TaskParts ==
  ASSUME TypeOK, NEW p \in Procs
  PROVE  /\ Src(p) \in Sources
         /\ progress[p] \in Progresses
         /\ progress[p].current \in Cursors /\ progress[p].blocked \in BOOLEAN
         /\ stream[p].upto \in Cursors /\ stream[p].todo \subseteq Positions
         /\ stream[p].ends \in Cursors
         /\ Batch(p) \subseteq Positions /\ hand[p].terminal \in Cursors
         /\ saving[p].cursor \in Cursors /\ saving[p].snapshot \in Files
         /\ file[Src(p)] \in Cursors
  BY DEF TypeOK, Src, Batch, Jobs, Progresses, Streams, Hands, Savings

\* What a record of a source is.
LEMMA RecordParts ==
  ASSUME NEW s \in Sources, NEW c, NEW x \in Records(s, 0, c)
  PROVE  x \in Positions /\ x <= c /\ KeyOf[s][x] # NoKey
  BY DEF Records

\* Writing some of the batch in hand keeps what is before the checkpoint fresh.
LEMMA DurableFresh ==
  ASSUME IInv, Lone, NEW p \in Procs, ~At(p, "idle"), UNCHANGED file,
         NEW W \in [Stores -> SUBSET Positions], \A t \in Stores : W[t] \subseteq Batch(p),
         WriteAll(Src(p), W)
  PROVE  \A s \in Sources : FreshTo(s, file[s])'
<1> SUFFICES ASSUME NEW s \in Sources, NEW t \in Stores, NEW x \in Records(s, 0, file[s])
             PROVE  Fresh(t, s, x)'
  BY DEF FreshTo
<1>1. x \in Positions /\ x <= file[s] /\ KeyOf[s][x] # NoKey
  BY RecordParts
<1>2. Fresh(t, s, x)
  BY DEF Lone, FreshTo
<1>3. TypeOK
  BY DEF IInv
<1>4. Src(p) \in Sources /\ Batch(p) \subseteq Positions /\ file[Src(p)] \in Cursors
  BY <1>3, TaskParts
<1>5. ASSUME Src(p) = s, NEW y \in W[t] PROVE x < y
  <2>1. file[s] < y
    BY <1>5 DEF Lone, TaskFresh, Resumed
  <2>2. x \in Nat /\ y \in Nat /\ file[s] \in Nat
    BY <1>1, <1>4, <1>5 DEF Positions, Cursors
  <2> QED
    BY <1>1, <2>1, <2>2
<1> QED
  BY <1>1, <1>2, <1>3, <1>4, <1>5, WriteFresh

\* So does what each store has already taken of the stream.
LEMMA TakenFresh ==
  ASSUME IInv, NEW p \in Procs, TaskFresh(p), NEW s \in Sources, s = Src(p),
         NEW W \in [Stores -> SUBSET Positions], \A t \in Stores : W[t] \subseteq Batch(p),
         WriteAll(s, W), ~progress[p].blocked,
         NEW t \in Stores,
         NEW x \in Records(s, 0, stream[p].upto) \ stream[p].todo,
         x \in W[t] \/ x \notin Batch(p)
  PROVE  Fresh(t, s, x)'
<1>1. x \in Positions /\ KeyOf[s][x] # NoKey
  BY RecordParts, TaskParts DEF IInv
<1>2. TypeOK
  BY DEF IInv
<1>3. CASE x \in W[t]
  BY <1>1, <1>2, <1>3, WriteFresh
<1>4. CASE x \notin W[t]
  <2>1. x \notin Batch(p) /\ \A y \in W[t] : x < y
    BY <1>4 DEF TaskFresh, InLogOrder
  <2>2. Fresh(t, s, x)
    BY <2>1 DEF TaskFresh, StreamFresh, PendingIn
  <2> QED
    BY <1>1, <1>2, <2>1, <2>2, WriteFresh
<1> QED
  BY <1>3, <1>4

\* Going on keeps a task fresh when its checkpoint is the durable one, and the
\* stores are fresh up to what is still to be handed out.
LEMMA ContinueFresh ==
  ASSUME IInv, NEW p \in Procs, NEW s \in Sources, s = Src(p), InLogOrder(p),
         NEW current \in Cursors, NEW blocked \in BOOLEAN,
         ContinueWith(p, current, blocked),
         file'[s] = current, current <= stream[p].upto,
         \A x \in stream[p].todo : current < x,
         blocked \/ \A t \in Stores :
                      \A x \in Records(s, 0, stream[p].upto) \ stream[p].todo :
                        Fresh(t, s, x)'
  PROVE  TaskFresh(p)'
<1>1. /\ pc'[p] = IF stream[p].todo = {} THEN "read" ELSE "hand"
      /\ job'[p] = job[p]
      /\ progress'[p] = [current |-> current, blocked |-> blocked]
      /\ stream'[p] = stream[p] /\ hand'[p] = NoHand
  BY DEF ContinueWith, Goto, IInv, TypeOK
<1>2. Src(p)' = Src(p) /\ Batch(p)' = {}
  BY <1>1 DEF Src, Batch, NoHand
<1>3. Resumed(p)'
  BY <1>1, <1>2 DEF Resumed
<1>4. InLogOrder(p)'
  BY <1>1, <1>2 DEF InLogOrder
<1>5. \A t \in Stores : PendingIn(t, p)' = {}
  BY <1>2 DEF PendingIn
<1>6. progress'[p].blocked = blocked
  BY <1>1
<1>7. CASE blocked
  BY <1>1, <1>3, <1>4, <1>6, <1>7, <1>2 DEF TaskFresh, StreamFresh, Saving, At
<1>8. CASE ~blocked
  <2>1. StreamFresh(p)'
    BY <1>1, <1>2, <1>5, <1>8 DEF StreamFresh
  <2> QED
    BY <1>1, <1>2, <1>3, <1>4, <2>1 DEF TaskFresh, Saving, At
<1> QED
  BY <1>7, <1>8

\* Beginning to save keeps a task fresh when the cursor goes forward over
\* fresh records.
LEMMA SaveBeginsFresh ==
  ASSUME IInv, NEW p \in Procs, NEW s \in Sources, s = Src(p),
         Resumed(p), InLogOrder(p), UNCHANGED file,
         NEW cursor \in Cursors, NEW blocked \in BOOLEAN,
         BeginSave(p, cursor, blocked),
         stream[p].todo = {}, progress[p].current <= cursor, cursor <= stream[p].upto,
         \A t \in Stores : \A x \in Records(s, 0, cursor) : Fresh(t, s, x)',
         blocked \/ \A t \in Stores : \A x \in Records(s, 0, stream[p].upto) :
                      Fresh(t, s, x)'
  PROVE  TaskFresh(p)'
<1>1. /\ pc'[p] = "save_read" /\ job'[p] = job[p]
      /\ progress'[p] = [current |-> progress[p].current, blocked |-> blocked]
      /\ stream'[p] = stream[p] /\ hand'[p] = hand[p]
      /\ saving'[p] = [cursor |-> cursor, snapshot |-> EmptyFile]
  BY DEF BeginSave, Goto, IInv, TypeOK
<1>2. /\ Src(p)' = Src(p) /\ Batch(p)' = Batch(p)
      /\ progress'[p].current = progress[p].current /\ saving'[p].cursor = cursor
  BY <1>1 DEF Src, Batch
<1>3. Resumed(p)'
  BY <1>1, <1>2 DEF Resumed
<1>4. InLogOrder(p)'
  BY <1>1, <1>2 DEF InLogOrder
<1>5. progress'[p].blocked = blocked
  BY <1>1
<1>6. FreshTo(Src(p), saving[p].cursor)'
  BY <1>2 DEF FreshTo
<1>7. SaveFresh(p)'
  BY <1>1, <1>2, <1>6 DEF SaveFresh, At
<1>8. StreamFresh(p)'
  <2>1. CASE blocked
    BY <1>5, <2>1 DEF StreamFresh
  <2>2. CASE ~blocked
    BY <1>1, <1>2, <2>2 DEF StreamFresh
  <2> QED
    BY <2>1, <2>2
<1> QED
  BY <1>1, <1>3, <1>4, <1>7, <1>8 DEF TaskFresh, At

-----------------------------------------------------------------------------
(* One lemma per action of the lone task                                   *)

\* What every action has to establish.
LEMMA LoneParts ==
  ASSUME Lone, orphans' = {}, ReceiptDurable',
         \A s \in Sources : FreshTo(s, file[s])',
         NEW p \in Procs, ~At(p, "idle")' => TaskFresh(p)'
  PROVE  Lone'
  BY DEF Lone, Alone

\* Steps that leave the stores, the file and the task alone.
LEMMA LoneStays ==
  ASSUME Lone, UNCHANGED <<index, file, acked, task, orphans>>
  PROVE  Lone'
<1>1. \A s \in Sources : FreshTo(s, file[s])'
  BY DEF Lone, FreshTo, Fresh
<1>2. ReceiptDurable'
  BY SMTT(40) DEF Lone, ReceiptDurable
<1>3. ASSUME NEW p \in Procs, ~At(p, "idle")' PROVE TaskFresh(p)'
  <2>1. TaskFresh(p)
    BY <1>3 DEF Lone, At, task
  <2> QED
    BY <2>1 DEF task, TaskFresh, Resumed, InLogOrder, StreamFresh, PendingIn, Saving,
                SaveFresh, FreshTo, Fresh, At, Src, Batch
<1> QED
  BY <1>1, <1>2, <1>3 DEF Lone, Alone

\* A call that ends.
LEMMA ReturnFresh ==
  ASSUME IInv, Lone, NEW p \in Procs, Return(p), orphans' = {}, ReceiptDurable',
         \A s \in Sources : FreshTo(s, file[s])'
  PROVE  Lone'
<1>1. At(p, "idle")'
  BY DEF Return, Goto, At, IInv, TypeOK
<1> QED
  BY <1>1, LoneParts

\* Records stay fresh when no store is written.
LEMMA FreshStays ==
  ASSUME Lone, UNCHANGED <<index, file>>
  PROVE  \A s \in Sources : FreshTo(s, file[s])'
  BY DEF Lone, FreshTo, Fresh

\* A call resumes from the durable cursor.
LEMMA StartFresh ==
  ASSUME IInv, Lone, NEW p \in Procs,
         NEW s \in Sources, NEW e \in Entries, NEW m \in Modes, Start(p, s, e, m)
  PROVE  Lone'
<1>1. /\ pc'[p] = "read" /\ job'[p].src = s
      /\ progress'[p] = [current |-> file[s], blocked |-> FALSE]
      /\ stream'[p] = [upto |-> file[s], todo |-> {}, ends |-> 0, ended |-> FALSE]
      /\ UNCHANGED <<index, file, acked, hand, orphans>>
  BY DEF Start, Goto, IInv, TypeOK, stores
<1>2. Src(p)' = s /\ Batch(p)' = {}
  BY <1>1 DEF Src, Batch, Start, IInv, TaskSound, Shaped
<1>3. /\ progress'[p].current = file[s]
      /\ stream'[p].upto = file[s] /\ stream'[p].todo = {}
      /\ file[s] \in Nat
  BY <1>1 DEF IInv, TypeOK, Cursors
<1>4. Resumed(p)'
  BY <1>1, <1>2, <1>3 DEF Resumed
<1>5. InLogOrder(p)'
  BY <1>2, <1>3 DEF InLogOrder
<1>6. StreamFresh(p)'
  <2>1. \A t \in Stores : \A x \in Records(s, 0, file[s]) : Fresh(t, s, x)
    BY DEF Lone, FreshTo
  <2>2. \A t \in Stores : \A x \in Records(s, 0, file[s]) : Fresh(t, s, x)'
    BY <1>1, <2>1 DEF Fresh
  <2> QED
    BY <1>2, <1>3, <2>2 DEF StreamFresh
<1>7. TaskFresh(p)'
  BY <1>1, <1>2, <1>4, <1>5, <1>6 DEF TaskFresh, Saving, At
<1> QED
  BY <1>1, <1>7, FreshStays, LoneParts DEF Lone, ReceiptDurable

\* What the stream delivers comes after what it delivered before.
LEMMA DeliverFresh ==
  ASSUME IInv, Lone, NEW p \in Procs, NEW hi \in Cursors, NEW ends, NEW ended,
         At(p, "read"), stream[p].upto < hi, Deliver(p, hi, ends, ended)
  PROVE  Lone'
<1> PICK s \in Sources : s = Src(p)
  BY TaskParts DEF IInv
<1> PICK upto \in Cursors : upto = stream[p].upto
  BY TaskParts DEF IInv
<1>1. /\ pc'[p] = "hand"
      /\ stream'[p] = [upto |-> hi, todo |-> Records(s, upto, hi),
                       ends |-> ends, ended |-> ended]
      /\ UNCHANGED <<index, file, acked, job, progress, hand, orphans>>
  BY DEF Deliver, Goto, IInv, TypeOK, stores
<1>2. /\ Src(p)' = s /\ Batch(p)' = Batch(p)
      /\ stream'[p].upto = hi /\ stream'[p].todo = Records(s, upto, hi)
  BY <1>1 DEF Src, Batch
<1>3. TaskFresh(p) /\ Batch(p) = {} /\ stream[p].todo = {}
  BY DEF Lone, At, TaskFresh, IInv, TaskSound, Shaped
<1>4. upto \in Nat /\ hi \in Nat /\ progress[p].current \in Nat
  BY TaskParts DEF IInv, Cursors
<1>5. Records(s, 0, hi) \ Records(s, upto, hi) = Records(s, 0, upto)
  BY <1>4 DEF Records, Positions
<1>6. Resumed(p)'
  <2>1. progress[p].current = file[s] /\ progress[p].current <= upto
    BY <1>3 DEF TaskFresh, Resumed
  <2>2. \A x \in Records(s, upto, hi) : progress[p].current < x
    BY <1>4, <2>1 DEF Records, Positions
  <2>3. progress[p].current <= hi
    BY <1>4, <2>1
  <2> QED
    BY <1>1, <1>2, <1>3, <2>1, <2>2, <2>3 DEF Resumed
<1>7. InLogOrder(p)'
  <2>1. \A x \in Records(s, 0, upto) : \A y \in Records(s, upto, hi) : x < y
    BY <1>4 DEF Records, Positions
  <2> QED
    BY <1>2, <1>3, <1>5, <2>1 DEF InLogOrder
<1>8. StreamFresh(p)'
  <2>1. CASE progress[p].blocked
    BY <1>1, <2>1 DEF StreamFresh
  <2>2. CASE ~progress[p].blocked
    <3>1. \A t \in Stores : \A x \in Records(s, 0, upto) : Fresh(t, s, x)
      BY <1>3, <2>2 DEF TaskFresh, StreamFresh, PendingIn
    <3>2. \A t \in Stores : \A x \in Records(s, 0, upto) : Fresh(t, s, x)'
      BY <1>1, <3>1 DEF Fresh
    <3> QED
      BY <1>2, <1>5, <3>2 DEF StreamFresh
  <2> QED
    BY <2>1, <2>2
<1>9. TaskFresh(p)'
  BY <1>1, <1>2, <1>3, <1>6, <1>7, <1>8 DEF TaskFresh, Saving, At
<1> QED
  BY <1>1, <1>9, FreshStays, LoneParts DEF Lone, ReceiptDurable

\* What is cut off a source batch comes before the rest of it.
LEMMA FirstIsDown ==
  ASSUME NEW S \in SUBSET Positions, NEW n \in Nat, NEW x \in First(S, n),
         NEW y \in S \ First(S, n)
  PROVE  x < y
<1>1. x \in Nat /\ y \in Nat /\ x \in S
  BY DEF First, Positions
<1> SUFFICES ASSUME y <= x PROVE FALSE
  BY <1>1
<1> DEFINE X == {z \in S : z <= x}
           Y == {z \in S : z <= y}
<1>2. IsFiniteSet(S)
  <2>1. 1 \in Int /\ MaxLog \in Int
    OBVIOUS
  <2>2. IsFiniteSet(1..MaxLog)
    BY <2>1, FS_Interval
  <2> QED
    BY <2>2, FS_Subset DEF Positions
<1>3. Y \subseteq X /\ X \subseteq S
  <2>1. ASSUME NEW z \in S, z <= y PROVE z <= x
    <3>1. z \in Nat
      BY DEF Positions
    <3> QED
      BY <1>1, <2>1, <3>1
  <2> QED
    BY <2>1
<1>4. /\ IsFiniteSet(X) /\ IsFiniteSet(Y)
      /\ Cardinality(Y) <= Cardinality(X)
      /\ Cardinality(X) \in Nat /\ Cardinality(Y) \in Nat
  <2> HIDE DEF X, Y
  <2>1. IsFiniteSet(X)
    BY <1>2, <1>3, FS_Subset
  <2> QED
    BY <1>3, <2>1, FS_Subset, FS_CardinalityType
<1>5. Cardinality(X) <= n /\ ~(Cardinality(Y) <= n)
  BY DEF First
<1> QED
  BY <1>4, <1>5

\* A part of the delivered records is taken from the front.
LEMMA HandFresh ==
  ASSUME IInv, Lone, NEW p \in Procs, Hand(p)
  PROVE  Lone'
<1> PICK s \in Sources : s = Src(p)
  BY TaskParts DEF IInv
<1> PICK todo \in SUBSET Positions : todo = stream[p].todo
  BY TaskParts DEF IInv
<1> PICK part : part = Part(p)
  OBVIOUS
<1>1. PICK terminal : TakeBatch(p, part, terminal)
  BY DEF Hand
<1>2. /\ pc'[p] = IF part = {} THEN "settle"
                  ELSE IF job[p].entry = "kernel" THEN "ingest" ELSE "lexical"
      /\ hand'[p] = [batch |-> part, terminal |-> terminal]
      /\ stream'[p] = [upto |-> stream[p].upto, todo |-> todo \ part,
                       ends |-> stream[p].ends, ended |-> stream[p].ended]
      /\ UNCHANGED <<index, file, acked, job, progress, orphans>>
  BY <1>1 DEF TakeBatch, Goto, IInv, TypeOK, stores
<1>3. /\ Src(p)' = s /\ Batch(p)' = part
      /\ stream'[p].upto = stream[p].upto /\ stream'[p].todo = todo \ part
  BY <1>2 DEF Src, Batch
<1>4. At(p, "hand") /\ TaskFresh(p) /\ Batch(p) = {}
  BY DEF Lone, At, TaskFresh, Hand
<1>5. /\ part \subseteq todo
      /\ \A x \in part, y \in todo \ part : x < y
  <2>1. CASE job[p].entry = "kernel"
    BY <2>1 DEF Part
  <2>2. CASE job[p].entry # "kernel"
    <3>1. part = First(todo, BatchSize)
      BY <2>2 DEF Part
    <3>2. First(todo, BatchSize) \subseteq todo
      BY DEF First
    <3> QED
      BY <3>1, <3>2, FirstIsDown
  <2> QED
    BY <2>1, <2>2
<1>6. Resumed(p)'
  BY <1>2, <1>3, <1>4, <1>5 DEF TaskFresh, Resumed
<1>7. InLogOrder(p)'
  <2>1. \A x \in Records(s, 0, stream[p].upto) \ todo : \A y \in todo : x < y
    BY <1>4 DEF TaskFresh, InLogOrder
  <2>2. ASSUME NEW x \in Records(s, 0, stream[p].upto) \ (todo \ part)
        PROVE  /\ \A y \in todo \ part : x < y
               /\ x \notin part => \A y \in part : x < y
    BY <1>5, <2>1, <2>2
  <2> QED
    BY <1>3, <2>2 DEF InLogOrder
<1>8. StreamFresh(p)'
  <2>1. CASE progress[p].blocked
    BY <1>2, <2>1 DEF StreamFresh
  <2>2. CASE ~progress[p].blocked
    <3>1. \A t \in Stores : \A x \in Records(s, 0, stream[p].upto) \ todo : Fresh(t, s, x)
      BY <1>4, <2>2 DEF TaskFresh, StreamFresh, PendingIn
    <3>2. \A t \in Stores : \A x \in Records(s, 0, stream[p].upto) \ todo : Fresh(t, s, x)'
      BY <1>2, <3>1 DEF Fresh
    <3>3. ASSUME NEW t \in Stores PROVE PendingIn(t, p)' = part
      BY <1>2, <1>3, <3>3 DEF PendingIn, At, Stores
    <3> QED
      BY <1>3, <3>2, <3>3 DEF StreamFresh
  <2> QED
    BY <2>1, <2>2
<1>9. TaskFresh(p)'
  BY <1>2, <1>6, <1>7, <1>8 DEF TaskFresh, Saving, At
<1> QED
  BY <1>2, <1>9, FreshStays, LoneParts DEF Lone, ReceiptDurable

\* The checkpoint that is acknowledged is the durable one.
LEMMA FinishFresh ==
  ASSUME IInv, Lone, NEW p \in Procs, Finish(p)
  PROVE  Lone'
<1>1. /\ acked' = [acked EXCEPT ![Src(p)] = progress[p].current]
      /\ UNCHANGED <<index, file, orphans>> /\ Return(p) /\ ~At(p, "idle")
  BY DEF Finish, stores, At
<1>2. progress[p].current = file[Src(p)] /\ file[Src(p)] \in Nat
  BY <1>1, TaskParts DEF Lone, TaskFresh, Resumed, IInv, Cursors
<1>3. ReceiptDurable'
  BY <1>1, <1>2 DEF Lone, ReceiptDurable, IInv, TypeOK
<1> QED
  BY <1>1, <1>3, FreshStays, ReturnFresh DEF Lone

\* Nothing survives a crash but the stores and the file.
LEMMA CrashFresh ==
  ASSUME IInv, Lone, NEW p \in Procs, Crash(p)
  PROVE  Lone'
<1>1. UNCHANGED <<index, file, acked>> /\ orphans' = {} /\ Return(p)
  BY DEF Crash, stores, Lone
<1> QED
  BY <1>1, FreshStays, ReturnFresh DEF Lone, ReceiptDurable

\* Both ways a stream delivers.
LEMMA DeliveriesFresh ==
  ASSUME IInv, Lone, NEW p \in Procs, DeliverRecords(p) \/ DeliverSourceBatch(p)
  PROVE  Lone'
<1>1. /\ stream[p].upto \in Cursors /\ Src(p) \in Sources
      /\ produced[Src(p)] \in Cursors
  BY TaskParts DEF IInv, TypeOK
<1>2. CASE DeliverRecords(p)
  <2> DEFINE full == stream[p].upto + BatchSize <= produced[Src(p)]
             hi == IF full THEN stream[p].upto + BatchSize ELSE produced[Src(p)]
  <2>1. Deliver(p, hi, hi, ~full) /\ At(p, "read")
    BY <1>2 DEF DeliverRecords
  <2>2. hi \in Cursors /\ stream[p].upto < hi
    BY <1>1, <1>2 DEF DeliverRecords, Cursors
  <2> HIDE DEF hi, full
  <2> QED
    BY <2>1, <2>2, DeliverFresh
<1>3. CASE DeliverSourceBatch(p)
  <2>1. PICK hi \in Positions :
          /\ stream[p].upto < hi
          /\ Deliver(p, hi, hi, FALSE) \/ Deliver(p, hi, 0, FALSE)
    BY <1>3 DEF DeliverSourceBatch
  <2>2. hi \in Cursors /\ At(p, "read")
    BY <1>3 DEF DeliverSourceBatch, Positions, Cursors
  <2> QED
    BY <2>1, <2>2, DeliverFresh
<1> QED
  BY <1>2, <1>3

\* A stage that took the whole batch.
LEMMA StageDoneFresh ==
  ASSUME IInv, Lone, NEW p \in Procs, NEW store \in Stores, At(p, store),
         NEW next \in {"semantic", "settle"},
         store = "lexical" => next = "semantic",
         store = "semantic" => next = "settle",
         Write(store, Src(p), Batch(p)), Goto(p, next),
         UNCHANGED <<file, acked, job, progress, stream, hand, saving, orphans>>
  PROVE  Lone'
<1> PICK s \in Sources : s = Src(p)
  BY TaskParts DEF IInv
<1> PICK B \in SUBSET Positions : B = Batch(p)
  BY TaskParts DEF IInv
<1> PICK W \in [Stores -> SUBSET Positions] :
      W = [t \in Stores |-> IF t = store THEN B ELSE {}]
  OBVIOUS
<1>1. WriteAll(s, W) /\ \A t \in Stores : W[t] \subseteq Batch(p)
  BY DEF Write
<1>2. ~At(p, "idle") /\ TaskFresh(p)
  BY DEF Lone, At, Stores
<1>3. \A r \in Sources : FreshTo(r, file[r])'
  BY <1>1, <1>2, DurableFresh
<1>4. pc'[p] = next /\ Src(p)' = s /\ Batch(p)' = B
  BY DEF Goto, IInv, TypeOK, Src, Batch
<1>5. Resumed(p)' /\ InLogOrder(p)'
  BY <1>2, <1>4 DEF TaskFresh, Resumed, InLogOrder
<1>6. CASE progress[p].blocked
  <2>1. StreamFresh(p)'
    BY <1>6 DEF StreamFresh
  <2> QED
    BY <1>3, <1>4, <1>5, <2>1, LoneParts DEF TaskFresh, Saving, At, Lone, ReceiptDurable
<1>7. CASE ~progress[p].blocked
  <2>1. ASSUME NEW t \in Stores,
               NEW x \in Records(s, 0, stream[p].upto) \ stream[p].todo,
               x \notin PendingIn(t, p)'
        PROVE  Fresh(t, s, x)'
    <3>1. CASE x \in W[t] \/ x \notin B
      BY <1>1, <1>2, <1>7, <2>1, <3>1, TakenFresh
    <3>2. CASE x \in B /\ x \notin W[t]
      <4>1. t = "lexical" /\ store = "semantic"
        BY <1>4, <2>1, <3>2 DEF PendingIn, At, Stores
      <4>2. x \notin PendingIn(t, p)
        BY <4>1 DEF PendingIn, At
      <4>3. Fresh(t, s, x)
        BY <1>2, <1>7, <2>1, <4>2 DEF TaskFresh, StreamFresh
      <4>4. x \in Positions /\ KeyOf[s][x] # NoKey /\ W[t] = {}
        BY <2>1, <4>1, RecordParts
      <4> QED
        BY <1>1, <4>3, <4>4, WriteFresh DEF IInv
    <3> QED
      BY <3>1, <3>2
  <2>2. StreamFresh(p)'
    BY <1>4, <2>1 DEF StreamFresh
  <2> QED
    BY <1>3, <1>4, <1>5, <2>2, LoneParts DEF TaskFresh, Saving, At, Lone, ReceiptDurable
<1> QED
  BY <1>6, <1>7

\* A stage that failed after some of the batch.
LEMMA StageFailedFresh ==
  ASSUME IInv, Lone, NEW p \in Procs, NEW store \in Stores, ~At(p, "idle"),
         NEW part \in SUBSET Batch(p), Write(store, Src(p), part), FailBatch(p),
         UNCHANGED <<file, acked, orphans>>
  PROVE  Lone'
<1> PICK s \in Sources : s = Src(p)
  BY TaskParts DEF IInv
<1> PICK current \in Cursors : current = progress[p].current
  BY TaskParts DEF IInv
<1>1. Batch(p) \subseteq Positions
  BY TaskParts DEF IInv
<1> PICK W \in [Stores -> SUBSET Positions] :
      W = [t \in Stores |-> IF t = store THEN part ELSE {}]
  BY <1>1
<1>2. WriteAll(s, W) /\ \A t \in Stores : W[t] \subseteq Batch(p)
  BY DEF Write
<1>3. \A r \in Sources : FreshTo(r, file[r])'
  BY <1>2, DurableFresh
<1>4. orphans' = {} /\ ReceiptDurable'
  BY DEF Lone, ReceiptDurable
<1>5. CASE job[p].mode = "strict"
  BY <1>3, <1>4, <1>5, ReturnFresh DEF FailBatch
<1>6. CASE job[p].mode # "strict"
  <2>1. ContinueWith(p, current, TRUE)
    BY <1>6 DEF FailBatch
  <2>2. Resumed(p) /\ InLogOrder(p)
    BY DEF Lone, TaskFresh
  <2>3. /\ file'[s] = current /\ current <= stream[p].upto
        /\ \A x \in stream[p].todo : current < x
    BY <2>2 DEF Resumed
  <2>4. TaskFresh(p)'
    BY <2>1, <2>2, <2>3, ContinueFresh
  <2> QED
    BY <1>3, <1>4, <2>4, LoneParts
<1> QED
  BY <1>5, <1>6

\* A stage, whether it ends well or fails.
LEMMA StageFresh ==
  ASSUME IInv, Lone, NEW p \in Procs, LexicalStage(p) \/ SemanticStage(p)
  PROVE  Lone'
<1>1. ASSUME NEW store \in Stores, NEW next \in {"semantic", "settle"},
             At(p, store), store = "lexical" => next = "semantic",
             store = "semantic" => next = "settle", Stage(p, store, next)
      PROVE  Lone'
  <2>1. ~At(p, "idle")
    BY <1>1 DEF At, Stores
  <2> QED
    BY <1>1, <2>1, StageDoneFresh, StageFailedFresh DEF Stage
<1> QED
  BY <1>1 DEF LexicalStage, SemanticStage, Stores

\* The checkpoint is saved only when the stream is all taken.
LEMMA SettleFresh ==
  ASSUME IInv, Lone, NEW p \in Procs, Settle(p)
  PROVE  Lone'
<1> PICK s \in Sources : s = Src(p)
  BY TaskParts DEF IInv
<1> PICK current \in Cursors : current = progress[p].current
  BY TaskParts DEF IInv
<1> PICK blocked \in BOOLEAN : blocked = progress[p].blocked
  BY TaskParts DEF IInv
<1> PICK upto \in Cursors : upto = stream[p].upto
  BY TaskParts DEF IInv
<1>1. At(p, "settle") /\ UNCHANGED <<index, file, acked, orphans>>
  BY DEF Settle, stores
<1>2. TaskFresh(p) /\ TaskSound(p)
  BY <1>1 DEF Lone, At, IInv
<1>3. blocked \/ \A t \in Stores : \A x \in Records(s, 0, upto) \ stream[p].todo :
                   Fresh(t, s, x)'
  BY <1>1, <1>2 DEF TaskFresh, StreamFresh, PendingIn, At, Fresh
<1>4. Resumed(p) /\ InLogOrder(p)
  BY <1>2 DEF TaskFresh
<1>5. TaskFresh(p)'
  <2>1. CASE Advances(p)
    <3>1. BeginSave(p, upto, FALSE) /\ stream[p].todo = {} /\ ~blocked
      BY <1>2, <2>1 DEF Settle, Advances, TaskSound, Shaped
    <3>2. progress[p].current <= upto /\ upto <= stream[p].upto
      BY <1>4 DEF Resumed, Cursors
    <3>3. \A t \in Stores : \A x \in Records(s, 0, upto) : Fresh(t, s, x)'
      BY <1>3, <3>1
    <3>4. FALSE \in BOOLEAN /\ UNCHANGED file
      BY <1>1
    <3> QED
      BY <1>4, <3>1, <3>2, <3>3, <3>4, SaveBeginsFresh
  <2>2. CASE ~Advances(p)
    <3>1. ContinueWith(p, current, blocked)
      BY <2>2 DEF Settle, Continue
    <3>2. /\ file'[s] = current /\ current <= stream[p].upto
          /\ \A x \in stream[p].todo : current < x
      BY <1>1, <1>4 DEF Resumed
    <3> QED
      BY <1>3, <1>4, <3>1, <3>2, ContinueFresh
  <2> QED
    BY <2>1, <2>2
<1> QED
  BY <1>1, <1>5, FreshStays, LoneParts DEF Lone, ReceiptDurable

\* The cursor chosen after a batch goes forward, over records that both stores
\* have taken.
LEMMA CandidateFresh ==
  ASSUME IInv, Lone, NEW p \in Procs, At(p, "ingest"), NEW s \in Sources, s = Src(p),
         NEW ok \in SUBSET Batch(p), NEW c \in Candidates(p, ok), UNCHANGED file,
         NEW W \in [Stores -> SUBSET Positions],
         \A t \in Stores : ok \subseteq W[t] /\ W[t] \subseteq Batch(p), WriteAll(s, W)
  PROVE  /\ c \in Cursors /\ progress[p].current <= c /\ c <= stream[p].upto
         /\ \A t \in Stores : \A x \in Records(s, 0, c) : Fresh(t, s, x)'
         /\ \/ progress[p].blocked \/ ok # Batch(p)
            \/ \A t \in Stores : \A x \in Records(s, 0, stream[p].upto) : Fresh(t, s, x)'
<1>1. TaskFresh(p) /\ TaskSound(p) /\ stream[p].todo = {} /\ ~At(p, "idle")
  BY DEF Lone, At, IInv, TaskSound, Shaped
<1>2. /\ progress[p].current \in Cursors /\ stream[p].upto \in Cursors
      /\ Batch(p) \subseteq Positions /\ file[s] \in Cursors
  BY TaskParts DEF IInv
<1>3. ASSUME ~progress[p].blocked, NEW t \in Stores,
             NEW x \in Records(s, 0, stream[p].upto), x \in Batch(p) => x \in ok
      PROVE  Fresh(t, s, x)'
  BY <1>1, <1>3, TakenFresh
<1>4. progress[p].current = file[s] /\ progress[p].current <= stream[p].upto
  BY <1>1 DEF TaskFresh, Resumed
<1>5. CASE c = progress[p].current
  <2>1. \A r \in Sources : FreshTo(r, file[r])'
    BY <1>1, DurableFresh
  <2>2. \A t \in Stores : \A x \in Records(s, 0, c) : Fresh(t, s, x)'
    BY <1>4, <1>5, <2>1 DEF FreshTo
  <2>3. progress[p].current <= c
    BY <1>2, <1>5 DEF Cursors
  <2> QED
    BY <1>2, <1>3, <1>4, <1>5, <2>2, <2>3
<1>6. CASE ~progress[p].blocked /\ ok = Batch(p) /\ hand[p].terminal # 0
           /\ c = hand[p].terminal
  <2>1. c = stream[p].upto
    BY <1>1, <1>6 DEF TaskSound, Shaped
  <2>2. c <= stream[p].upto
    BY <1>2, <2>1 DEF Cursors
  <2> QED
    BY <1>2, <1>3, <1>4, <1>6, <2>1, <2>2
<1>7. CASE ~progress[p].blocked /\ c \in Prefix(p, ok)
  <2>1. /\ c \in Batch(p) /\ c <= stream[p].upto /\ progress[p].current < c
        /\ \A y \in Batch(p) : y <= c => y \in ok
    BY <1>1, <1>7 DEF Prefix, TaskSound, Shaped, TaskFresh, Resumed
  <2>2. c \in Positions
    BY <1>2, <2>1
  <2>3. c \in Cursors /\ progress[p].current <= c
    BY <1>2, <2>1, <2>2 DEF Positions, Cursors
  <2>4. ASSUME NEW t \in Stores, NEW x \in Records(s, 0, c) PROVE Fresh(t, s, x)'
    <3>1. x \in Records(s, 0, stream[p].upto) /\ x <= c
      BY <1>2, <2>1, <2>2 DEF Records, Positions, Cursors
    <3> QED
      BY <1>3, <1>7, <2>1, <3>1
  <2> QED
    BY <1>3, <2>1, <2>3, <2>4
<1>8. \A x \in Latest(Prefix(p, ok)) : x \in Prefix(p, ok)
  BY DEF Latest
<1> QED
  BY <1>5, <1>6, <1>7, <1>8 DEF Candidates, SafeBatchCheckpoint, LastOf

\* The kernel's batch, whatever part of it failed in which store.
LEMMA IngestBatchFresh ==
  ASSUME IInv, Lone, NEW p \in Procs, IngestBatch(p)
  PROVE  Lone'
<1> PICK s \in Sources : s = Src(p)
  BY TaskParts DEF IInv
<1> PICK B \in SUBSET Positions : B = Batch(p)
  BY TaskParts DEF IInv
<1>1. PICK L \in SUBSET B, S \in SUBSET B :
        /\ WriteAll(s, [t \in Stores |-> IF t = "lexical" THEN L ELSE S])
        /\ Conclude(p, L \cap S)
  BY DEF IngestBatch
<1> PICK ok \in SUBSET B : ok = L \cap S
  OBVIOUS
<1> PICK W \in [Stores -> SUBSET Positions] :
      W = [t \in Stores |-> IF t = "lexical" THEN L ELSE S]
  OBVIOUS
<1>2. /\ At(p, "ingest") /\ ~At(p, "idle") /\ UNCHANGED <<file, acked, orphans>>
      /\ WriteAll(s, W) /\ Conclude(p, ok)
      /\ \A t \in Stores : ok \subseteq W[t] /\ W[t] \subseteq B
  BY <1>1 DEF IngestBatch, At
<1>3. \A r \in Sources : FreshTo(r, file[r])'
  BY <1>2, DurableFresh
<1>4. orphans' = {} /\ ReceiptDurable'
  BY <1>2 DEF Lone, ReceiptDurable
<1>5. CASE ok # B /\ job[p].mode = "strict"
  <2>1. Return(p)
    BY <1>2, <1>5 DEF Conclude
  <2> QED
    BY <1>3, <1>4, <2>1, ReturnFresh
<1>6. CASE ~(ok # B /\ job[p].mode = "strict")
  <2> PICK blocked \in BOOLEAN : blocked = (progress[p].blocked \/ ok # B)
    OBVIOUS
  <2>1. PICK c \in Candidates(p, ok) :
          IF c # progress[p].current THEN BeginSave(p, c, blocked)
          ELSE ContinueWith(p, c, blocked)
    BY <1>2, <1>6 DEF Conclude
  <2>2. /\ c \in Cursors /\ progress[p].current <= c /\ c <= stream[p].upto
        /\ \A t \in Stores : \A x \in Records(s, 0, c) : Fresh(t, s, x)'
        /\ blocked \/ \A t \in Stores : \A x \in Records(s, 0, stream[p].upto) :
                         Fresh(t, s, x)'
    <3>1. ok \in SUBSET Batch(p) /\ UNCHANGED file /\ At(p, "ingest") /\ WriteAll(s, W)
          /\ \A t \in Stores : ok \subseteq W[t] /\ W[t] \subseteq Batch(p)
      BY <1>2
    <3>2. /\ c \in Cursors /\ progress[p].current <= c /\ c <= stream[p].upto
          /\ \A t \in Stores : \A x \in Records(s, 0, c) : Fresh(t, s, x)'
          /\ \/ progress[p].blocked \/ ok # Batch(p)
             \/ \A t \in Stores : \A x \in Records(s, 0, stream[p].upto) :
                  Fresh(t, s, x)'
      BY <2>1, <3>1, CandidateFresh, ZenonT(150)
    <3>3. progress[p].blocked \/ ok # Batch(p) => blocked
      OBVIOUS
    <3> QED
      BY <3>2, <3>3, Zenon
  <2>3. Resumed(p) /\ InLogOrder(p) /\ stream[p].todo = {}
    BY <1>2 DEF Lone, TaskFresh, IInv, TaskSound, Shaped, At
  <2>4. CASE c # progress[p].current
    <3>1. BeginSave(p, c, blocked)
      BY <2>1, <2>4
    <3>2. TaskFresh(p)'
      BY <1>2, <2>2, <2>3, <3>1, SaveBeginsFresh
    <3> QED
      BY <1>3, <1>4, <3>2, LoneParts
  <2>5. CASE c = progress[p].current
    <3>1. ContinueWith(p, c, blocked)
      BY <2>1, <2>5
    <3>2. file'[s] = c
      BY <1>2, <2>3, <2>5 DEF Resumed
    <3>3. TaskFresh(p)'
      BY <2>2, <2>3, <3>1, <3>2, ContinueFresh
    <3> QED
      BY <1>3, <1>4, <3>3, LoneParts
  <2> QED
    BY <2>4, <2>5
<1> QED
  BY <1>5, <1>6

\* Nobody changes the file after it is read.
LEMMA SaveReadFresh ==
  ASSUME IInv, Lone, NEW p \in Procs, SaveRead(p)
  PROVE  Lone'
<1>1. /\ pc'[p] = "save_write"
      /\ saving'[p] = [cursor |-> saving[p].cursor, snapshot |-> file]
      /\ UNCHANGED <<index, file, acked, job, progress, stream, hand, orphans>>
  BY DEF SaveRead, Goto, IInv, TypeOK, stores
<1>2. Src(p)' = Src(p) /\ Batch(p)' = Batch(p) /\ TaskFresh(p) /\ At(p, "save_read")
  BY <1>1 DEF Src, Batch, Lone, SaveRead, At
<1>3. Resumed(p)' /\ InLogOrder(p)'
  BY <1>1, <1>2 DEF TaskFresh, Resumed, InLogOrder
<1>4. StreamFresh(p)'
  BY <1>1, <1>2 DEF TaskFresh, StreamFresh, PendingIn, Fresh, At
<1>5. SaveFresh(p)'
  BY <1>1, <1>2 DEF TaskFresh, Saving, SaveFresh, FreshTo, Fresh, At
<1>6. TaskFresh(p)'
  BY <1>1, <1>3, <1>4, <1>5 DEF TaskFresh, At
<1> QED
  BY <1>1, <1>6, FreshStays, LoneParts DEF Lone, ReceiptDurable

\* The file that is replaced is the one that was read.
LEMMA SaveWriteFresh ==
  ASSUME IInv, Lone, NEW p \in Procs, SaveWrite(p)
  PROVE  Lone'
<1> PICK s \in Sources : s = Src(p)
  BY TaskParts DEF IInv
<1> PICK cursor \in Cursors : cursor = saving[p].cursor
  BY TaskParts DEF IInv
<1> PICK blocked \in BOOLEAN : blocked = progress[p].blocked
  BY TaskParts DEF IInv
<1>1. At(p, "save_write") /\ TaskFresh(p) /\ UNCHANGED <<index, acked, orphans>>
  BY DEF SaveWrite, stores, Lone, At
<1>2. SaveFresh(p) /\ Resumed(p) /\ InLogOrder(p)
  BY <1>1 DEF TaskFresh, Saving
<1>3. file' = [file EXCEPT ![s] = cursor] /\ ContinueWith(p, cursor, blocked)
  BY <1>1, <1>2 DEF SaveWrite, SaveFresh
<1>4. file'[s] = cursor /\ \A r \in Sources : r # s => file'[r] = file[r]
  BY <1>3 DEF IInv, TypeOK
<1>5. \A r \in Sources : FreshTo(r, file[r])'
  BY <1>1, <1>2, <1>4 DEF SaveFresh, Lone, FreshTo, Fresh
<1>6. ReceiptDurable'
  <2>1. file[s] <= cursor
    BY <1>2 DEF SaveFresh, Resumed
  <2>2. \A r \in Sources : file[r] \in Nat /\ acked[r] \in Nat /\ acked[r] <= file[r]
    BY DEF Lone, ReceiptDurable, IInv, TypeOK, Cursors
  <2> QED
    BY <1>1, <1>4, <2>1, <2>2 DEF ReceiptDurable, Cursors
<1>7. blocked \/ \A t \in Stores : \A x \in Records(s, 0, stream[p].upto) \ stream[p].todo :
                   Fresh(t, s, x)'
  BY <1>1 DEF TaskFresh, StreamFresh, PendingIn, At, Fresh
<1>8. cursor <= stream[p].upto /\ \A x \in stream[p].todo : cursor < x
  BY <1>2 DEF SaveFresh
<1>9. TaskFresh(p)'
  BY <1>2, <1>3, <1>4, <1>7, <1>8, ContinueFresh
<1> QED
  BY <1>1, <1>5, <1>6, <1>9, LoneParts DEF Lone

-----------------------------------------------------------------------------
(* The theorems about the lone task                                        *)

\* Before anything has run.
LEMMA LoneStart == Alone /\ Init => Lone
<1> SUFFICES ASSUME Alone, Init PROVE Lone
  OBVIOUS
<1>1. \A s \in Sources : FreshTo(s, file[s])
  BY DEF Init, EmptyFile, FreshTo, Records, Positions
<1>2. ReceiptDurable
  BY DEF Init, EmptyFile, ReceiptDurable
<1> QED
  BY <1>1, <1>2 DEF Init, Lone, At

\* Every step of the system.
LEMMA LoneNext ==
  ASSUME IInv, Lone, [Next]_vars
  PROVE  Lone'
<1>1. CASE UNCHANGED vars
  BY <1>1, LoneStays DEF vars, stores
<1>2. CASE \E s \in Sources : Produce(s)
  BY <1>2, LoneStays DEF Produce, stores
<1>3. ASSUME NEW p \in Procs, Starts(p) \/ Step(p) \/ Cancel(p) \/ Crash(p)
      PROVE  Lone'
  <2>1. CASE Starts(p)
    BY <2>1, StartFresh DEF Starts
  <2>2. CASE Step(p)
    BY <2>2, DeliveriesFresh, HandFresh, FinishFresh, StageFresh, SettleFresh,
       IngestBatchFresh, SaveReadFresh, SaveWriteFresh DEF Step
  <2>3. CASE Cancel(p)
    BY <2>3 DEF Cancel, Lone, Alone
  <2>4. CASE Crash(p)
    BY <2>4, CrashFresh
  <2> QED
    BY <1>3, <2>1, <2>2, <2>3, <2>4
<1>4. orphans = {}
  BY DEF Lone
<1> QED
  BY <1>1, <1>2, <1>3, <1>4 DEF Next

\* While one task that nobody cancels ingests, in any mode and through any
\* failures and crashes, all that Lone says holds.
THEOREM LoneAlways == Alone => (Spec => []Lone)
<1> SUFFICES ASSUME Alone PROVE Spec => []Lone
  OBVIOUS
<1>1. Init => Lone
  BY LoneStart
<1>2. IInv /\ Lone /\ [Next]_vars => Lone'
  BY LoneNext
<1> QED
  BY <1>1, <1>2, SoundAlways, PTL DEF Spec

\* The receipt of run_source and of the kernel's ingestion is authoritative
\* for such a task: the checkpoint it reported never goes back in the file.
THEOREM ReceiptAlwaysDurable == Alone => (Spec => []ReceiptDurable)
<1> SUFFICES ASSUME Alone PROVE Spec => []ReceiptDurable
  OBVIOUS
<1>1. Lone => ReceiptDurable
  BY DEF Lone
<1> QED
  BY <1>1, LoneAlways, PTL

\* Nor do the retries and replays of such a task ever leave a store with a
\* version older than the last one behind the durable cursor.
THEOREM IndexAlwaysCurrent == Alone => (Spec => []IndexCurrent)
<1> SUFFICES ASSUME Alone PROVE Spec => []IndexCurrent
  OBVIOUS
<1>1. Lone => IndexCurrent
  BY DEF Lone, FreshTo, Fresh, IndexCurrent
<1> QED
  BY <1>1, LoneAlways, PTL
=============================================================================
