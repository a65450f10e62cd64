--------------------------- MODULE ReindexProofs ---------------------------
(***************************************************************************)
(* Proofs about Reindex for every set of processes, migrations and         *)
(* namespaces, every corpus size and any number of faults; and about what  *)
(* becomes of the corpus while it is migrated, for any number of           *)
(* migrations, each with one operator and namespaces of its own.           *)
(***************************************************************************)
EXTENDS Reindex, FiniteSetTheorems, TLAPS

USE NamespaceAssumption, BoundAssumption

-----------------------------------------------------------------------------
(* Lemmas about the data                                                   *)

\* The absent state, the idle record and the state with no model are typed.
LEMMA DefaultsTyped ==
  Absent \in States /\ NoActive \in ActiveModels /\ Idle \in Works
  BY DEF Absent, States, NoActive, ActiveModels, Idle, Works, Steps

\* What load_or_create returns is a state.
LEMMA LoadedTyped ==
  ASSUME TypeOK, NEW m \in Migrations, Loadable(m)
  PROVE  Loaded(m) \in States /\ Loaded(m).source \in Namespaces
<1>1. CASE saved[m].phase # "absent"
  BY <1>1 DEF TypeOK, Loaded, Loadable
<1>2. CASE saved[m].phase = "absent"
  <2> DEFINE src == IF SourceArg[m] # NoModel THEN SourceArg[m] ELSE active.ns
  <2>1. Loaded(m) = [phase |-> "init", source |-> src, checkpoint |-> 0,
                     validated |-> FALSE, backup |-> FALSE,
                     resume |-> "none"]
    BY <1>2 DEF Loaded, Absent
  <2>2. src \in Namespaces
    BY <2>1 DEF Loadable
  <2> QED
    BY <2>1, <2>2 DEF States, RunPhases
<1> QED
  BY <1>1, <1>2

\* Changing the phase or recording a failure leaves a state a state, about
\* the same source.
LEMMA PhaseTyped ==
  ASSUME NEW st \in States, NEW ph \in RunPhases
  PROVE  /\ InPhase(st, ph) \in States /\ InPhase(st, ph).source = st.source
         /\ Failed(st, ph) \in States /\ Failed(st, ph).source = st.source
  BY DEF InPhase, Failed, States, RunPhases

\* So do the other updates the operations make.
LEMMA ValidatedTyped ==
  ASSUME NEW st \in States, NEW b \in BOOLEAN
  PROVE  /\ [st EXCEPT !.validated = b] \in States
         /\ [st EXCEPT !.validated = b].source = st.source
         /\ [st EXCEPT !.backup = b] \in States
         /\ [st EXCEPT !.backup = b].source = st.source
  BY DEF States

LEMMA AdvanceTyped ==
  ASSUME NEW st \in States, st.checkpoint < NumBatches
  PROVE  Advanced(st) \in States /\ Advanced(st).source = st.source
<1> DEFINE moved == [st EXCEPT !.checkpoint = @ + 1]
<1>1. st.checkpoint + 1 \in 0..NumBatches
  BY DEF States
<1>2. moved \in States /\ moved.source = st.source
  BY <1>1 DEF States
<1>3. Advanced(st) = InPhase(moved, "backfill")
  BY DEF Advanced
<1> HIDE DEF moved
<1> QED
  BY <1>2, <1>3, PhaseTyped DEF RunPhases

-----------------------------------------------------------------------------
(* The inductive invariant                                                 *)

\* A durable state that exists names a source other than its target.
SavedSound(m) ==
  saved[m].phase # "absent" =>
    /\ saved[m].source \in Namespaces
    /\ saved[m].source # TargetOf[m]

\* A call in progress works on a migration with a proper source, runs its
\* transition under the lock, and has established who serves queries before
\* it reaches a deletion: only a foreign program can change that behind it.
CallSound(p) ==
  work[p].pc # "idle" =>
    /\ work[p].mig \in Migrations
    /\ Source(p) \in Namespaces
    /\ Source(p) # Target(p)
    /\ work[p].pc \in {"batch_attempt", "batch_upsert"}
         => work[p].draft.checkpoint < NumBatches
    /\ work[p].pc \in LockedSteps => lock = p
    /\ work[p].pc \in {"contract_pending", "contract_backup",
                       "contract_record", "contract_check"}
         => work[p].seen.ns = Target(p)
    /\ work[p].pc = "contract_delete" => active.ns \in {Target(p)} \cup Foreign
    /\ work[p].pc = "rollback_check" => work[p].seen.ns = Source(p)
    /\ work[p].pc = "rollback_delete" => active.ns \in {Source(p)} \cup Foreign

IInv ==
  /\ TypeOK
  /\ \A m \in Migrations : SavedSound(m)
  /\ \A p \in Procs : CallSound(p)

\* The other processes' calls are where they were.
OthersKept(p) ==
  /\ work' \in [Procs -> Works]
  /\ \A q \in Procs \ {p} : work'[q] = work[q]

\* The new durable states are typed and sound.
SavedKept ==
  /\ saved' \in [Migrations -> States]
  /\ \A m \in Migrations : SavedSound(m)'

\* A step of p keeps the invariant when it keeps the types and p's own call
\* sound, takes or releases the lock only for p, and changes the active
\* model only under the lock.
LEMMA StepKeeps ==
  ASSUME IInv, NEW p \in Procs, OthersKept(p), SavedKept,
         active' \in ActiveModels, ensured' \subseteq Namespaces,
         vectors' \in [Namespaces -> SUBSET Batches],
         backups' \in [Namespaces -> SUBSET Batches],
         faults' \in Nat,
         lock' = lock \/ (lock = Free /\ lock' = p) \/ (lock = p /\ lock' = Free),
         active' = active \/ lock = p,
         CallSound(p)'
  PROVE  IInv'
<1>1. TypeOK'
  BY DEF IInv, TypeOK, OthersKept, SavedKept
<1>2. ASSUME NEW q \in Procs, q # p PROVE CallSound(q)'
  <2>1. work'[q] = work[q] /\ CallSound(q)
    BY <1>2 DEF OthersKept, IInv
  <2>2. work[q].pc \in LockedSteps => lock' = lock /\ active' = active
    BY <1>2, <2>1 DEF CallSound, LockedSteps
  <2> QED
    BY <2>1, <2>2 DEF CallSound, Source, Target, LockedSteps
<1> QED
  BY <1>1, <1>2 DEF IInv, SavedKept

\* What the moves of a call do to work.
LEMMA MoveFacts ==
  ASSUME IInv, NEW p \in Procs, NEW step \in Steps, NEW st \in States
  PROVE  /\ GotoWith(p, step, st) =>
              /\ OthersKept(p)
              /\ work'[p] = [pc |-> step, mig |-> work[p].mig, draft |-> st,
                             seen |-> work[p].seen, restore |-> work[p].restore]
         /\ Goto(p, step) =>
              /\ OthersKept(p)
              /\ work'[p] = [pc |-> step, mig |-> work[p].mig,
                             draft |-> work[p].draft,
                             seen |-> work[p].seen, restore |-> work[p].restore]
         /\ Return(p) => OthersKept(p) /\ work'[p] = Idle
<1>1. work[p] \in Works /\ work \in [Procs -> Works]
  BY DEF IInv, TypeOK
<1>2. ASSUME GotoWith(p, step, st)
      PROVE  /\ OthersKept(p)
             /\ work'[p] = [pc |-> step, mig |-> work[p].mig, draft |-> st,
                            seen |-> work[p].seen, restore |-> work[p].restore]
  BY <1>1, <1>2 DEF GotoWith, OthersKept, Works
<1>3. ASSUME Goto(p, step)
      PROVE  /\ OthersKept(p)
             /\ work'[p] = [pc |-> step, mig |-> work[p].mig,
                            draft |-> work[p].draft,
                            seen |-> work[p].seen, restore |-> work[p].restore]
  BY <1>1, <1>3 DEF Goto, OthersKept, Works
<1>4. ASSUME Return(p) PROVE OthersKept(p) /\ work'[p] = Idle
  BY <1>1, <1>4, DefaultsTyped DEF Return, OthersKept
<1> QED
  BY <1>2, <1>3, <1>4

\* A process that has returned is sound whatever the rest of the state is.
LEMMA IdleSound ==
  ASSUME NEW p \in Procs, work'[p] = Idle
  PROVE  CallSound(p)'
  BY DEF CallSound, Idle

LEMMA SavedUnchanged ==
  ASSUME IInv, UNCHANGED saved
  PROVE  SavedKept
  BY DEF IInv, TypeOK, SavedKept, SavedSound

\* _save of a state about a proper source keeps the durable states sound.
LEMMA SaveKeeps ==
  ASSUME IInv, NEW p \in Procs, work[p].pc # "idle", Save(p, work[p].draft)
  PROVE  SavedKept
<1>1. work[p] \in Works /\ work[p].draft \in States
  BY DEF IInv, TypeOK, Works
<1>2. /\ work[p].mig \in Migrations
      /\ work[p].draft.source \in Namespaces
      /\ work[p].draft.source # TargetOf[work[p].mig]
  BY DEF IInv, CallSound, Source, Target
<1>3. saved' \in [Migrations -> States]
  BY <1>1, <1>2 DEF Save, IInv, TypeOK
<1>4. ASSUME NEW m \in Migrations PROVE SavedSound(m)'
  <2>1. CASE m = work[p].mig
    BY <1>2, <2>1 DEF Save, SavedSound, IInv, TypeOK
  <2>2. CASE m # work[p].mig
    BY <2>2 DEF Save, SavedSound, IInv, TypeOK
  <2> QED
    BY <2>1, <2>2
<1> QED
  BY <1>3, <1>4 DEF SavedKept

\* Starting a call keeps the invariant when the step it starts with needs
\* nothing but a proper source, the lock for a transition, and the target
\* as the model it has read for contract.
LEMMA CallKeeps ==
  ASSUME IInv, NEW p \in Procs, NEW m \in Migrations, Loadable(m),
         NEW step \in Steps \ {"idle", "batch_attempt", "batch_upsert",
                               "contract_delete", "rollback_check",
                               "rollback_delete"},
         NEW st \in States, st.source = Loaded(m).source,
         NEW a \in ActiveModels, NEW r \in BOOLEAN,
         Enter(p, Call(step, m, st, a, r)),
         step \in LockedSteps => lock' = p,
         step \in {"contract_pending", "contract_backup", "contract_record",
                   "contract_check"} => a.ns = TargetOf[m],
         lock' = lock \/ (lock = Free /\ lock' = p),
         UNCHANGED <<saved, active, ensured, vectors, backups, faults>>
  PROVE  IInv'
<1>1. Call(step, m, st, a, r) \in Works
  BY DEF Call, Works
<1>2. OthersKept(p) /\ work'[p] = Call(step, m, st, a, r)
  BY <1>1 DEF Enter, OthersKept, IInv, TypeOK
<1>3. st.source \in Namespaces /\ st.source # TargetOf[m]
  BY DEF Loadable
<1>4. CallSound(p)'
  BY <1>2, <1>3 DEF CallSound, Source, Target, Call, Steps
<1> QED
  BY <1>2, <1>4, SavedUnchanged, StepKeeps DEF IInv, TypeOK

\* Every call starts in a sound state.
LEMMA BeginKeeps ==
  ASSUME IInv, NEW p \in Procs, NEW m \in Migrations, Begin(p, m)
  PROVE  IInv'
<1> DEFINE st == Loaded(m)
<1>1. Loadable(m)
  BY DEF Begin, BeginExpand, BeginBackfill, BeginValidate, BeginFlip,
         BeginContract, BeginRollback, BeginRetry, Starts, StartsTransition
<1>2. st \in States /\ NoActive \in ActiveModels /\ active \in ActiveModels
  BY <1>1, LoadedTyped, DefaultsTyped DEF IInv, TypeOK
<1>3. \A ph \in RunPhases : InPhase(st, ph) \in States
                            /\ InPhase(st, ph).source = st.source
  BY <1>2, PhaseTyped
<1> HIDE DEF st
<1>4. CASE BeginExpand(p, m)
  BY <1>1, <1>2, <1>4, CallKeeps
     DEF BeginExpand, Steps, UnlockedSteps, LockedSteps, st
<1>5. CASE BeginBackfill(p, m)
  BY <1>1, <1>2, <1>3, <1>5, CallKeeps
     DEF BeginBackfill, Steps, UnlockedSteps, LockedSteps, RunPhases, st
<1>6. CASE BeginValidate(p, m)
  BY <1>1, <1>2, <1>6, CallKeeps
     DEF BeginValidate, Steps, UnlockedSteps, LockedSteps, st
<1>7. CASE BeginFlip(p, m)
  <2> DEFINE step == IF active.ns = TargetOf[m] THEN "flip_done"
                                                ELSE "flip_pending"
  <2>1. /\ step \in Steps \ {"idle", "batch_attempt", "batch_upsert",
                             "contract_delete", "rollback_check",
                             "rollback_delete"}
        /\ step \notin {"contract_pending", "contract_backup",
                        "contract_record", "contract_check"}
    BY DEF Steps, UnlockedSteps, LockedSteps
  <2>2. Enter(p, Call(step, m, InPhase(st, "flip"), active, FALSE))
    BY <1>7 DEF BeginFlip, st
  <2>3. lock = Free /\ lock' = p
    BY <1>7 DEF BeginFlip, StartsTransition
  <2>4. UNCHANGED <<saved, active, ensured, vectors, backups, faults>>
    BY <1>7 DEF BeginFlip
  <2> HIDE DEF step
  <2> QED
    BY <1>1, <1>2, <1>3, <2>1, <2>2, <2>3, <2>4, CallKeeps DEF RunPhases, st
<1>8. CASE BeginContract(p, m)
  BY <1>1, <1>2, <1>3, <1>8, CallKeeps
     DEF BeginContract, StartsTransition, Steps, LockedSteps, RunPhases, st
<1>9. CASE BeginRollback(p, m)
  <2>1. RestoreRequired(st) \in BOOLEAN
    BY <1>2 DEF RestoreRequired, States
  <2> QED
    BY <1>1, <1>2, <1>3, <1>9, <2>1, CallKeeps
       DEF BeginRollback, StartsTransition, Steps, LockedSteps, RunPhases, st
<1>10. CASE BeginRetry(p, m)
  <2>1. ResumePhase(st) \in RunPhases
    BY <1>2 DEF ResumePhase, States, RunPhases
  <2> QED
    BY <1>1, <1>2, <1>3, <1>10, <2>1, CallKeeps
       DEF BeginRetry, Steps, UnlockedSteps, LockedSteps, st
<1> QED
  BY <1>4, <1>5, <1>6, <1>7, <1>8, <1>9, <1>10 DEF Begin

\* Entering a failing path keeps the invariant.
LEMMA FailKeeps ==
  ASSUME IInv, NEW p \in Procs, work[p].pc # "idle", NEW resume \in RunPhases,
         RaiseInto(p, resume), faults' \in Nat,
         UNCHANGED <<saved, active, ensured, vectors, backups, lock>>
  PROVE  IInv'
<1> DEFINE step == IF lock = p THEN "fail_locked" ELSE "fail"
<1> DEFINE st == Failed(work[p].draft, resume)
<1>1. work[p].draft \in States
  BY DEF IInv, TypeOK, Works
<1>2. st \in States /\ st.source = work[p].draft.source
  BY <1>1, PhaseTyped
<1>3. step \in Steps /\ (step = "fail_locked" => lock = p)
      /\ step \in {"fail", "fail_locked"}
  BY DEF Steps, UnlockedSteps, LockedSteps
<1>4. GotoWith(p, step, st)
  BY DEF RaiseInto
<1> HIDE DEF step, st
<1>5. /\ OthersKept(p)
      /\ work'[p] = [pc |-> step, mig |-> work[p].mig, draft |-> st,
                     seen |-> work[p].seen, restore |-> work[p].restore]
  BY <1>2, <1>3, <1>4, MoveFacts
<1>6. CallSound(p)'
  BY <1>2, <1>3, <1>5 DEF IInv, CallSound, Source, Target, LockedSteps
<1> QED
  BY <1>5, <1>6, SavedUnchanged, StepKeeps DEF IInv, TypeOK

LEMMA RaiseKeeps ==
  ASSUME IInv, NEW p \in Procs, work[p].pc # "idle", NEW resume \in RunPhases,
         StoreRaises(p, resume) \/ Refused(p, resume)
  PROVE  IInv'
  BY FailKeeps DEF StoreRaises, Refused, Fault, IInv, TypeOK

\* Saving the draft and returning, as most calls end.
LEMMA FinishKeeps ==
  ASSUME IInv, NEW p \in Procs, work[p].pc # "idle",
         Save(p, work[p].draft), Return(p), Release(p) \/ UNCHANGED lock,
         UNCHANGED <<active, ensured, vectors, backups, faults>>
  PROVE  IInv'
<1>1. SavedKept
  BY SaveKeeps
<1>2. OthersKept(p) /\ work'[p] = Idle
  BY MoveFacts, DefaultsTyped DEF IInv, TypeOK, Works, Steps
<1> QED
  BY <1>1, <1>2, IdleSound, StepKeeps DEF Release, IInv, TypeOK

\* Going on to another step with the same draft.
LEMMA GotoKeeps ==
  ASSUME IInv, NEW p \in Procs, work[p].pc # "idle",
         NEW step \in Steps \ {"idle", "contract_delete", "rollback_check",
                               "rollback_delete"},
         Goto(p, step), SavedKept,
         step \in {"batch_attempt", "batch_upsert"}
           => work[p].draft.checkpoint < NumBatches,
         step \in LockedSteps => lock = p,
         step \in {"contract_pending", "contract_backup", "contract_record",
                   "contract_check"} => work[p].seen.ns = Target(p),
         active' \in ActiveModels, active' = active \/ lock = p,
         ensured' \subseteq Namespaces,
         vectors' \in [Namespaces -> SUBSET Batches],
         UNCHANGED <<backups, lock, faults>>
  PROVE  IInv'
<1>1. /\ OthersKept(p)
      /\ work'[p] = [pc |-> step, mig |-> work[p].mig, draft |-> work[p].draft,
                     seen |-> work[p].seen, restore |-> work[p].restore]
  BY MoveFacts, DefaultsTyped DEF Steps
<1>2. CallSound(p)'
  BY <1>1 DEF IInv, CallSound, Source, Target
<1> QED
  BY <1>1, <1>2, StepKeeps DEF IInv, TypeOK

\* Going on with a new draft about the same source.
LEMMA DraftKeeps ==
  ASSUME IInv, NEW p \in Procs, work[p].pc # "idle",
         NEW step \in Steps \ {"idle", "contract_delete", "rollback_check",
                               "rollback_delete", "contract_pending",
                               "contract_backup", "contract_check"},
         NEW st \in States, st.source = work[p].draft.source,
         GotoWith(p, step, st), SavedKept,
         step \in {"batch_attempt", "batch_upsert"} => st.checkpoint < NumBatches,
         step \in LockedSteps => lock = p,
         step = "contract_record" => work[p].seen.ns = Target(p),
         ensured' \subseteq Namespaces,
         vectors' \in [Namespaces -> SUBSET Batches],
         backups' \in [Namespaces -> SUBSET Batches],
         UNCHANGED <<active, lock, faults>>
  PROVE  IInv'
<1>1. /\ OthersKept(p)
      /\ work'[p] = [pc |-> step, mig |-> work[p].mig, draft |-> st,
                     seen |-> work[p].seen, restore |-> work[p].restore]
  BY MoveFacts
<1>2. CallSound(p)'
  BY <1>1 DEF IInv, CallSound, Source, Target
<1> QED
  BY <1>1, <1>2, StepKeeps DEF IInv, TypeOK

\* The unlocked operations: expand, backfill, validate, retry.
LEMMA UnlockedStepKeeps ==
  ASSUME IInv, NEW p \in Procs,
         \/ ExpandEnsure(p) \/ ExpandSave(p) \/ BackfillSave(p)
         \/ BatchAttempt(p) \/ BatchUpsert(p) \/ BatchCommit(p)
         \/ ValidateCheck(p) \/ ValidateSave(p) \/ RetrySave(p)
  PROVE  IInv'
<1> DEFINE st == work[p].draft
<1>1. st \in States /\ st.checkpoint \in 0..NumBatches
  BY DEF IInv, TypeOK, Works, States
<1>2. \A ph \in RunPhases : /\ InPhase(st, ph) \in States
                            /\ InPhase(st, ph).source = st.source
                            /\ Failed(st, ph) \in States
                            /\ Failed(st, ph).source = st.source
  BY <1>1, PhaseTyped
<1>3. work[p].pc # "idle"
  BY DEF AtStep, ExpandEnsure, ExpandSave, BackfillSave, BatchAttempt,
         BatchUpsert, BatchCommit, ValidateCheck, ValidateSave, RetrySave
<1>4. Target(p) \in Namespaces
  BY <1>3 DEF IInv, CallSound, Target
<1>5. CASE ExpandEnsure(p)
  <2>1. CASE StoreRaises(p, "expand")
    BY <1>3, <2>1, RaiseKeeps DEF RunPhases
  <2>2. CASE ~StoreRaises(p, "expand")
    <3>1. /\ GotoWith(p, "expand_save", InPhase(st, "expand"))
          /\ ensured' = ensured \cup {Target(p)}
          /\ UNCHANGED <<saved, active, vectors, backups, lock, faults>>
      BY <1>5, <2>2 DEF ExpandEnsure
    <3> QED
      BY <1>2, <1>3, <1>4, <3>1, SavedUnchanged, DraftKeeps
         DEF RunPhases, Steps, UnlockedSteps, LockedSteps, IInv, TypeOK
  <2> QED
    BY <2>1, <2>2
<1>6. CASE ExpandSave(p)
  BY <1>3, <1>6, RaiseKeeps, FinishKeeps DEF ExpandSave, RunPhases
<1>7. CASE BackfillSave(p) \/ BatchCommit(p)
  <2>1. SavedKept
    BY <1>3, <1>7, SaveKeeps DEF BackfillSave, BatchCommit
  <2>2. CASE st.checkpoint < NumBatches
    <3>1. /\ GotoWith(p, "batch_attempt", st)
          /\ UNCHANGED <<active, ensured, vectors, backups, lock, faults>>
      BY <1>7, <2>2 DEF BackfillSave, BatchCommit, NextBatch
    <3> QED
      BY <1>1, <1>3, <2>1, <2>2, <3>1, DraftKeeps
         DEF Steps, UnlockedSteps, LockedSteps, IInv, TypeOK
  <2>3. CASE ~(st.checkpoint < NumBatches)
    BY <1>3, <1>7, <2>3, FinishKeeps DEF BackfillSave, BatchCommit, NextBatch
  <2> QED
    BY <2>2, <2>3
<1>8. CASE BatchAttempt(p)
  <2>1. SavedKept
    BY <1>3, <1>8, SaveKeeps DEF BatchAttempt
  <2>2. st.checkpoint < NumBatches
    BY <1>3, <1>8 DEF BatchAttempt, AtStep, IInv, CallSound
  <2> QED
    BY <1>3, <1>8, <2>1, <2>2, GotoKeeps
       DEF BatchAttempt, Steps, UnlockedSteps, LockedSteps, IInv, TypeOK
<1>9. CASE BatchUpsert(p)
  <2>1. CASE StoreRaises(p, "backfill")
    BY <1>3, <2>1, RaiseKeeps DEF RunPhases
  <2>2. CASE ~StoreRaises(p, "backfill")
    <3> DEFINE next == Advanced(st)
    <3>1. st.checkpoint < NumBatches
      BY <1>3, <1>9 DEF BatchUpsert, AtStep, IInv, CallSound
    <3>2. next \in States /\ next.source = st.source
      BY <1>1, <3>1, AdvanceTyped
    <3>3. st.checkpoint + 1 \in Batches
      BY <1>1, <3>1 DEF Batches
    <3>4. /\ vectors' = [vectors EXCEPT ![Target(p)] = @ \cup {st.checkpoint + 1}]
          /\ GotoWith(p, "batch_commit", next)
          /\ UNCHANGED <<saved, active, ensured, backups, lock, faults>>
      BY <1>9, <2>2 DEF BatchUpsert
    <3>5. vectors' \in [Namespaces -> SUBSET Batches]
      BY <1>4, <3>3, <3>4 DEF IInv, TypeOK
    <3> HIDE DEF next
    <3> QED
      BY <1>3, <3>2, <3>4, <3>5, SavedUnchanged, DraftKeeps
         DEF Steps, UnlockedSteps, LockedSteps, IInv, TypeOK
  <2> QED
    BY <2>1, <2>2
<1>10. CASE ValidateCheck(p)
  <2>1. CASE StoreRaises(p, "validate")
    BY <1>3, <2>1, RaiseKeeps DEF RunPhases
  <2>2. CASE ~StoreRaises(p, "validate")
    <3> DEFINE pass == [InPhase(st, "validate") EXCEPT !.validated = TRUE]
    <3> DEFINE refuse == [Failed(st, "validate") EXCEPT !.validated = FALSE]
    <3>1. /\ pass \in States /\ pass.source = st.source
          /\ refuse \in States /\ refuse.source = st.source
      BY <1>2, ValidatedTyped DEF RunPhases
    <3>2. /\ GotoWith(p, "validate_save", pass)
             \/ GotoWith(p, "validate_save", refuse)
          /\ UNCHANGED <<saved, active, ensured, vectors, backups, lock, faults>>
      BY <1>10, <2>2 DEF ValidateCheck
    <3> HIDE DEF pass, refuse
    <3> QED
      BY <1>3, <3>1, <3>2, SavedUnchanged, DraftKeeps
         DEF Steps, UnlockedSteps, LockedSteps, IInv, TypeOK
  <2> QED
    BY <2>1, <2>2
<1>11. CASE ValidateSave(p)
  BY <1>3, <1>11, RaiseKeeps, FinishKeeps DEF ValidateSave, RunPhases
<1>12. CASE RetrySave(p)
  BY <1>3, <1>12, FinishKeeps DEF RetrySave
<1> QED
  BY <1>5, <1>6, <1>7, <1>8, <1>9, <1>10, <1>11, <1>12

\* flip and contract.
LEMMA ForwardTransitionKeeps ==
  ASSUME IInv, NEW p \in Procs,
         \/ FlipPending(p) \/ FlipSwitch(p) \/ FlipDone(p)
         \/ ContractPending(p) \/ ContractBackup(p) \/ ContractRecord(p)
         \/ ContractCheck(p) \/ ContractDelete(p) \/ ContractDone(p)
  PROVE  IInv'
<1> DEFINE st == work[p].draft
<1>1. work[p].pc # "idle" /\ work[p].pc \in LockedSteps
  BY DEF AtStep, LockedSteps, FlipPending, FlipSwitch, FlipDone,
         ContractPending, ContractBackup, ContractRecord, ContractCheck,
         ContractDelete, ContractDone
<1>2. lock = p /\ Target(p) \in Namespaces /\ Source(p) \in Namespaces
  BY <1>1 DEF IInv, CallSound, Target
<1>3. st \in States
  BY DEF IInv, TypeOK, Works
<1>4. CASE FlipPending(p)
  <2>1. SavedKept
    BY <1>1, <1>4, SaveKeeps DEF FlipPending
  <2> QED
    BY <1>1, <1>2, <1>4, <2>1, GotoKeeps
       DEF FlipPending, Steps, LockedSteps, IInv, TypeOK
<1>5. CASE FlipSwitch(p)
  <2>1. CASE StoreRaises(p, "flip") \/ Refused(p, "flip")
    BY <1>1, <2>1, RaiseKeeps DEF RunPhases
  <2>2. CASE ~(StoreRaises(p, "flip") \/ Refused(p, "flip"))
    <3>1. /\ CompareAndSet(p, Target(p))
          /\ Goto(p, "flip_done")
          /\ UNCHANGED <<saved, ensured, vectors, backups, lock, faults>>
      BY <1>5, <2>2 DEF FlipSwitch
    <3>2. active' \in ActiveModels
      BY <1>2, <3>1 DEF CompareAndSet, Activated, ActiveModels, IInv, TypeOK
    <3> QED
      BY <1>1, <1>2, <3>1, <3>2, SavedUnchanged, GotoKeeps
         DEF Steps, LockedSteps, IInv, TypeOK
  <2> QED
    BY <2>1, <2>2
<1>6. CASE FlipDone(p)
  BY <1>1, <1>6, FinishKeeps DEF FlipDone
<1>7. CASE ContractPending(p)
  <2> DEFINE step == IF st.backup THEN "contract_check" ELSE "contract_backup"
  <2>1. SavedKept
    BY <1>1, <1>7, SaveKeeps DEF ContractPending
  <2>2. /\ step \in {"contract_check", "contract_backup"}
        /\ step \in Steps \ {"idle", "contract_delete", "rollback_check",
                             "rollback_delete"}
    BY DEF Steps, LockedSteps
  <2>3. Goto(p, step) /\ UNCHANGED <<active, ensured, vectors, backups, lock, faults>>
    BY <1>7 DEF ContractPending
  <2>4. work[p].seen.ns = Target(p)
    BY <1>7 DEF ContractPending, AtStep, IInv, CallSound
  <2> HIDE DEF step
  <2> QED
    BY <1>1, <1>2, <2>1, <2>2, <2>3, <2>4, GotoKeeps DEF IInv, TypeOK
<1>8. CASE ContractBackup(p)
  <2>1. CASE StoreRaises(p, "contract")
    BY <1>1, <2>1, RaiseKeeps DEF RunPhases
  <2>2. CASE ~StoreRaises(p, "contract")
    <3> DEFINE next == [st EXCEPT !.backup = TRUE]
    <3>1. next \in States /\ next.source = st.source
      BY <1>3, ValidatedTyped
    <3>2. /\ backups' = [backups EXCEPT ![Source(p)] = vectors[Source(p)]]
          /\ GotoWith(p, "contract_record", next)
          /\ UNCHANGED <<saved, active, ensured, vectors, lock, faults>>
      BY <1>8, <2>2 DEF ContractBackup
    <3>3. backups' \in [Namespaces -> SUBSET Batches]
      BY <1>2, <3>2 DEF IInv, TypeOK
    <3>4. work[p].seen.ns = Target(p)
      BY <1>8 DEF ContractBackup, AtStep, IInv, CallSound
    <3> HIDE DEF next
    <3> QED
      BY <1>1, <1>2, <3>1, <3>2, <3>3, <3>4, SavedUnchanged, DraftKeeps
         DEF Steps, LockedSteps, IInv, TypeOK
  <2> QED
    BY <2>1, <2>2
<1>9. CASE ContractRecord(p)
  <2>1. SavedKept
    BY <1>1, <1>9, SaveKeeps DEF ContractRecord
  <2>2. work[p].seen.ns = Target(p)
    BY <1>9 DEF ContractRecord, AtStep, IInv, CallSound
  <2> QED
    BY <1>1, <1>2, <1>9, <2>1, <2>2, GotoKeeps
       DEF ContractRecord, Steps, LockedSteps, IInv, TypeOK
<1>10. CASE ContractCheck(p)
  <2>1. CASE Refused(p, "contract")
    BY <1>1, <2>1, RaiseKeeps DEF RunPhases
  <2>2. CASE ~Refused(p, "contract")
    <3>1. /\ active = work[p].seen
          /\ Goto(p, "contract_delete")
          /\ UNCHANGED <<saved, active, ensured, vectors, backups, lock, faults>>
      BY <1>10, <2>2 DEF ContractCheck, OwnerCheck
    <3>2. active.ns = Target(p)
      BY <1>10, <3>1 DEF ContractCheck, AtStep, IInv, CallSound
    <3>3. /\ OthersKept(p)
          /\ work'[p] = [pc |-> "contract_delete", mig |-> work[p].mig,
                         draft |-> work[p].draft, seen |-> work[p].seen,
                         restore |-> work[p].restore]
      BY <1>3, <3>1, MoveFacts DEF Steps, LockedSteps
    <3>4. CallSound(p)'
      BY <1>1, <1>2, <3>1, <3>2, <3>3 DEF IInv, CallSound, Source, Target
    <3> QED
      BY <3>1, <3>3, <3>4, SavedUnchanged, StepKeeps DEF IInv, TypeOK
  <2> QED
    BY <2>1, <2>2
<1>11. CASE ContractDelete(p)
  <2>1. CASE StoreRaises(p, "contract")
    BY <1>1, <2>1, RaiseKeeps DEF RunPhases
  <2>2. CASE ~StoreRaises(p, "contract")
    <3> DEFINE next == InPhase(st, "complete")
    <3>1. next \in States /\ next.source = st.source
      BY <1>3, PhaseTyped DEF RunPhases
    <3>2. /\ DeleteNamespace(Source(p))
          /\ GotoWith(p, "contract_done", next)
          /\ UNCHANGED <<saved, active, backups, lock, faults>>
      BY <1>11, <2>2 DEF ContractDelete
    <3>3. ensured' \subseteq Namespaces /\ vectors' \in [Namespaces -> SUBSET Batches]
      BY <3>2 DEF DeleteNamespace, IInv, TypeOK
    <3> HIDE DEF next
    <3> QED
      BY <1>1, <1>2, <3>1, <3>2, <3>3, SavedUnchanged, DraftKeeps
         DEF Steps, LockedSteps, IInv, TypeOK
  <2> QED
    BY <2>1, <2>2
<1>12. CASE ContractDone(p)
  BY <1>1, <1>12, FinishKeeps DEF ContractDone
<1> QED
  BY <1>4, <1>5, <1>6, <1>7, <1>8, <1>9, <1>10, <1>11, <1>12

\* rollback.
LEMMA RollbackKeeps ==
  ASSUME IInv, NEW p \in Procs,
         \/ RollbackPending(p) \/ RollbackRestore(p) \/ RollbackActivate(p)
         \/ RollbackSwitch(p) \/ RollbackCheck(p) \/ RollbackDelete(p)
         \/ RollbackDone(p)
  PROVE  IInv'
<1> DEFINE st == work[p].draft
<1>1. work[p].pc # "idle" /\ work[p].pc \in LockedSteps
  BY DEF AtStep, LockedSteps, RollbackPending, RollbackRestore,
         RollbackActivate, RollbackSwitch, RollbackCheck, RollbackDelete,
         RollbackDone
<1>2. lock = p /\ Target(p) \in Namespaces /\ Source(p) \in Namespaces
  BY <1>1 DEF IInv, CallSound, Target
<1>3. st \in States /\ work[p] \in Works /\ active \in ActiveModels
  BY DEF IInv, TypeOK, Works
<1>4. CASE RollbackPending(p)
  <2> DEFINE step == IF work[p].restore THEN "rollback_restore"
                                        ELSE "rollback_activate"
  <2>1. SavedKept
    BY <1>1, <1>4, SaveKeeps DEF RollbackPending
  <2>2. /\ step \in {"rollback_restore", "rollback_activate"}
        /\ step \in Steps \ {"idle", "contract_delete", "rollback_check",
                             "rollback_delete"}
    BY DEF Steps, LockedSteps
  <2>3. Goto(p, step) /\ UNCHANGED <<active, ensured, vectors, backups, lock, faults>>
    BY <1>4 DEF RollbackPending
  <2> HIDE DEF step
  <2> QED
    BY <1>1, <1>2, <2>1, <2>2, <2>3, GotoKeeps DEF IInv, TypeOK
<1>5. CASE RollbackRestore(p)
  <2>1. CASE StoreRaises(p, "rollback")
    BY <1>1, <2>1, RaiseKeeps DEF RunPhases
  <2>2. CASE ~StoreRaises(p, "rollback")
    <3>1. /\ vectors' = [vectors EXCEPT ![Source(p)] = @ \cup backups[Source(p)]]
          /\ Goto(p, "rollback_activate")
          /\ UNCHANGED <<saved, active, ensured, backups, lock, faults>>
      BY <1>5, <2>2 DEF RollbackRestore
    <3>2. vectors' \in [Namespaces -> SUBSET Batches]
      BY <1>2, <3>1 DEF IInv, TypeOK
    <3> QED
      BY <1>1, <1>2, <3>1, <3>2, SavedUnchanged, GotoKeeps
         DEF Steps, LockedSteps, IInv, TypeOK
  <2> QED
    BY <2>1, <2>2
<1>6. CASE RollbackActivate(p)
  <2>1. CASE StoreRaises(p, "rollback") \/ Refused(p, "rollback")
    BY <1>1, <2>1, RaiseKeeps DEF RunPhases
  <2>2. CASE ~(StoreRaises(p, "rollback") \/ Refused(p, "rollback"))
    <3> DEFINE step == IF active.ns = Source(p) THEN "rollback_check"
                                                ELSE "rollback_cas"
    <3> DEFINE w == Call(step, work[p].mig, work[p].draft, active,
                         work[p].restore)
    <3>1. /\ Enter(p, w)
          /\ UNCHANGED <<saved, active, ensured, vectors, backups, lock, faults>>
      BY <1>6, <2>2 DEF RollbackActivate, GotoSeeing
    <3>2. /\ step \in Steps /\ step \in {"rollback_check", "rollback_cas"}
          /\ step = "rollback_check" => active.ns = Source(p)
      BY DEF Steps, LockedSteps
    <3> HIDE DEF step
    <3>3. w = [pc |-> step, mig |-> work[p].mig, draft |-> work[p].draft,
               seen |-> active, restore |-> work[p].restore]
      BY DEF Call
    <3>4. w \in Works
      BY <1>3, <3>2, <3>3 DEF Works
    <3> HIDE DEF w
    <3>5. OthersKept(p) /\ work'[p] = w
      BY <3>1, <3>4 DEF Enter, OthersKept, IInv, TypeOK
    <3>6. CallSound(p)'
      BY <1>1, <1>2, <3>1, <3>2, <3>3, <3>5 DEF IInv, CallSound, Source, Target
    <3> QED
      BY <3>1, <3>5, <3>6, SavedUnchanged, StepKeeps DEF IInv, TypeOK
  <2> QED
    BY <2>1, <2>2
<1>7. CASE RollbackSwitch(p)
  <2>1. CASE StoreRaises(p, "rollback") \/ Refused(p, "rollback")
    BY <1>1, <2>1, RaiseKeeps DEF RunPhases
  <2>2. CASE ~(StoreRaises(p, "rollback") \/ Refused(p, "rollback"))
    <3> DEFINE w == Call("rollback_check", work[p].mig, work[p].draft,
                         Activated(Source(p)), work[p].restore)
    <3>1. /\ CompareAndSet(p, Source(p))
          /\ Enter(p, w)
          /\ UNCHANGED <<saved, ensured, vectors, backups, lock, faults>>
      BY <1>7, <2>2 DEF RollbackSwitch, GotoSeeing
    <3>2. active' \in ActiveModels /\ Activated(Source(p)) \in ActiveModels
          /\ Activated(Source(p)).ns = Source(p)
      BY <1>2, <1>3, <3>1 DEF CompareAndSet, Activated, ActiveModels
    <3>3. w = [pc |-> "rollback_check", mig |-> work[p].mig,
               draft |-> work[p].draft, seen |-> Activated(Source(p)),
               restore |-> work[p].restore]
      BY DEF Call
    <3>4. w \in Works
      BY <1>3, <3>2, <3>3 DEF Works, Steps, LockedSteps
    <3> HIDE DEF w
    <3>5. OthersKept(p) /\ work'[p] = w
      BY <3>1, <3>4 DEF Enter, OthersKept, IInv, TypeOK
    <3>6. CallSound(p)'
      BY <1>1, <1>2, <3>1, <3>2, <3>3, <3>5 DEF IInv, CallSound, Source, Target
    <3> QED
      BY <1>2, <3>1, <3>2, <3>5, <3>6, SavedUnchanged, StepKeeps DEF IInv, TypeOK
  <2> QED
    BY <2>1, <2>2
<1>8. CASE RollbackCheck(p)
  <2>1. CASE Refused(p, "rollback")
    BY <1>1, <2>1, RaiseKeeps DEF RunPhases
  <2>2. CASE ~Refused(p, "rollback")
    <3>1. /\ active = work[p].seen
          /\ Goto(p, "rollback_delete")
          /\ UNCHANGED <<saved, active, ensured, vectors, backups, lock, faults>>
      BY <1>8, <2>2 DEF RollbackCheck, OwnerCheck
    <3>2. active.ns = Source(p)
      BY <1>8, <3>1 DEF RollbackCheck, AtStep, IInv, CallSound
    <3>3. /\ OthersKept(p)
          /\ work'[p] = [pc |-> "rollback_delete", mig |-> work[p].mig,
                         draft |-> work[p].draft, seen |-> work[p].seen,
                         restore |-> work[p].restore]
      BY <1>3, <3>1, MoveFacts DEF Steps, LockedSteps
    <3>4. CallSound(p)'
      BY <1>1, <1>2, <3>1, <3>2, <3>3 DEF IInv, CallSound, Source, Target
    <3> QED
      BY <3>1, <3>3, <3>4, SavedUnchanged, StepKeeps DEF IInv, TypeOK
  <2> QED
    BY <2>1, <2>2
<1>9. CASE RollbackDelete(p)
  <2>1. CASE StoreRaises(p, "rollback")
    BY <1>1, <2>1, RaiseKeeps DEF RunPhases
  <2>2. CASE ~StoreRaises(p, "rollback")
    <3>1. /\ DeleteNamespace(Target(p))
          /\ Goto(p, "rollback_done")
          /\ UNCHANGED <<saved, active, backups, lock, faults>>
      BY <1>9, <2>2 DEF RollbackDelete
    <3>2. ensured' \subseteq Namespaces /\ vectors' \in [Namespaces -> SUBSET Batches]
      BY <3>1 DEF DeleteNamespace, IInv, TypeOK
    <3> QED
      BY <1>1, <1>2, <3>1, <3>2, SavedUnchanged, GotoKeeps
         DEF Steps, LockedSteps, IInv, TypeOK
  <2> QED
    BY <2>1, <2>2
<1>10. CASE RollbackDone(p)
  BY <1>1, <1>10, FinishKeeps DEF RollbackDone
<1> QED
  BY <1>4, <1>5, <1>6, <1>7, <1>8, <1>9, <1>10

\* Foreign activations and crashes.
LEMMA EnvironmentKeeps ==
  ASSUME IInv, \/ \E n \in Foreign : ForeignActivate(n)
               \/ \E p \in Procs : Crash(p)
  PROVE  IInv'
<1>1. ASSUME NEW n \in Foreign, ForeignActivate(n) PROVE IInv'
  <2>1. active' = [ns |-> n, gen |-> active.gen + 1]
    BY <1>1 DEF ForeignActivate, Activated
  <2>2. active' \in ActiveModels /\ active'.ns \in Foreign
    BY <2>1 DEF ActiveModels, IInv, TypeOK
  <2>3. UNCHANGED <<saved, ensured, vectors, backups, lock, work, faults>>
    BY <1>1 DEF ForeignActivate
  <2>4. TypeOK' /\ \A m \in Migrations : SavedSound(m)'
    BY <2>2, <2>3 DEF IInv, TypeOK, SavedSound
  <2>5. ASSUME NEW p \in Procs PROVE CallSound(p)'
    BY <2>2, <2>3 DEF IInv, CallSound, Source, Target
  <2> QED
    BY <2>4, <2>5 DEF IInv
<1>2. ASSUME NEW p \in Procs, Crash(p) PROVE IInv'
  <2>1. OthersKept(p) /\ work'[p] = Idle
    BY <1>2, MoveFacts, DefaultsTyped DEF Crash, Steps
  <2>2. faults' \in Nat /\ UNCHANGED <<saved, active, ensured, vectors, backups>>
    BY <1>2 DEF Crash, Fault, IInv, TypeOK
  <2>3. lock' = lock \/ (lock = p /\ lock' = Free)
    BY <1>2 DEF Crash, Release
  <2> QED
    BY <2>1, <2>2, <2>3, SavedUnchanged, IdleSound, StepKeeps DEF IInv, TypeOK
<1> QED
  BY <1>1, <1>2

LEMMA InitSound == Init => IInv
<1> SUFFICES ASSUME Init PROVE IInv
  OBVIOUS
<1>1. active \in ActiveModels
  BY DefaultsTyped DEF Init, ActiveModels
<1>2. TypeOK
  BY <1>1, DefaultsTyped DEF Init, TypeOK, Batches
<1>3. ASSUME NEW m \in Migrations PROVE SavedSound(m)
  BY DEF Init, SavedSound, Absent
<1>4. ASSUME NEW p \in Procs PROVE CallSound(p)
  BY DEF Init, CallSound, Idle
<1> QED
  BY <1>2, <1>3, <1>4 DEF IInv

LEMMA NextSound == IInv /\ [Next]_vars => IInv'
<1> SUFFICES ASSUME IInv, [Next]_vars PROVE IInv'
  OBVIOUS
<1>1. ASSUME NEW p \in Procs, NEW m \in Migrations, Begin(p, m) PROVE IInv'
  BY <1>1, BeginKeeps
<1>2. ASSUME NEW p \in Procs, SaveFailure(p) PROVE IInv'
  BY <1>2, FinishKeeps DEF SaveFailure
<1>3. ASSUME NEW p \in Procs, Step(p) PROVE IInv'
  BY <1>2, <1>3, UnlockedStepKeeps, ForwardTransitionKeeps, RollbackKeeps
     DEF Step
<1>4. CASE (\E n \in Foreign : ForeignActivate(n)) \/ \E p \in Procs : Crash(p)
  BY <1>4, EnvironmentKeeps
<1>5. CASE UNCHANGED vars
  BY <1>5 DEF vars, IInv, TypeOK, SavedSound, CallSound, Source, Target
<1> QED
  BY <1>1, <1>3, <1>4, <1>5 DEF Next

-----------------------------------------------------------------------------
(* Theorems                                                                *)

\* The calls and the durable states of every behaviour are sound.
THEOREM SoundAlways == Spec => []IInv
  BY InitSound, NextSound, PTL DEF Spec

\* Type correctness.
THEOREM TypeCorrect == Spec => []TypeOK
<1>1. IInv => TypeOK
  BY DEF IInv
<1> QED
  BY <1>1, SoundAlways, PTL

\* contract and rollback never delete the namespace that serves queries.
\* The lock keeps every other transition out, so between the owner check and
\* the deletion the active model can only have become a foreign one.
THEOREM ActiveNeverDeleted == Spec => NeverDeleteActive
<1> DEFINE Safe == \A n \in Namespaces :
                     (vectors[n] # {} /\ vectors'[n] = {})
                       => n \notin {active.ns, active'.ns}
<1>1. ASSUME IInv, NEW p \in Procs, ContractDelete(p) PROVE Safe
  <2>1. work[p].pc = "contract_delete" /\ UNCHANGED active
        /\ \A n \in Namespaces \ {Source(p)} : vectors'[n] = vectors[n]
    BY <1>1 DEF ContractDelete, AtStep, DeleteNamespace, StoreRaises, IInv, TypeOK
  <2>2. active.ns \in {Target(p)} \cup Foreign /\ Source(p) # Target(p)
        /\ Source(p) \in Namespaces
    BY <1>1, <2>1 DEF IInv, CallSound
  <2> QED
    BY <2>1, <2>2
<1>2. ASSUME IInv, NEW p \in Procs, RollbackDelete(p) PROVE Safe
  <2>1. work[p].pc = "rollback_delete" /\ UNCHANGED active
        /\ \A n \in Namespaces \ {Target(p)} : vectors'[n] = vectors[n]
    BY <1>2 DEF RollbackDelete, AtStep, DeleteNamespace, StoreRaises, IInv, TypeOK
  <2>2. active.ns \in {Source(p)} \cup Foreign /\ Source(p) # Target(p)
        /\ Target(p) \in Namespaces
    BY <1>2, <2>1 DEF IInv, CallSound, Target
  <2> QED
    BY <2>1, <2>2
<1>3. ASSUME IInv, NEW p \in Procs, BatchUpsert(p) \/ RollbackRestore(p)
      PROVE Safe
  BY <1>3 DEF BatchUpsert, RollbackRestore, StoreRaises, IInv, TypeOK
<1>4. ASSUME UNCHANGED vectors PROVE Safe
  BY <1>4
<1>5. ASSUME NEW p \in Procs, Step(p), ~ContractDelete(p), ~RollbackDelete(p),
             ~BatchUpsert(p), ~RollbackRestore(p)
      PROVE UNCHANGED vectors
  BY <1>5
     DEF Step, SaveFailure, ExpandEnsure, ExpandSave, BackfillSave,
         BatchAttempt, BatchCommit, ValidateCheck, ValidateSave, FlipPending,
         FlipSwitch, FlipDone, ContractPending, ContractBackup,
         ContractRecord, ContractCheck, ContractDone, RollbackPending,
         RollbackActivate, RollbackSwitch, RollbackCheck, RollbackDone,
         RetrySave, StoreRaises, Refused, OwnerCheck
<1>6. ASSUME NEW p \in Procs, NEW m \in Migrations, Begin(p, m)
      PROVE UNCHANGED vectors
  BY <1>6 DEF Begin, BeginExpand, BeginBackfill, BeginValidate, BeginFlip,
              BeginContract, BeginRollback, BeginRetry
<1>7. IInv /\ [Next]_vars => Safe
  <2> SUFFICES ASSUME IInv, [Next]_vars PROVE Safe
    OBVIOUS
  <2> HIDE DEF Safe
  <2>1. ASSUME NEW p \in Procs, Step(p) PROVE Safe
    BY <2>1, <1>1, <1>2, <1>3, <1>4, <1>5
  <2>2. ASSUME NEW p \in Procs, Crash(p) PROVE Safe
    BY <2>2, <1>4 DEF Crash
  <2>3. ASSUME NEW n \in Foreign, ForeignActivate(n) PROVE Safe
    BY <2>3, <1>4 DEF ForeignActivate
  <2>4. CASE UNCHANGED vars
    BY <2>4, <1>4 DEF vars
  <2> QED
    BY <1>4, <1>6, <2>1, <2>2, <2>3, <2>4 DEF Next
<1> QED
  BY <1>7, SoundAlways, PTL DEF Spec, NeverDeleteActive

-----------------------------------------------------------------------------
(* What becomes of the corpus                                              *)

(* One operator per migration, and no namespace shared by two of them: a   *)
(* migration moves from a namespace that holds the corpus to a new one.    *)
(* With two operators the properties below fail (validate, backfill and    *)
(* retry save without the lock what they read before working).             *)
Separate ==
  /\ \A p, q \in Procs : p # q => Operates[p] \cap Operates[q] = {}
  /\ \A m \in Migrations :
       /\ SourceArg[m] \in Filled
       /\ TargetOf[m] \notin Filled
  /\ \A m, k \in Migrations :
       m # k => SourceArg[m] # SourceArg[k] /\ TargetOf[m] # TargetOf[k]

-----------------------------------------------------------------------------
(* The inductive invariant                                                 *)

\* A state of migration m says no more than the vectors and backups hold:
\* unless it is rolling back, its checkpoint is stored and what it calls
\* validated is whole; a backup it records exists.
Backed(m, st, vec, bak) ==
  /\ st.source = SourceArg[m]
  /\ st.phase = "failed" => st.resume # "none"
  /\ EffectivePhase(st) # "rollback" =>
       /\ 1..st.checkpoint \subseteq vec[TargetOf[m]]
       /\ st.validated => vec[TargetOf[m]] = Batches
  /\ st.backup => /\ bak[SourceArg[m]] = Batches
                  /\ EffectivePhase(st) \in {"contract", "complete", "rollback"}

\* The durable state st of m while ns serves queries: the corpus is in the
\* source or recorded as backed up, and what serves is whole, except a source
\* that a rollback is restoring.
Kept(m, st, vec, bak, ns) ==
  /\ st.phase = "absent" => ~st.backup
  /\ st.phase # "absent" => Backed(m, st, vec, bak)
  /\ vec[SourceArg[m]] = Batches \/ st.backup
  /\ ns = TargetOf[m] => vec[TargetOf[m]] = Batches
  /\ ns = SourceArg[m] => \/ vec[SourceArg[m]] = Batches
                          \/ st.backup /\ EffectivePhase(st) = "rollback"

Contracting == {"contract_pending", "contract_backup", "contract_record",
                "contract_check", "contract_delete"}
Restoring == {"rollback_restore", "rollback_activate", "rollback_cas",
              "rollback_check", "rollback_delete", "rollback_done"}

\* The phase a call's draft is in at each of its steps.
DraftPhase(pc, st) ==
  /\ st.phase # "absent"
  /\ pc = "expand_ensure" => st.phase = "init"
  /\ pc = "expand_save" => st.phase = "expand"
  /\ pc \in {"backfill_save", "batch_attempt", "batch_upsert", "batch_commit"}
       => st.phase = "backfill"
  /\ pc = "validate_check" => st.phase \in {"backfill", "validate"}
  /\ pc = "validate_save" => EffectivePhase(st) = "validate"
  /\ pc \in {"flip_pending", "flip_cas", "flip_done"}
       => st.phase = "flip" /\ st.validated
  /\ pc \in Contracting => st.phase = "contract"
  /\ pc = "contract_done" => st.phase = "complete"
  /\ pc \in {"rollback_pending"} \cup Restoring => st.phase = "rollback"
  /\ pc \in {"fail", "fail_locked"} => st.phase = "failed"

\* What a draft has to do with the durable state sv of its migration: a
\* rollback that has begun is never taken back, and a backup is recorded
\* before anything relies on it.
Follows(pc, st, sv) ==
  /\ EffectivePhase(sv) = "rollback" => EffectivePhase(st) = "rollback"
  /\ pc \in Restoring => EffectivePhase(sv) = "rollback"
  /\ pc # "contract_record" => (st.backup <=> sv.backup)
  /\ pc \in {"contract_record", "contract_check", "contract_delete"} => st.backup
  /\ pc = "contract_backup" => ~st.backup

CallKept(p) ==
  work[p].pc # "idle" =>
    /\ work[p].mig \in Operates[p]
    /\ Backed(work[p].mig, work[p].draft, vectors, backups)
    /\ DraftPhase(work[p].pc, work[p].draft)
    /\ Follows(work[p].pc, work[p].draft, saved[work[p].mig])

MigrationKept(m) == Kept(m, saved[m], vectors, backups, active.ns)

\* Namespaces no migration moves from stay whole, and only those that were
\* whole, or are the target of a migration, are activated.
OthersWhole ==
  /\ \A n \in Filled : Full(n) \/ \E m \in Migrations : n = SourceArg[m]
  /\ active.ns \in Namespaces
       => active.ns \in Filled \/ \E m \in Migrations : active.ns = TargetOf[m]

JInv ==
  /\ IInv
  /\ Separate
  /\ \A m \in Migrations : MigrationKept(m)
  /\ \A p \in Procs : CallKept(p)
  /\ OthersWhole

-----------------------------------------------------------------------------
(* Lemmas about the data                                                   *)

\* Going to another phase keeps a state backed, unless that would take a
\* rollback back or forget a backup.
LEMMA PhaseBacked ==
  ASSUME NEW m, NEW st \in States, NEW vec, NEW bak, NEW ph \in RunPhases,
         Backed(m, st, vec, bak),
         EffectivePhase(st) = "rollback" => ph = "rollback",
         st.backup => ph \in {"contract", "complete", "rollback"}
  PROVE  /\ Backed(m, InPhase(st, ph), vec, bak)
         /\ InPhase(st, ph).phase = ph
         /\ EffectivePhase(InPhase(st, ph)) = ph
         /\ InPhase(st, ph).backup <=> st.backup
         /\ InPhase(st, ph).validated <=> st.validated
         /\ InPhase(st, ph).checkpoint = st.checkpoint
<1> PICK new \in States : new = InPhase(st, ph)
  BY PhaseTyped
<1>1. /\ new.phase = ph /\ new.resume = "none" /\ new.source = st.source
      /\ new.checkpoint = st.checkpoint
      /\ new.validated = st.validated /\ new.backup = st.backup
  BY DEF InPhase, States
<1>2. ph # "failed" /\ EffectivePhase(new) = ph
  BY <1>1 DEF EffectivePhase, RunPhases
<1>3. Backed(m, new, vec, bak)
  BY <1>1, <1>2 DEF Backed
<1> QED
  BY <1>1, <1>2, <1>3

\* So does recording a failure.
LEMMA FailedBacked ==
  ASSUME NEW m, NEW st \in States, NEW vec, NEW bak, NEW r \in RunPhases,
         Backed(m, st, vec, bak),
         EffectivePhase(st) = "rollback" => r = "rollback",
         st.backup => r \in {"contract", "complete", "rollback"}
  PROVE  /\ Failed(st, r) \in States
         /\ Backed(m, Failed(st, r), vec, bak)
         /\ Failed(st, r).phase = "failed"
         /\ EffectivePhase(Failed(st, r)) = r
         /\ Failed(st, r).backup <=> st.backup
<1> PICK new \in States : new = Failed(st, r)
  BY PhaseTyped
<1>1. /\ new.phase = "failed" /\ new.resume = r /\ new.source = st.source
      /\ new.checkpoint = st.checkpoint
      /\ new.validated = st.validated /\ new.backup = st.backup
  BY DEF Failed, States
<1>2. r # "none" /\ EffectivePhase(new) = r
  BY <1>1 DEF EffectivePhase, RunPhases
<1>3. Backed(m, new, vec, bak)
  BY <1>1, <1>2 DEF Backed
<1> QED
  BY <1>1, <1>2, <1>3

\* A backed state that follows the durable one can take its place.
LEMMA SavedBacked ==
  ASSUME NEW m, NEW st, NEW sv, NEW vec, NEW bak, NEW ns, NEW pc,
         Kept(m, sv, vec, bak, ns), Backed(m, st, vec, bak),
         Follows(pc, st, sv), st.phase # "absent"
  PROVE  Kept(m, st, vec, bak, ns)
<1>1. sv.backup => st.backup
  BY DEF Follows
<1>2. EffectivePhase(sv) = "rollback" => EffectivePhase(st) = "rollback"
  BY DEF Follows
<1> QED
  BY <1>1, <1>2 DEF Kept

\* What a call loads is backed and follows the durable state.
LEMMA LoadedBacked ==
  ASSUME JInv, NEW m \in Migrations, Loadable(m)
  PROVE  /\ Loaded(m) \in States
         /\ Backed(m, Loaded(m), vectors, backups)
         /\ Loaded(m).phase # "absent"
         /\ Loaded(m).backup <=> saved[m].backup
         /\ EffectivePhase(saved[m]) = "rollback"
              => EffectivePhase(Loaded(m)) = "rollback"
<1>1. Loaded(m) \in States
  BY LoadedTyped DEF JInv, IInv
<1>2. MigrationKept(m) /\ SourceArg[m] \in Namespaces
  BY DEF JInv, Separate
<1>3. CASE saved[m].phase # "absent"
  BY <1>1, <1>2, <1>3 DEF Loaded, MigrationKept, Kept
<1>4. CASE saved[m].phase = "absent"
  <2>1. Loaded(m) = [phase |-> "init", source |-> SourceArg[m],
                     checkpoint |-> 0, validated |-> FALSE, backup |-> FALSE,
                     resume |-> "none"]
    BY <1>2, <1>4 DEF Loaded, Absent
  <2>2. EffectivePhase(saved[m]) = "absent" /\ ~saved[m].backup
    BY <1>2, <1>4 DEF EffectivePhase, MigrationKept, Kept
  <2>3. 1..0 = {}
    OBVIOUS
  <2>4. Backed(m, Loaded(m), vectors, backups)
    BY <2>1, <2>3 DEF Backed, EffectivePhase
  <2> QED
    BY <1>1, <2>1, <2>2, <2>4
<1> QED
  BY <1>3, <1>4

-----------------------------------------------------------------------------
(* Lemmas about steps                                                      *)

\* A step of p on its migration m leaves the invariant standing when it
\* leaves what belongs to other migrations alone and keeps what is said of m.
LEMMA OwnStepKeeps ==
  ASSUME JInv, IInv', NEW p \in Procs, NEW m \in Migrations,
         m \in Operates[p], OthersKept(p),
         \A k \in Migrations \ {m} : saved'[k] = saved[k],
         \A n \in Namespaces \ {SourceArg[m], TargetOf[m]} :
           vectors'[n] = vectors[n],
         \A n \in Namespaces \ {SourceArg[m]} : backups'[n] = backups[n],
         active'.ns \in {active.ns, SourceArg[m], TargetOf[m]},
         MigrationKept(m)', CallKept(p)'
  PROVE  JInv'
<1>1. Separate /\ Separate'
  BY DEF JInv, Separate
<1>2. \A k \in Migrations : /\ SourceArg[k] \in Filled
                            /\ SourceArg[k] \in Namespaces
                            /\ TargetOf[k] \in Namespaces
                            /\ TargetOf[k] \notin Filled
  BY <1>1 DEF Separate
<1>3. ASSUME NEW k \in Migrations, k # m
      PROVE  /\ saved'[k] = saved[k]
             /\ vectors'[SourceArg[k]] = vectors[SourceArg[k]]
             /\ vectors'[TargetOf[k]] = vectors[TargetOf[k]]
             /\ backups'[SourceArg[k]] = backups[SourceArg[k]]
  BY <1>1, <1>2, <1>3 DEF Separate
<1>4. ASSUME NEW k \in Migrations PROVE MigrationKept(k)'
  <2>1. CASE k = m
    BY <2>1
  <2>2. CASE k # m
    <3>1. /\ active'.ns = TargetOf[k] => active.ns = TargetOf[k]
          /\ active'.ns = SourceArg[k] => active.ns = SourceArg[k]
      BY <1>1, <1>2, <2>2 DEF Separate
    <3>2. MigrationKept(k)
      BY DEF JInv
    <3> QED
      BY <1>3, <2>2, <3>1, <3>2 DEF MigrationKept, Kept, Backed
  <2> QED
    BY <2>1, <2>2
<1>5. ASSUME NEW q \in Procs PROVE CallKept(q)'
  <2>1. CASE q = p
    BY <2>1
  <2>2. CASE q # p
    <3>1. work'[q] = work[q] /\ CallKept(q)
      BY <2>2 DEF OthersKept, JInv
    <3>2. CASE work[q].pc = "idle"
      BY <3>1, <3>2 DEF CallKept
    <3>3. CASE work[q].pc # "idle"
      <4>1. work[q].mig \in Operates[q] /\ work[q].mig \in Migrations
        BY <3>1, <3>3 DEF CallKept
      <4>2. work[q].mig # m
        BY <1>1, <2>2, <4>1 DEF Separate
      <4> QED
        BY <1>3, <3>1, <3>3, <4>1, <4>2 DEF CallKept, Backed
    <3> QED
      BY <3>2, <3>3
  <2> QED
    BY <2>1, <2>2
<1>6. OthersWhole'
  <2>1. ASSUME NEW n \in Filled
        PROVE Full(n)' \/ \E k \in Migrations : n = SourceArg[k]
    BY <1>2, <2>1 DEF JInv, OthersWhole, Full
  <2>2. active'.ns \in Namespaces
          => active'.ns \in Filled \/ \E k \in Migrations : active'.ns = TargetOf[k]
    BY <1>2 DEF JInv, OthersWhole
  <2> QED
    BY <2>1, <2>2 DEF OthersWhole
<1> QED
  BY <1>1, <1>4, <1>5, <1>6 DEF JInv

\* A process without a call has nothing to keep.
LEMMA IdleKept ==
  ASSUME NEW p \in Procs, work'[p] = Idle
  PROVE  CallKept(p)'
  BY DEF CallKept, Idle

\* A step that only moves the call.
LEMMA WorkKeeps ==
  ASSUME JInv, IInv', NEW p \in Procs, NEW m \in Migrations,
         m \in Operates[p], OthersKept(p), CallKept(p)',
         UNCHANGED <<saved, active, vectors, backups>>
  PROVE  JInv'
<1>1. MigrationKept(m)'
  BY DEF JInv, MigrationKept
<1> QED
  BY <1>1, OwnStepKeeps

\* What is known of a call in progress.
LEMMA CallFacts ==
  ASSUME JInv, NEW p \in Procs, work[p].pc # "idle"
  PROVE  /\ work[p].mig \in Migrations /\ work[p].mig \in Operates[p]
         /\ work[p].draft \in States
         /\ Backed(work[p].mig, work[p].draft, vectors, backups)
         /\ DraftPhase(work[p].pc, work[p].draft)
         /\ Follows(work[p].pc, work[p].draft, saved[work[p].mig])
         /\ MigrationKept(work[p].mig)
         /\ Source(p) = SourceArg[work[p].mig] /\ Source(p) \in Namespaces
         /\ Target(p) = TargetOf[work[p].mig] /\ Target(p) \in Namespaces
         /\ Source(p) # Target(p)
<1>1. CallKept(p) /\ CallSound(p) /\ work[p] \in Works
  BY DEF JInv, IInv, TypeOK
<1>2. work[p].mig \in Migrations /\ work[p].draft \in States
  BY <1>1 DEF CallSound, Works
<1>3. MigrationKept(work[p].mig)
  BY <1>2 DEF JInv
<1> QED
  BY <1>1, <1>2, <1>3 DEF CallKept, CallSound, Source, Target, Backed

\* A store call that raises, or a refusal under way.
LEMMA FailureKeeps ==
  ASSUME JInv, IInv', NEW p \in Procs,
         work[p].pc \notin {"idle", "contract_record"}, NEW r \in RunPhases,
         StoreRaises(p, r) \/ Refused(p, r),
         EffectivePhase(work[p].draft) = "rollback" => r = "rollback",
         work[p].draft.backup => r \in {"contract", "complete", "rollback"}
  PROVE  JInv'
<1> PICK m \in Migrations, st \in States : m = work[p].mig /\ st = work[p].draft
  BY CallFacts
<1> PICK step \in {"fail", "fail_locked"} :
      step = IF lock = p THEN "fail_locked" ELSE "fail"
  OBVIOUS
<1>1. /\ m \in Operates[p] /\ Backed(m, st, vectors, backups)
      /\ Follows(work[p].pc, st, saved[m])
  BY CallFacts
<1> PICK new \in States : new = Failed(st, r)
  BY PhaseTyped
<1>2. /\ Backed(m, new, vectors, backups) /\ new.phase = "failed"
      /\ EffectivePhase(new) = r /\ (new.backup <=> st.backup)
  BY <1>1, FailedBacked
<1>3. /\ GotoWith(p, step, new)
      /\ UNCHANGED <<saved, active, vectors, backups>>
  BY DEF StoreRaises, Refused, RaiseInto
<1>4. /\ OthersKept(p)
      /\ work'[p] = [pc |-> step, mig |-> m, draft |-> new,
                     seen |-> work[p].seen, restore |-> work[p].restore]
  BY <1>3, MoveFacts DEF JInv, Steps, UnlockedSteps, LockedSteps
<1>5. DraftPhase(step, new)
  BY <1>2 DEF DraftPhase, Contracting, Restoring
<1>6. Follows(step, new, saved[m])
  <2>1. EffectivePhase(saved[m]) = "rollback" => EffectivePhase(new) = "rollback"
    BY <1>1, <1>2 DEF Follows
  <2>2. new.backup <=> saved[m].backup
    BY <1>1, <1>2 DEF Follows
  <2> QED
    BY <2>1, <2>2 DEF Follows, Restoring
<1>7. CallKept(p)'
  BY <1>1, <1>2, <1>3, <1>4, <1>5, <1>6 DEF CallKept
<1> QED
  BY <1>1, <1>3, <1>4, <1>7, WorkKeeps

\* _save of the draft, after which the call returns or goes on with it.
LEMMA SavingKeeps ==
  ASSUME JInv, IInv', NEW p \in Procs, work[p].pc # "idle",
         Save(p, work[p].draft), OthersKept(p),
         \/ work'[p] = Idle
         \/ /\ work'[p].mig = work[p].mig
            /\ work'[p].draft = work[p].draft
            /\ DraftPhase(work'[p].pc, work[p].draft)
            /\ Follows(work'[p].pc, work[p].draft, work[p].draft),
         UNCHANGED <<active, vectors, backups>>
  PROVE  JInv'
<1> PICK m \in Migrations, st \in States : m = work[p].mig /\ st = work[p].draft
  BY CallFacts
<1>1. /\ m \in Operates[p] /\ Backed(m, st, vectors, backups)
      /\ Follows(work[p].pc, st, saved[m]) /\ DraftPhase(work[p].pc, st)
      /\ Kept(m, saved[m], vectors, backups, active.ns)
  BY CallFacts DEF MigrationKept
<1>2. /\ saved'[m] = st
      /\ \A k \in Migrations \ {m} : saved'[k] = saved[k]
  BY DEF Save, JInv, IInv, TypeOK
<1>3. Kept(m, st, vectors, backups, active.ns)
  BY <1>1, SavedBacked DEF DraftPhase
<1>4. MigrationKept(m)'
  BY <1>2, <1>3 DEF MigrationKept
<1>5. CallKept(p)'
  <2>1. CASE work'[p] = Idle
    BY <2>1, IdleKept
  <2>2. CASE work'[p] # Idle
    BY <1>1, <1>2, <2>2 DEF CallKept
  <2> QED
    BY <2>1, <2>2
<1> QED
  BY <1>1, <1>2, <1>4, <1>5, OwnStepKeeps

\* A step that goes on with another draft and changes nothing durable.
LEMMA MovingKeeps ==
  ASSUME JInv, IInv', NEW p \in Procs, work[p].pc # "idle",
         NEW step \in Steps, NEW st \in States, OthersKept(p),
         work'[p].pc = step, work'[p].mig = work[p].mig, work'[p].draft = st,
         Backed(work[p].mig, st, vectors, backups), DraftPhase(step, st),
         Follows(step, st, saved[work[p].mig]),
         UNCHANGED <<saved, active, vectors, backups>>
  PROVE  JInv'
<1>1. work[p].mig \in Migrations /\ work[p].mig \in Operates[p]
  BY CallFacts
<1>2. CallKept(p)'
  BY <1>1 DEF CallKept
<1> QED
  BY <1>1, <1>2, WorkKeeps

-----------------------------------------------------------------------------
(* The start of a call                                                     *)

\* A call that starts with a backed draft that follows what it loaded.
LEMMA StartKeeps ==
  ASSUME JInv, IInv', NEW p \in Procs, NEW m \in Migrations,
         m \in Operates[p], Loadable(m),
         NEW step \in Steps, step \notin Restoring,
         step \notin {"contract_backup", "contract_record", "contract_check",
                      "contract_delete"},
         NEW st \in States, NEW a \in ActiveModels, NEW r \in BOOLEAN,
         Enter(p, Call(step, m, st, a, r)),
         Backed(m, st, vectors, backups), DraftPhase(step, st),
         st.backup <=> Loaded(m).backup,
         EffectivePhase(Loaded(m)) = "rollback" => EffectivePhase(st) = "rollback",
         UNCHANGED <<saved, active, vectors, backups>>
  PROVE  JInv'
<1>1. Call(step, m, st, a, r) \in Works
  BY DEF Call, Works
<1>2. OthersKept(p) /\ work'[p] = Call(step, m, st, a, r)
  BY <1>1 DEF Enter, OthersKept, JInv, IInv, TypeOK
<1>3. work'[p].pc = step /\ work'[p].mig = m /\ work'[p].draft = st
  BY <1>2 DEF Call
<1>4. Follows(step, st, saved[m])
  <2>1. EffectivePhase(saved[m]) = "rollback" => EffectivePhase(st) = "rollback"
    BY LoadedBacked
  <2>2. st.backup <=> saved[m].backup
    BY LoadedBacked
  <2> QED
    BY <2>1, <2>2 DEF Follows
<1>5. CallKept(p)'
  BY <1>3, <1>4 DEF CallKept
<1> QED
  BY <1>2, <1>5, WorkKeeps

\* Every operation starts that way.
LEMMA BeginKept ==
  ASSUME JInv, IInv', NEW p \in Procs, NEW m \in Migrations, Begin(p, m)
  PROVE  JInv'
<1>1. /\ m \in Operates[p] /\ Loadable(m)
      /\ UNCHANGED <<saved, active, vectors, backups>>
  BY DEF Begin, BeginExpand, BeginBackfill, BeginValidate, BeginFlip,
         BeginContract, BeginRollback, BeginRetry, Starts, StartsTransition
<1> PICK st \in States : st = Loaded(m)
  BY <1>1, LoadedBacked
<1>2. /\ Backed(m, st, vectors, backups) /\ st.phase # "absent"
      /\ NoActive \in ActiveModels /\ active \in ActiveModels
  BY <1>1, LoadedBacked, DefaultsTyped DEF JInv, IInv, TypeOK
<1>3. st.phase # "failed" => EffectivePhase(st) = st.phase
  BY DEF EffectivePhase
<1>4. /\ st.backup => EffectivePhase(st) \in {"contract", "complete", "rollback"}
      /\ st.phase = "failed" => st.resume # "none"
  BY <1>2 DEF Backed
<1>5. ASSUME NEW ph \in RunPhases, NEW step \in Steps, step \notin Restoring,
             step \notin {"contract_backup", "contract_record",
                          "contract_check", "contract_delete"},
             NEW a \in ActiveModels, NEW r \in BOOLEAN,
             Enter(p, Call(step, m, InPhase(st, ph), a, r)),
             EffectivePhase(st) = "rollback" => ph = "rollback",
             st.backup => ph \in {"contract", "complete", "rollback"},
             DraftPhase(step, InPhase(st, ph))
      PROVE  JInv'
  <2> PICK new \in States : new = InPhase(st, ph)
    BY PhaseTyped
  <2>1. /\ Backed(m, new, vectors, backups) /\ EffectivePhase(new) = ph
        /\ (new.backup <=> st.backup)
    BY <1>2, <1>5, PhaseBacked
  <2> QED
    BY <1>1, <1>5, <2>1, StartKeeps
<1>6. \A ph \in RunPhases :
        /\ InPhase(st, ph).phase = ph
        /\ InPhase(st, ph).validated <=> st.validated
  BY DEF InPhase, States
<1>7. CASE BeginExpand(p, m)
  <2>1. Enter(p, Call("expand_ensure", m, st, NoActive, FALSE))
    BY <1>7 DEF BeginExpand
  <2>2. DraftPhase("expand_ensure", st)
    BY <1>7 DEF BeginExpand, DraftPhase, Contracting, Restoring
  <2> QED
    BY <1>1, <1>2, <2>1, <2>2, StartKeeps
       DEF Steps, UnlockedSteps, Restoring
<1>8. CASE BeginBackfill(p, m)
  <2>1. Enter(p, Call("backfill_save", m, InPhase(st, "backfill"), NoActive, FALSE))
    BY <1>8 DEF BeginBackfill
  <2>2. DraftPhase("backfill_save", InPhase(st, "backfill"))
    BY <1>6 DEF DraftPhase, Contracting, Restoring, RunPhases
  <2>3. EffectivePhase(st) \in {"expand", "backfill"}
    BY <1>3, <1>8 DEF BeginBackfill
  <2> QED
    BY <1>2, <1>4, <1>5, <2>1, <2>2, <2>3
       DEF Steps, UnlockedSteps, Restoring, RunPhases
<1>9. CASE BeginValidate(p, m)
  <2>1. Enter(p, Call("validate_check", m, st, NoActive, FALSE))
    BY <1>9 DEF BeginValidate
  <2>2. DraftPhase("validate_check", st)
    BY <1>9 DEF BeginValidate, DraftPhase, Contracting, Restoring
  <2> QED
    BY <1>1, <1>2, <2>1, <2>2, StartKeeps
       DEF Steps, UnlockedSteps, Restoring
<1>10. CASE BeginFlip(p, m)
  <2> PICK step \in {"flip_done", "flip_pending"} :
        step = IF active.ns = TargetOf[m] THEN "flip_done" ELSE "flip_pending"
    OBVIOUS
  <2>1. Enter(p, Call(step, m, InPhase(st, "flip"), active, FALSE))
    BY <1>10 DEF BeginFlip
  <2>2. st.validated /\ EffectivePhase(st) \in {"validate", "flip"}
    BY <1>3, <1>10 DEF BeginFlip
  <2>3. InPhase(st, "flip").phase = "flip" /\ InPhase(st, "flip").validated
    BY <1>6, <2>2 DEF RunPhases
  <2>4. DraftPhase(step, InPhase(st, "flip"))
    BY <2>3 DEF DraftPhase, Contracting, Restoring
  <2> QED
    BY <1>2, <1>4, <1>5, <2>1, <2>2, <2>4
       DEF Steps, LockedSteps, Restoring, RunPhases
<1>11. CASE BeginContract(p, m)
  <2>1. Enter(p, Call("contract_pending", m, InPhase(st, "contract"), active, FALSE))
    BY <1>11 DEF BeginContract
  <2>2. DraftPhase("contract_pending", InPhase(st, "contract"))
    BY <1>6 DEF DraftPhase, Contracting, Restoring, RunPhases
  <2>3. EffectivePhase(st) \in {"flip", "contract"}
    BY <1>3, <1>11 DEF BeginContract
  <2> QED
    BY <1>2, <1>4, <1>5, <2>1, <2>2, <2>3
       DEF Steps, LockedSteps, Restoring, RunPhases
<1>12. CASE BeginRollback(p, m)
  <2> PICK r \in BOOLEAN : r = RestoreRequired(st)
    BY DEF RestoreRequired, States
  <2>1. Enter(p, Call("rollback_pending", m, InPhase(st, "rollback"), NoActive, r))
    BY <1>12 DEF BeginRollback
  <2>2. DraftPhase("rollback_pending", InPhase(st, "rollback"))
    BY <1>6 DEF DraftPhase, Contracting, Restoring, RunPhases
  <2> QED
    BY <1>2, <1>5, <2>1, <2>2 DEF Steps, LockedSteps, Restoring, RunPhases
<1>13. CASE BeginRetry(p, m)
  <2> PICK ph \in RunPhases : ph = ResumePhase(st)
    BY DEF ResumePhase, States, RunPhases
  <2>1. Enter(p, Call("retry_save", m, InPhase(st, ph), NoActive, FALSE))
    BY <1>13 DEF BeginRetry
  <2>2. ph = EffectivePhase(st)
    BY <1>4, <1>13 DEF BeginRetry, ResumePhase, EffectivePhase
  <2>3. DraftPhase("retry_save", InPhase(st, ph))
    BY <1>6 DEF DraftPhase, Contracting, Restoring, RunPhases
  <2> QED
    BY <1>2, <1>4, <1>5, <2>1, <2>2, <2>3
       DEF Steps, UnlockedSteps, Restoring, RunPhases
<1> QED
  BY <1>7, <1>8, <1>9, <1>10, <1>11, <1>12, <1>13 DEF Begin

-----------------------------------------------------------------------------
(* The steps of a call                                                     *)

\* Saving the draft at the end of a call.
LEMMA ReturnKeeps ==
  ASSUME JInv, IInv', NEW p \in Procs, work[p].pc # "idle",
         Save(p, work[p].draft), Return(p),
         UNCHANGED <<active, vectors, backups>>
  PROVE  JInv'
<1>1. OthersKept(p) /\ work'[p] = Idle
  BY MoveFacts, DefaultsTyped DEF JInv, Steps
<1> QED
  BY <1>1, SavingKeeps

\* Saving the draft and going on with it.
LEMMA SaveAndGoKeeps ==
  ASSUME JInv, IInv', NEW p \in Procs, work[p].pc # "idle",
         NEW step \in Steps, Save(p, work[p].draft),
         Goto(p, step) \/ GotoWith(p, step, work[p].draft),
         DraftPhase(step, work[p].draft),
         Follows(step, work[p].draft, work[p].draft),
         UNCHANGED <<active, vectors, backups>>
  PROVE  JInv'
<1> PICK st \in States : st = work[p].draft
  BY CallFacts
<1>1. /\ OthersKept(p)
      /\ work'[p] = [pc |-> step, mig |-> work[p].mig, draft |-> st,
                     seen |-> work[p].seen, restore |-> work[p].restore]
  BY MoveFacts DEF JInv
<1>2. /\ work'[p].pc = step /\ work'[p].mig = work[p].mig
      /\ work'[p].draft = work[p].draft
  BY <1>1
<1> QED
  BY <1>1, <1>2, SavingKeeps

\* Going on with a draft, new or old, without a durable change.
LEMMA GoKeeps ==
  ASSUME JInv, IInv', NEW p \in Procs, work[p].pc # "idle",
         NEW step \in Steps, NEW st \in States,
         GotoWith(p, step, st) \/ (Goto(p, step) /\ st = work[p].draft),
         Backed(work[p].mig, st, vectors, backups), DraftPhase(step, st),
         Follows(step, st, saved[work[p].mig]),
         UNCHANGED <<saved, active, vectors, backups>>
  PROVE  JInv'
<1>1. /\ OthersKept(p)
      /\ work'[p] = [pc |-> step, mig |-> work[p].mig, draft |-> st,
                     seen |-> work[p].seen, restore |-> work[p].restore]
  BY MoveFacts DEF JInv
<1>2. work'[p].pc = step /\ work'[p].mig = work[p].mig /\ work'[p].draft = st
  BY <1>1
<1> QED
  BY <1>1, <1>2, MovingKeeps

\* A namespace that holds as many batches as the corpus holds the corpus.
LEMMA PassesWhole ==
  ASSUME NEW n, vectors[n] \subseteq Batches, Passes(n)
  PROVE  Full(n)
<1>1. IsFiniteSet(Batches) /\ Cardinality(Batches) = NumBatches
  BY FS_Interval DEF Batches
<1>2. Cardinality(vectors[n]) = NumBatches
  BY DEF Passes
<1> QED
  BY <1>1, <1>2, FS_Subset DEF Full

\* expand.
LEMMA ExpandKept ==
  ASSUME JInv, IInv', NEW p \in Procs, ExpandEnsure(p) \/ ExpandSave(p)
  PROVE  JInv'
<1> PICK m \in Migrations, st \in States : m = work[p].mig /\ st = work[p].draft
  BY CallFacts DEF ExpandEnsure, ExpandSave, AtStep
<1>1. /\ work[p].pc \in {"expand_ensure", "expand_save"}
      /\ Backed(m, st, vectors, backups) /\ DraftPhase(work[p].pc, st)
      /\ Follows(work[p].pc, st, saved[m])
  BY CallFacts DEF ExpandEnsure, ExpandSave, AtStep
<1>2. st.phase \in {"init", "expand"} /\ EffectivePhase(st) \in {"init", "expand"}
  BY <1>1 DEF DraftPhase, EffectivePhase
<1>3. ~st.backup
  BY <1>1, <1>2 DEF Backed
<1>4. CASE StoreRaises(p, "expand")
  BY <1>1, <1>2, <1>3, <1>4, FailureKeeps DEF RunPhases
<1>5. CASE ExpandEnsure(p) /\ ~StoreRaises(p, "expand")
  <2> PICK new \in States : new = InPhase(st, "expand")
    BY PhaseTyped DEF RunPhases
  <2>1. /\ Backed(m, new, vectors, backups) /\ EffectivePhase(new) = "expand"
        /\ new.phase = "expand" /\ (new.backup <=> st.backup)
    BY <1>1, <1>2, <1>3, PhaseBacked DEF RunPhases
  <2>2. /\ GotoWith(p, "expand_save", new)
        /\ UNCHANGED <<saved, active, vectors, backups>>
    BY <1>5 DEF ExpandEnsure
  <2>3. DraftPhase("expand_save", new)
    BY <2>1 DEF DraftPhase, Contracting, Restoring
  <2>4. Follows("expand_save", new, saved[m])
    BY <1>1, <1>2, <2>1 DEF Follows, Restoring
  <2> QED
    BY <1>1, <2>1, <2>2, <2>3, <2>4, GoKeeps DEF Steps, UnlockedSteps
<1>6. CASE ExpandSave(p) /\ ~StoreRaises(p, "expand")
  BY <1>1, <1>6, ReturnKeeps DEF ExpandSave
<1> QED
  BY <1>4, <1>5, <1>6

\* The steps of backfill that save.
LEMMA BackfillKept ==
  ASSUME JInv, IInv', NEW p \in Procs,
         BackfillSave(p) \/ BatchAttempt(p) \/ BatchCommit(p)
  PROVE  JInv'
<1> PICK m \in Migrations, st \in States : m = work[p].mig /\ st = work[p].draft
  BY CallFacts DEF BackfillSave, BatchAttempt, BatchCommit, AtStep
<1>1. /\ work[p].pc \in {"backfill_save", "batch_attempt", "batch_commit"}
      /\ Backed(m, st, vectors, backups) /\ DraftPhase(work[p].pc, st)
      /\ Save(p, work[p].draft)
      /\ UNCHANGED <<active, vectors, backups>>
  BY CallFacts DEF BackfillSave, BatchAttempt, BatchCommit, AtStep
<1>2. st.phase = "backfill" /\ EffectivePhase(st) = "backfill"
  BY <1>1 DEF DraftPhase, EffectivePhase
<1>3. ASSUME NEW step \in {"batch_attempt", "batch_upsert"}
      PROVE  /\ step \in Steps /\ DraftPhase(step, st)
             /\ Follows(step, st, st)
  BY <1>2 DEF Steps, UnlockedSteps, DraftPhase, Follows, Contracting, Restoring
<1>4. \/ Return(p)
      \/ GotoWith(p, "batch_attempt", work[p].draft)
      \/ Goto(p, "batch_upsert")
  BY DEF BackfillSave, BatchAttempt, BatchCommit, NextBatch
<1> QED
  BY <1>1, <1>3, <1>4, ReturnKeeps, SaveAndGoKeeps

\* The step that stores a batch and advances the draft's checkpoint over it.
LEMMA BatchUpsertKept ==
  ASSUME JInv, IInv', NEW p \in Procs, BatchUpsert(p)
  PROVE  JInv'
<1>1. work[p].pc = "batch_upsert"
  BY DEF BatchUpsert, AtStep
<1> PICK m \in Migrations, st \in States : m = work[p].mig /\ st = work[p].draft
  BY <1>1, CallFacts
<1>2. /\ m \in Operates[p] /\ Backed(m, st, vectors, backups)
      /\ DraftPhase("batch_upsert", st) /\ Follows("batch_upsert", st, saved[m])
      /\ MigrationKept(m)
      /\ Target(p) = TargetOf[m] /\ SourceArg[m] # TargetOf[m]
      /\ TargetOf[m] \in Namespaces /\ SourceArg[m] \in Namespaces
  BY <1>1, CallFacts
<1>3. st.phase = "backfill" /\ EffectivePhase(st) = "backfill"
  BY <1>2 DEF DraftPhase, EffectivePhase
<1>4. ~st.backup
  BY <1>2, <1>3 DEF Backed
<1>5. st.checkpoint < NumBatches /\ vectors \in [Namespaces -> SUBSET Batches]
  BY <1>1 DEF JInv, IInv, TypeOK, CallSound
<1>6. CASE StoreRaises(p, "backfill")
  BY <1>1, <1>3, <1>4, <1>6, FailureKeeps DEF RunPhases
<1>7. CASE ~StoreRaises(p, "backfill")
  <2> PICK new \in States : new = Advanced(st)
    BY <1>5, AdvanceTyped
  <2>1. /\ new.phase = "backfill" /\ new.source = st.source
        /\ new.checkpoint = st.checkpoint + 1
        /\ (new.validated <=> st.validated) /\ (new.backup <=> st.backup)
    BY DEF Advanced, InPhase, States
  <2>2. EffectivePhase(new) = "backfill"
    BY <2>1 DEF EffectivePhase
  <2>3. /\ vectors' = [vectors EXCEPT ![TargetOf[m]] = @ \cup {st.checkpoint + 1}]
        /\ GotoWith(p, "batch_commit", new)
        /\ UNCHANGED <<saved, active, backups>>
    BY <1>2, <1>7 DEF BatchUpsert
  <2>4. /\ vectors'[TargetOf[m]] = vectors[TargetOf[m]] \cup {st.checkpoint + 1}
        /\ \A n \in Namespaces \ {TargetOf[m]} : vectors'[n] = vectors[n]
    BY <1>2, <1>5, <2>3
  <2>5. vectors[TargetOf[m]] = Batches => vectors'[TargetOf[m]] = Batches
    BY <1>2, <2>4 DEF JInv, IInv, TypeOK
  <2>6. 1..new.checkpoint = 1..st.checkpoint \cup {st.checkpoint + 1}
    BY <2>1 DEF States
  <2>7. 1..new.checkpoint \subseteq vectors'[TargetOf[m]]
    BY <1>2, <1>3, <2>4, <2>6 DEF Backed
  <2>8. Backed(m, new, vectors', backups')
    BY <1>2, <1>3, <1>4, <2>1, <2>2, <2>5, <2>7 DEF Backed
  <2>9. /\ OthersKept(p)
        /\ work'[p] = [pc |-> "batch_commit", mig |-> m, draft |-> new,
                       seen |-> work[p].seen, restore |-> work[p].restore]
    BY <2>3, MoveFacts DEF JInv, Steps, UnlockedSteps
  <2>10. DraftPhase("batch_commit", new)
    BY <2>1 DEF DraftPhase, Contracting, Restoring
  <2>11. Follows("batch_commit", new, saved'[m])
    BY <1>2, <1>3, <2>1, <2>2, <2>3 DEF Follows, Restoring
  <2>12. CallKept(p)'
    BY <1>2, <2>8, <2>9, <2>10, <2>11, SMTT(40) DEF CallKept
  <2>13. MigrationKept(m)'
    BY <1>2, <2>3, <2>4, <2>5 DEF MigrationKept, Kept, Backed
  <2> QED
    BY <1>2, <2>3, <2>4, <2>9, <2>12, <2>13, OwnStepKeeps
<1> QED
  BY <1>6, <1>7

\* validate: a draft is marked validated only when the target is whole.
LEMMA ValidateKept ==
  ASSUME JInv, IInv', NEW p \in Procs, ValidateCheck(p) \/ ValidateSave(p)
  PROVE  JInv'
<1>1. work[p].pc \in {"validate_check", "validate_save"}
  BY DEF ValidateCheck, ValidateSave, AtStep
<1> PICK m \in Migrations, st \in States : m = work[p].mig /\ st = work[p].draft
  BY <1>1, CallFacts
<1>2. /\ Backed(m, st, vectors, backups) /\ DraftPhase(work[p].pc, st)
      /\ Follows(work[p].pc, st, saved[m])
      /\ Target(p) = TargetOf[m] /\ TargetOf[m] \in Namespaces
  BY <1>1, CallFacts
<1>3. EffectivePhase(st) \in {"backfill", "validate"}
  BY <1>1, <1>2 DEF DraftPhase, EffectivePhase
<1>4. ~st.backup
  BY <1>2, <1>3 DEF Backed
<1>5. CASE StoreRaises(p, "validate")
  BY <1>1, <1>3, <1>4, <1>5, FailureKeeps DEF RunPhases
<1>6. CASE ValidateSave(p) /\ ~StoreRaises(p, "validate")
  BY <1>1, <1>6, ReturnKeeps DEF ValidateSave
<1>7. CASE ValidateCheck(p) /\ ~StoreRaises(p, "validate") /\ Passes(Target(p))
  <2> PICK ph \in States : ph = InPhase(st, "validate")
    BY PhaseTyped DEF RunPhases
  <2>1. /\ Backed(m, ph, vectors, backups) /\ EffectivePhase(ph) = "validate"
        /\ ph.phase = "validate" /\ (ph.backup <=> st.backup)
    BY <1>2, <1>3, <1>4, PhaseBacked DEF RunPhases
  <2> PICK new \in States : new = [ph EXCEPT !.validated = TRUE]
    BY ValidatedTyped
  <2>2. /\ new.phase = "validate" /\ new.source = ph.source
        /\ new.checkpoint = ph.checkpoint /\ new.resume = ph.resume
        /\ new.backup = ph.backup
    BY <2>1 DEF States
  <2>3. EffectivePhase(new) = "validate"
    BY <2>2 DEF EffectivePhase
  <2>4. vectors[TargetOf[m]] = Batches
    BY <1>2, <1>7, PassesWhole DEF JInv, IInv, TypeOK, Full
  <2>5. Backed(m, new, vectors, backups)
    BY <1>4, <2>1, <2>2, <2>3, <2>4 DEF Backed
  <2>6. /\ GotoWith(p, "validate_save", new)
        /\ UNCHANGED <<saved, active, vectors, backups>>
    BY <1>7 DEF ValidateCheck
  <2>7. DraftPhase("validate_save", new)
    BY <2>2, <2>3 DEF DraftPhase, Contracting, Restoring
  <2>8. Follows("validate_save", new, saved[m])
    BY <1>1, <1>2, <1>3, <2>1, <2>2, <2>3 DEF Follows, Restoring
  <2> QED
    BY <1>1, <2>5, <2>6, <2>7, <2>8, GoKeeps DEF Steps, UnlockedSteps
<1>8. CASE ValidateCheck(p) /\ ~StoreRaises(p, "validate") /\ ~Passes(Target(p))
  <2> PICK f \in States : f = Failed(st, "validate")
    BY PhaseTyped DEF RunPhases
  <2>1. /\ Backed(m, f, vectors, backups) /\ EffectivePhase(f) = "validate"
        /\ f.phase = "failed" /\ (f.backup <=> st.backup)
    BY <1>2, <1>3, <1>4, FailedBacked DEF RunPhases
  <2> PICK new \in States : new = [f EXCEPT !.validated = FALSE]
    BY ValidatedTyped
  <2>2. /\ new.phase = "failed" /\ new.source = f.source
        /\ new.checkpoint = f.checkpoint /\ new.resume = f.resume
        /\ (new.backup <=> f.backup) /\ ~new.validated
    BY <2>1 DEF States
  <2>3. EffectivePhase(new) = "validate"
    BY <2>1, <2>2 DEF EffectivePhase
  <2>4. Backed(m, new, vectors, backups)
    BY <1>4, <2>1, <2>2, <2>3 DEF Backed
  <2>5. /\ GotoWith(p, "validate_save", new)
        /\ UNCHANGED <<saved, active, vectors, backups>>
    BY <1>8 DEF ValidateCheck
  <2>6. DraftPhase("validate_save", new)
    BY <2>2, <2>3 DEF DraftPhase, Contracting, Restoring
  <2>7. Follows("validate_save", new, saved[m])
    BY <1>1, <1>2, <1>3, <2>1, <2>2, <2>3 DEF Follows, Restoring
  <2> QED
    BY <1>1, <2>4, <2>5, <2>6, <2>7, GoKeeps DEF Steps, UnlockedSteps
<1> QED
  BY <1>5, <1>6, <1>7, <1>8 DEF ValidateCheck

-----------------------------------------------------------------------------
(* The steps of flip and contract                                          *)

\* flip: only a target that was validated, and so is whole, is activated.
LEMMA FlipKept ==
  ASSUME JInv, IInv', NEW p \in Procs,
         FlipPending(p) \/ FlipSwitch(p) \/ FlipDone(p)
  PROVE  JInv'
<1>1. work[p].pc \in {"flip_pending", "flip_cas", "flip_done"}
  BY DEF FlipPending, FlipSwitch, FlipDone, AtStep
<1> PICK m \in Migrations, st \in States : m = work[p].mig /\ st = work[p].draft
  BY <1>1, CallFacts
<1>2. /\ m \in Operates[p] /\ Backed(m, st, vectors, backups)
      /\ DraftPhase(work[p].pc, st) /\ Follows(work[p].pc, st, saved[m])
      /\ MigrationKept(m)
      /\ Target(p) = TargetOf[m] /\ SourceArg[m] # TargetOf[m]
  BY <1>1, CallFacts
<1>3. /\ st.phase = "flip" /\ EffectivePhase(st) = "flip" /\ st.validated
  BY <1>1, <1>2 DEF DraftPhase, EffectivePhase
<1>4. ~st.backup /\ vectors[TargetOf[m]] = Batches
  BY <1>2, <1>3 DEF Backed
<1>5. ASSUME NEW step \in {"flip_cas", "flip_done"}
      PROVE  /\ step \in Steps /\ DraftPhase(step, st)
             /\ Follows(step, st, st)
  BY <1>3 DEF Steps, LockedSteps, DraftPhase, Follows, Contracting, Restoring
<1>6. CASE FlipPending(p)
  BY <1>1, <1>5, <1>6, SaveAndGoKeeps DEF FlipPending
<1>7. CASE FlipDone(p)
  BY <1>1, <1>7, ReturnKeeps DEF FlipDone
<1>8. CASE FlipSwitch(p) /\ (StoreRaises(p, "flip") \/ Refused(p, "flip"))
  BY <1>1, <1>3, <1>4, <1>8, FailureKeeps DEF RunPhases
<1>9. CASE FlipSwitch(p) /\ ~(StoreRaises(p, "flip") \/ Refused(p, "flip"))
  <2>1. /\ active' = Activated(TargetOf[m]) /\ Goto(p, "flip_done")
        /\ UNCHANGED <<saved, vectors, backups>>
    BY <1>2, <1>9 DEF FlipSwitch, CompareAndSet
  <2>2. active'.ns = TargetOf[m]
    BY <2>1 DEF Activated
  <2>3. /\ OthersKept(p)
        /\ work'[p] = [pc |-> "flip_done", mig |-> m, draft |-> st,
                       seen |-> work[p].seen, restore |-> work[p].restore]
    BY <2>1, <1>5, MoveFacts DEF JInv
  <2>4. Follows("flip_done", st, saved[m])
    BY <1>1, <1>2, <1>3 DEF Follows, Restoring
  <2>5. CallKept(p)'
    BY <1>2, <1>5, <2>1, <2>3, <2>4 DEF CallKept
  <2>6. MigrationKept(m)'
    BY <1>2, <1>4, <2>1, <2>2 DEF MigrationKept, Kept
  <2> QED
    BY <1>2, <2>1, <2>2, <2>3, <2>5, <2>6, OwnStepKeeps
<1> QED
  BY <1>6, <1>7, <1>8, <1>9

\* contract: the source is backed up whole, and deleted only when that is on
\* record.
LEMMA ContractKept ==
  ASSUME JInv, IInv', NEW p \in Procs,
         \/ ContractPending(p) \/ ContractBackup(p) \/ ContractRecord(p)
         \/ ContractCheck(p) \/ ContractDelete(p) \/ ContractDone(p)
  PROVE  JInv'
<1>1. work[p].pc \in Contracting \cup {"contract_done"}
  BY DEF ContractPending, ContractBackup, ContractRecord, ContractCheck,
         ContractDelete, ContractDone, AtStep, Contracting
<1>2. work[p].pc # "idle"
  BY <1>1 DEF Contracting
<1> PICK m \in Migrations, st \in States : m = work[p].mig /\ st = work[p].draft
  BY <1>2, CallFacts
<1>3. /\ m \in Operates[p] /\ Backed(m, st, vectors, backups)
      /\ DraftPhase(work[p].pc, st) /\ Follows(work[p].pc, st, saved[m])
      /\ MigrationKept(m)
      /\ Source(p) = SourceArg[m] /\ SourceArg[m] \in Namespaces
      /\ TargetOf[m] \in Namespaces /\ SourceArg[m] # TargetOf[m]
      /\ Target(p) = TargetOf[m]
  BY <1>2, CallFacts
<1>4. st.phase \in {"contract", "complete"} /\ EffectivePhase(st) = st.phase
  BY <1>1, <1>3 DEF DraftPhase, EffectivePhase
<1>5. vectors \in [Namespaces -> SUBSET Batches] /\ backups \in [Namespaces -> SUBSET Batches]
  BY DEF JInv, IInv, TypeOK
<1>6. ASSUME NEW step \in {"contract_check", "contract_backup", "contract_delete"},
             st.phase = "contract", step # "contract_backup" <=> st.backup
      PROVE  /\ step \in Steps /\ DraftPhase(step, st)
             /\ Follows(step, st, st)
  BY <1>4, <1>6 DEF Steps, LockedSteps, DraftPhase, Follows, Contracting, Restoring
<1>7. CASE ContractPending(p)
  <2> PICK step \in {"contract_check", "contract_backup"} :
        step = IF st.backup THEN "contract_check" ELSE "contract_backup"
    OBVIOUS
  <2>1. /\ Save(p, work[p].draft) /\ Goto(p, step)
        /\ UNCHANGED <<active, vectors, backups>>
    BY <1>7 DEF ContractPending
  <2>2. st.phase = "contract" /\ (step # "contract_backup" <=> st.backup)
    BY <1>3, <1>7 DEF ContractPending, AtStep, DraftPhase, Contracting, States
  <2> QED
    BY <1>2, <1>6, <2>1, <2>2, SaveAndGoKeeps
<1>8. CASE ContractRecord(p)
  <2>1. st.phase = "contract" /\ st.backup
    BY <1>3, <1>8 DEF ContractRecord, AtStep, DraftPhase, Contracting, Follows
  <2> QED
    BY <1>2, <1>6, <1>8, <2>1, SaveAndGoKeeps DEF ContractRecord
<1>9. CASE ContractDone(p)
  BY <1>2, <1>9, ReturnKeeps DEF ContractDone
<1>10. CASE /\ ContractBackup(p) \/ ContractCheck(p) \/ ContractDelete(p)
            /\ StoreRaises(p, "contract") \/ Refused(p, "contract")
  <2>1. work[p].pc \notin {"idle", "contract_record"} /\ EffectivePhase(st) # "rollback"
    BY <1>4, <1>10 DEF ContractBackup, ContractCheck, ContractDelete, AtStep
  <2> QED
    BY <1>10, <2>1, FailureKeeps DEF RunPhases
<1>11. CASE ContractCheck(p) /\ ~Refused(p, "contract")
  <2>1. /\ Goto(p, "contract_delete") /\ UNCHANGED <<saved, active, vectors, backups>>
        /\ work[p].pc = "contract_check"
    BY <1>11 DEF ContractCheck, OwnerCheck, AtStep
  <2>2. st.phase = "contract" /\ st.backup
    BY <1>3, <2>1 DEF DraftPhase, Contracting, Follows
  <2>3. Follows("contract_delete", st, saved[m])
    BY <1>3, <2>1, <2>2 DEF Follows, Restoring
  <2> QED
    BY <1>2, <1>3, <1>6, <2>1, <2>2, <2>3, GoKeeps
<1>12. CASE ContractBackup(p) /\ ~StoreRaises(p, "contract")
  <2> PICK new \in States : new = [st EXCEPT !.backup = TRUE]
    BY ValidatedTyped
  <2>1. /\ new.phase = st.phase /\ new.source = st.source
        /\ new.checkpoint = st.checkpoint /\ new.resume = st.resume
        /\ (new.validated <=> st.validated) /\ new.backup
    BY DEF States
  <2>2. /\ backups' = [backups EXCEPT ![SourceArg[m]] = vectors[SourceArg[m]]]
        /\ GotoWith(p, "contract_record", new)
        /\ UNCHANGED <<saved, active, vectors>>
        /\ work[p].pc = "contract_backup"
    BY <1>3, <1>12 DEF ContractBackup, AtStep
  <2>3. st.phase = "contract" /\ ~st.backup /\ ~saved[m].backup
    BY <1>3, <2>2 DEF DraftPhase, Contracting, Follows
  <2>4. vectors[SourceArg[m]] = Batches
    BY <1>3, <2>3 DEF MigrationKept, Kept
  <2>5. /\ backups'[SourceArg[m]] = Batches
        /\ \A n \in Namespaces \ {SourceArg[m]} : backups'[n] = backups[n]
    BY <1>3, <1>5, <2>2, <2>4
  <2>6. EffectivePhase(new) = "contract"
    BY <2>1, <2>3, SMTT(40) DEF EffectivePhase
  <2>7. Backed(m, new, vectors', backups')
    BY <1>3, <1>4, <2>1, <2>2, <2>3, <2>5, <2>6 DEF Backed
  <2>8. /\ OthersKept(p)
        /\ work'[p] = [pc |-> "contract_record", mig |-> m, draft |-> new,
                       seen |-> work[p].seen, restore |-> work[p].restore]
    BY <2>2, MoveFacts DEF JInv, Steps, LockedSteps
  <2>9. DraftPhase("contract_record", new)
    BY <2>1, <2>3 DEF DraftPhase, Contracting, Restoring
  <2>10. Follows("contract_record", new, saved[m])
    BY <1>3, <1>4, <2>1, <2>2, SMTT(40) DEF Follows, Restoring
  <2>11. CallKept(p)'
    BY <1>3, <2>2, <2>7, <2>8, <2>9, <2>10 DEF CallKept
  <2>12. MigrationKept(m)'
    BY <1>3, <2>2, <2>3, <2>4, <2>5 DEF MigrationKept, Kept, Backed
  <2> QED
    BY <1>3, <2>2, <2>5, <2>8, <2>11, <2>12, OwnStepKeeps
<1>13. CASE ContractDelete(p) /\ ~StoreRaises(p, "contract")
  <2> PICK new \in States : new = InPhase(st, "complete")
    BY PhaseTyped DEF RunPhases
  <2>1. /\ vectors' = [vectors EXCEPT ![SourceArg[m]] = {}]
        /\ GotoWith(p, "contract_done", new)
        /\ UNCHANGED <<saved, active, backups>>
        /\ work[p].pc = "contract_delete"
    BY <1>3, <1>13 DEF ContractDelete, DeleteNamespace, AtStep
  <2>2. st.backup /\ saved[m].backup
    BY <1>3, <2>1 DEF Follows
  <2>3. /\ Backed(m, new, vectors, backups) /\ new.phase = "complete"
        /\ EffectivePhase(new) = "complete" /\ (new.backup <=> st.backup)
    BY <1>3, <1>4, PhaseBacked DEF RunPhases
  <2>4. vectors'[TargetOf[m]] = vectors[TargetOf[m]]
        /\ \A n \in Namespaces \ {SourceArg[m]} : vectors'[n] = vectors[n]
    BY <1>3, <1>5, <2>1
  <2>5. active.ns # SourceArg[m]
    BY <1>3, <2>1 DEF JInv, IInv, CallSound
  <2>6. Backed(m, new, vectors', backups')
    BY <2>1, <2>3, <2>4 DEF Backed
  <2>7. /\ OthersKept(p)
        /\ work'[p] = [pc |-> "contract_done", mig |-> m, draft |-> new,
                       seen |-> work[p].seen, restore |-> work[p].restore]
    BY <2>1, MoveFacts DEF JInv, Steps, LockedSteps
  <2>8. DraftPhase("contract_done", new)
    BY <2>3 DEF DraftPhase, Contracting, Restoring
  <2>9. Follows("contract_done", new, saved[m])
    BY <1>3, <1>4, <2>1, <2>2, <2>3 DEF Follows, Restoring
  <2>10. CallKept(p)'
    BY <1>3, <2>1, <2>6, <2>7, <2>8, <2>9 DEF CallKept
  <2>11. MigrationKept(m)'
    BY <1>3, <2>1, <2>2, <2>4, <2>5 DEF MigrationKept, Kept, Backed
  <2> QED
    BY <1>3, <2>1, <2>4, <2>7, <2>10, <2>11, OwnStepKeeps
<1>14. \/ ContractPending(p) \/ ContractRecord(p) \/ ContractDone(p)
       \/ ContractBackup(p) \/ ContractCheck(p) \/ ContractDelete(p)
  OBVIOUS
<1> QED
  BY <1>7, <1>8, <1>9, <1>10, <1>11, <1>12, <1>13, <1>14

-----------------------------------------------------------------------------
(* The steps of rollback and retry                                         *)

\* rollback: its further steps run when the durable state says so, after which
\* the target is not relied on.
LEMMA RollbackKept ==
  ASSUME JInv, IInv', NEW p \in Procs,
         \/ RollbackPending(p) \/ RollbackRestore(p) \/ RollbackActivate(p)
         \/ RollbackSwitch(p) \/ RollbackCheck(p) \/ RollbackDelete(p)
         \/ RollbackDone(p)
  PROVE  JInv'
<1>1. work[p].pc \in {"rollback_pending"} \cup Restoring
  BY DEF RollbackPending, RollbackRestore, RollbackActivate, RollbackSwitch,
         RollbackCheck, RollbackDelete, RollbackDone, AtStep, Restoring
<1>2. work[p].pc \notin {"idle", "contract_record"}
  BY <1>1 DEF Restoring
<1> PICK m \in Migrations, st \in States : m = work[p].mig /\ st = work[p].draft
  BY <1>2, CallFacts
<1>3. /\ m \in Operates[p] /\ Backed(m, st, vectors, backups)
      /\ DraftPhase(work[p].pc, st) /\ Follows(work[p].pc, st, saved[m])
      /\ MigrationKept(m)
      /\ Source(p) = SourceArg[m] /\ SourceArg[m] \in Namespaces
      /\ TargetOf[m] \in Namespaces /\ SourceArg[m] # TargetOf[m]
      /\ Target(p) = TargetOf[m]
  BY <1>2, CallFacts
<1>4. st.phase = "rollback" /\ EffectivePhase(st) = "rollback"
  BY <1>1, <1>3 DEF DraftPhase, EffectivePhase
<1>5. vectors \in [Namespaces -> SUBSET Batches] /\ backups \in [Namespaces -> SUBSET Batches]
  BY DEF JInv, IInv, TypeOK
<1>6. ASSUME NEW step \in Restoring
      PROVE  /\ step \in Steps /\ DraftPhase(step, st)
             /\ Follows(step, st, st)
  BY <1>4 DEF Steps, LockedSteps, DraftPhase, Follows, Contracting, Restoring
\* once the rollback is on record its further steps follow the durable state
<1>7. ASSUME NEW step \in Restoring, work[p].pc # "rollback_pending"
      PROVE  Follows(step, st, saved[m])
  BY <1>1, <1>3, <1>4, <1>7 DEF Follows, Restoring
<1>8. CASE RollbackPending(p)
  <2> PICK step \in Restoring :
        step = IF work[p].restore THEN "rollback_restore" ELSE "rollback_activate"
    BY DEF Restoring
  <2>1. /\ Save(p, work[p].draft) /\ Goto(p, step)
        /\ UNCHANGED <<active, vectors, backups>>
    BY <1>8 DEF RollbackPending
  <2> QED
    BY <1>2, <1>6, <2>1, SaveAndGoKeeps
<1>9. CASE RollbackDone(p)
  BY <1>2, <1>9, ReturnKeeps DEF RollbackDone
<1>10. CASE StoreRaises(p, "rollback") \/ Refused(p, "rollback")
  BY <1>2, <1>10, FailureKeeps DEF RunPhases
<1>11. CASE RollbackCheck(p) /\ ~Refused(p, "rollback")
  <2>1. /\ Goto(p, "rollback_delete") /\ UNCHANGED <<saved, active, vectors, backups>>
        /\ work[p].pc # "rollback_pending"
    BY <1>11 DEF RollbackCheck, OwnerCheck, AtStep
  <2> QED
    BY <1>2, <1>3, <1>6, <1>7, <2>1, GoKeeps DEF Restoring
<1>12. CASE /\ RollbackActivate(p)
            /\ ~StoreRaises(p, "rollback") /\ ~Refused(p, "rollback")
  <2> PICK step \in Restoring :
        step = IF active.ns = Source(p) THEN "rollback_check" ELSE "rollback_cas"
    BY DEF Restoring
  <2>1. /\ GotoSeeing(p, step, active)
        /\ UNCHANGED <<saved, active, vectors, backups>>
        /\ work[p].pc # "rollback_pending"
    BY <1>12 DEF RollbackActivate, AtStep
  <2>2. /\ OthersKept(p)
        /\ work'[p].pc = step /\ work'[p].mig = m /\ work'[p].draft = st
    <3>1. work[p] \in Works /\ work \in [Procs -> Works] /\ active \in ActiveModels
      BY DEF JInv, IInv, TypeOK
    <3>2. Call(step, m, st, active, work[p].restore) \in Works
      BY <1>6, <3>1 DEF Call, Works
    <3> QED
      BY <2>1, <3>1, <3>2 DEF GotoSeeing, Enter, Call, OthersKept
  <2> QED
    BY <1>2, <1>3, <1>6, <1>7, <2>1, <2>2, MovingKeeps
<1>13. CASE /\ RollbackSwitch(p)
            /\ ~StoreRaises(p, "rollback") /\ ~Refused(p, "rollback")
  <2>1. /\ active' = Activated(SourceArg[m])
        /\ GotoSeeing(p, "rollback_check", Activated(SourceArg[m]))
        /\ UNCHANGED <<saved, vectors, backups>>
        /\ work[p].pc = "rollback_cas"
    BY <1>3, <1>13 DEF RollbackSwitch, CompareAndSet, AtStep
  <2>2. active'.ns = SourceArg[m]
    BY <2>1 DEF Activated
  <2>3. /\ OthersKept(p)
        /\ work'[p].pc = "rollback_check" /\ work'[p].mig = m
        /\ work'[p].draft = st
    <3>1. work[p] \in Works /\ work \in [Procs -> Works] /\ active' \in ActiveModels
      BY DEF JInv, IInv, TypeOK
    <3>2. Call("rollback_check", m, st, active', work[p].restore) \in Works
      BY <3>1 DEF Call, Works, Steps, LockedSteps
    <3> QED
      BY <2>1, <3>1, <3>2 DEF GotoSeeing, Enter, Call, OthersKept
  <2>4. EffectivePhase(saved[m]) = "rollback"
    BY <1>3, <2>1 DEF Follows, Restoring
  <2>5. MigrationKept(m)'
    BY <1>3, <2>1, <2>2, <2>4 DEF MigrationKept, Kept
  <2>6. CallKept(p)'
    <3>1. "rollback_check" \in Restoring /\ work[p].pc # "rollback_pending"
      BY <2>1 DEF Restoring
    <3>2. /\ DraftPhase("rollback_check", st)
          /\ Follows("rollback_check", st, saved'[m])
      BY <1>6, <1>7, <2>1, <3>1
    <3> QED
      BY <1>3, <2>1, <2>3, <3>2 DEF CallKept
  <2> QED
    BY <1>3, <2>1, <2>2, <2>3, <2>5, <2>6, OwnStepKeeps
<1>14. CASE RollbackRestore(p) /\ ~StoreRaises(p, "rollback")
  <2>1. /\ vectors' = [vectors EXCEPT ![SourceArg[m]] = @ \cup backups[SourceArg[m]]]
        /\ Goto(p, "rollback_activate")
        /\ UNCHANGED <<saved, active, backups>>
        /\ work[p].pc = "rollback_restore"
    BY <1>3, <1>14 DEF RollbackRestore, AtStep
  <2>2. /\ vectors'[SourceArg[m]] = vectors[SourceArg[m]] \cup backups[SourceArg[m]]
        /\ \A n \in Namespaces \ {SourceArg[m]} : vectors'[n] = vectors[n]
    BY <1>3, <1>5, <2>1
  <2>3. vectors[SourceArg[m]] = Batches => vectors'[SourceArg[m]] = Batches
    BY <1>3, <1>5, <2>2
  <2>4. vectors'[TargetOf[m]] = vectors[TargetOf[m]]
    BY <1>3, <2>2
  <2>5. /\ OthersKept(p)
        /\ work'[p] = [pc |-> "rollback_activate", mig |-> m, draft |-> st,
                       seen |-> work[p].seen, restore |-> work[p].restore]
    BY <2>1, MoveFacts, SMTT(40) DEF JInv, Steps, LockedSteps
  <2>6. Backed(m, st, vectors', backups')
    BY <1>3, <2>1, <2>4 DEF Backed
  <2>7. CallKept(p)'
    <3>1. "rollback_activate" \in Restoring /\ work[p].pc # "rollback_pending"
      BY <2>1 DEF Restoring
    <3>2. /\ DraftPhase("rollback_activate", st)
          /\ Follows("rollback_activate", st, saved'[m])
      BY <1>6, <1>7, <2>1, <3>1, SMTT(40)
    <3> QED
      BY <1>3, <2>5, <2>6, <3>2 DEF CallKept
  <2>8. MigrationKept(m)'
    BY <1>3, <2>1, <2>3, <2>4 DEF MigrationKept, Kept, Backed
  <2> QED
    BY <1>3, <2>1, <2>2, <2>5, <2>7, <2>8, OwnStepKeeps
<1>15. CASE RollbackDelete(p) /\ ~StoreRaises(p, "rollback")
  <2>1. /\ vectors' = [vectors EXCEPT ![TargetOf[m]] = {}]
        /\ Goto(p, "rollback_done")
        /\ UNCHANGED <<saved, active, backups>>
        /\ work[p].pc = "rollback_delete"
    BY <1>3, <1>15 DEF RollbackDelete, DeleteNamespace, AtStep
  <2>2. /\ vectors'[SourceArg[m]] = vectors[SourceArg[m]]
        /\ \A n \in Namespaces \ {TargetOf[m]} : vectors'[n] = vectors[n]
    BY <1>3, <1>5, <2>1
  <2>3. active.ns # TargetOf[m]
    BY <1>3, <2>1 DEF JInv, IInv, CallSound
  <2>4. EffectivePhase(saved[m]) = "rollback"
    BY <1>3, <2>1 DEF Follows, Restoring
  <2>5. /\ OthersKept(p)
        /\ work'[p] = [pc |-> "rollback_done", mig |-> m, draft |-> st,
                       seen |-> work[p].seen, restore |-> work[p].restore]
    BY <2>1, MoveFacts DEF JInv, Steps, LockedSteps
  <2>6. Backed(m, st, vectors', backups')
    BY <1>3, <1>4, <2>1 DEF Backed
  <2>7. CallKept(p)'
    <3>1. "rollback_done" \in Restoring /\ work[p].pc # "rollback_pending"
      BY <2>1 DEF Restoring
    <3>2. /\ DraftPhase("rollback_done", st)
          /\ Follows("rollback_done", st, saved'[m])
      BY <1>6, <1>7, <2>1, <3>1
    <3> QED
      BY <1>3, <2>5, <2>6, <3>2 DEF CallKept
  <2>8. MigrationKept(m)'
    BY <1>3, <2>1, <2>2, <2>3, <2>4 DEF MigrationKept, Kept, Backed
  <2> QED
    BY <1>3, <2>1, <2>2, <2>5, <2>7, <2>8, OwnStepKeeps
<1> QED
  BY <1>8, <1>9, <1>10, <1>11, <1>12, <1>13, <1>14, <1>15

\* The calls that end by saving their draft.
LEMMA EndKept ==
  ASSUME JInv, IInv', NEW p \in Procs, SaveFailure(p) \/ RetrySave(p)
  PROVE  JInv'
<1>1. work[p].pc # "idle"
  BY DEF SaveFailure, RetrySave, AtStep
<1> QED
  BY <1>1, ReturnKeeps DEF SaveFailure, RetrySave

\* A crash, or another program that selects a model of its own.
LEMMA EnvironmentKept ==
  ASSUME JInv, IInv', \/ \E n \in Foreign : ForeignActivate(n)
                      \/ \E p \in Procs : Crash(p)
  PROVE  JInv'
<1>1. ASSUME NEW p \in Procs, Crash(p) PROVE JInv'
  <2>1. work[p].pc # "idle" /\ UNCHANGED <<saved, active, vectors, backups>>
    BY <1>1 DEF Crash
  <2> PICK m \in Migrations : m = work[p].mig /\ m \in Operates[p]
    BY <2>1, CallFacts
  <2>2. OthersKept(p) /\ work'[p] = Idle
    BY <1>1, MoveFacts, DefaultsTyped DEF Crash, JInv, Steps
  <2> QED
    BY <2>1, <2>2, IdleKept, WorkKeeps
<1>2. ASSUME NEW n \in Foreign, ForeignActivate(n) PROVE JInv'
  <2>1. active'.ns = n /\ UNCHANGED <<saved, vectors, backups, work>>
    BY <1>2 DEF ForeignActivate, Activated
  <2>2. active'.ns \notin Namespaces
    BY <2>1
  <2>3. ASSUME NEW m \in Migrations PROVE MigrationKept(m)'
    <3>1. SourceArg[m] \in Namespaces /\ TargetOf[m] \in Namespaces
      BY DEF JInv, Separate
    <3> QED
      BY <2>1, <2>2, <3>1 DEF JInv, MigrationKept, Kept
  <2>4. ASSUME NEW p \in Procs PROVE CallKept(p)'
    BY <2>1 DEF JInv, CallKept
  <2>5. OthersWhole' /\ Separate'
    BY <2>1, <2>2 DEF JInv, OthersWhole, Full, Separate
  <2> QED
    BY <2>3, <2>4, <2>5 DEF JInv
<1> QED
  BY <1>1, <1>2

\* The first state: no migration, the corpus in every filled namespace.
LEMMA InitKept == Separate /\ Init => JInv
<1> SUFFICES ASSUME Separate, Init PROVE JInv
  OBVIOUS
<1>1. \A n \in Filled : vectors[n] = Batches
  BY DEF Init
<1>2. active.ns \in Filled \cup {NoModel}
  BY DEF Init, NoActive
<1>3. ASSUME NEW m \in Migrations PROVE MigrationKept(m)
  <2>1. saved[m].phase = "absent" /\ ~saved[m].backup
    BY DEF Init, Absent
  <2>2. SourceArg[m] \in Filled /\ TargetOf[m] \notin Filled
        /\ TargetOf[m] # NoModel
    BY DEF Separate
  <2> QED
    BY <1>1, <1>2, <2>1, <2>2 DEF MigrationKept, Kept
<1>4. ASSUME NEW p \in Procs PROVE CallKept(p)
  BY DEF Init, CallKept, Idle
<1>5. OthersWhole
  BY <1>1, <1>2 DEF OthersWhole, Full
<1> QED
  BY <1>3, <1>4, <1>5, InitSound DEF JInv

\* Every step keeps the invariant.
LEMMA NextKept == JInv /\ [Next]_vars => JInv'
<1> SUFFICES ASSUME JInv, [Next]_vars PROVE JInv'
  OBVIOUS
<1>1. IInv'
  BY NextSound DEF JInv
<1>2. ASSUME NEW p \in Procs, NEW m \in Migrations, Begin(p, m) PROVE JInv'
  BY <1>1, <1>2, BeginKept
<1>3. ASSUME NEW p \in Procs, Step(p) PROVE JInv'
  BY <1>1, <1>3, ExpandKept, BackfillKept, BatchUpsertKept, ValidateKept,
     FlipKept, ContractKept, RollbackKept, EndKept DEF Step
<1>4. CASE (\E n \in Foreign : ForeignActivate(n)) \/ \E p \in Procs : Crash(p)
  BY <1>1, <1>4, EnvironmentKept
<1>5. CASE UNCHANGED vars
  BY <1>1, <1>5 DEF vars, JInv, Separate, MigrationKept, CallKept, OthersWhole, Full
<1> QED
  BY <1>2, <1>3, <1>4, <1>5 DEF Next

-----------------------------------------------------------------------------
(* Theorems                                                                *)

\* The drafts, the durable states and the namespaces agree in every behaviour
\* in which each migration has one operator and namespaces of its own.
THEOREM CorpusKeptAlways == Separate /\ Spec => []JInv
  BY InitKept, NextKept, PTL DEF Spec

\* The checkpoint is never ahead of the vectors, however often backfill fails,
\* crashes and is resumed: it is advanced in a draft only after its batch is
\* stored, and no step but the deletion by a rollback takes vectors away.
THEOREM CheckpointAlwaysBacked == Separate /\ Spec => []CheckpointBacked
<1>1. JInv => CheckpointBacked
  <2> SUFFICES ASSUME JInv, NEW m \in Migrations,
                      EffectivePhase(saved[m]) \in {"backfill", "validate", "flip"}
               PROVE  1..saved[m].checkpoint \subseteq vectors[TargetOf[m]]
    BY DEF CheckpointBacked
  <2>1. saved[m].phase # "absent" /\ EffectivePhase(saved[m]) # "rollback"
    BY DEF EffectivePhase
  <2> QED
    BY <2>1 DEF JInv, MigrationKept, Kept, Backed
<1> QED
  BY <1>1, CorpusKeptAlways, PTL

\* The corpus can always be recovered: contract deletes a source only when a
\* backup of the whole of it is on record, and nothing takes that back.
THEOREM SourceAlwaysRecoverable == Separate /\ Spec => []SourceRecoverable
<1>1. JInv => SourceRecoverable
  <2> SUFFICES ASSUME JInv, NEW n \in Filled, ~Full(n)
               PROVE  /\ backups[n] = Batches
                      /\ \E m \in Migrations : saved[m].source = n /\ saved[m].backup
    BY DEF SourceRecoverable
  <2> PICK m \in Migrations : n = SourceArg[m]
    BY DEF JInv, OthersWhole
  <2>1. saved[m].backup /\ saved[m].phase # "absent"
    BY DEF JInv, MigrationKept, Kept, Full
  <2>2. Backed(m, saved[m], vectors, backups)
    BY <2>1 DEF JInv, MigrationKept, Kept
  <2> QED
    BY <2>1, <2>2 DEF Backed
<1> QED
  BY <1>1, CorpusKeptAlways, PTL

\* Queries are answered from the whole corpus: a model is activated only
\* while it is whole, except a source that a rollback is restoring.
THEOREM ActiveAlwaysServesCorpus == Separate /\ Spec => []ActiveServesCorpus
<1>1. JInv => ActiveServesCorpus
  <2> SUFFICES ASSUME JInv, active.ns \in Namespaces,
                      \A m \in Migrations : ~RestoringSource(m)
               PROVE  Full(active.ns)
    BY DEF ActiveServesCorpus
  <2>1. ASSUME NEW m \in Migrations, active.ns = TargetOf[m] PROVE Full(active.ns)
    BY <2>1 DEF JInv, MigrationKept, Kept, Full
  <2>2. ASSUME NEW m \in Migrations, active.ns = SourceArg[m] PROVE Full(active.ns)
    BY <2>2 DEF JInv, MigrationKept, Kept, Full, RestoringSource
  <2>3. active.ns \in Filled => Full(active.ns) \/ \E m \in Migrations : active.ns = SourceArg[m]
    BY DEF JInv, OthersWhole
  <2>4. active.ns \in Filled \/ \E m \in Migrations : active.ns = TargetOf[m]
    BY DEF JInv, OthersWhole
  <2> QED
    BY <2>1, <2>2, <2>3, <2>4
<1> QED
  BY <1>1, CorpusKeptAlways, PTL

\* As long as no contracted source has to be restored, migrations implement
\* the serving model: queries see the model switch in one step, only to a
\* whole namespace or a foreign one, and what serves is never taken apart.
THEOREM ServingImplemented ==
  Separate /\ Spec /\ [](\A m \in Migrations : ~RestoringSource(m))
    => ImplementsServing
<1> DEFINE Unrestored == \A m \in Migrations : ~RestoringSource(m)
<1>1. ActiveServesCorpus /\ Unrestored /\ Init => Serving!Init
  BY DEF Serving!Init, ActiveServesCorpus, Init, NoActive, Full
<1>2. ASSUME JInv, [Next]_vars
      PROVE  \/ UNCHANGED active
             \/ UNCHANGED vectors /\ active'.ns \in Namespaces \cup Foreign
  <2>1. ASSUME NEW p \in Procs, FlipSwitch(p), active' # active
        PROVE  UNCHANGED vectors /\ active'.ns \in Namespaces \cup Foreign
    <3>1. active' = Activated(Target(p)) /\ UNCHANGED vectors
      BY <2>1 DEF FlipSwitch, CompareAndSet, Refused, StoreRaises
    <3>2. Target(p) \in Namespaces
      BY <1>2, <2>1, CallFacts DEF FlipSwitch, AtStep
    <3> QED
      BY <3>1, <3>2 DEF Activated
  <2>2. ASSUME NEW p \in Procs, RollbackSwitch(p), active' # active
        PROVE  UNCHANGED vectors /\ active'.ns \in Namespaces \cup Foreign
    <3>1. active' = Activated(Source(p)) /\ UNCHANGED vectors
      BY <2>2 DEF RollbackSwitch, CompareAndSet, Refused, StoreRaises
    <3>2. Source(p) \in Namespaces
      BY <1>2, <2>2, CallFacts DEF RollbackSwitch, AtStep
    <3> QED
      BY <3>1, <3>2 DEF Activated
  <2>3. ASSUME NEW p \in Procs, Step(p), ~FlipSwitch(p), ~RollbackSwitch(p)
        PROVE  UNCHANGED active
    BY <2>3
       DEF Step, SaveFailure, ExpandEnsure, ExpandSave, BackfillSave,
           BatchAttempt, BatchUpsert, BatchCommit, ValidateCheck,
           ValidateSave, FlipPending, FlipDone, ContractPending,
           ContractBackup, ContractRecord, ContractCheck, ContractDelete,
           ContractDone, RollbackPending, RollbackRestore, RollbackActivate,
           RollbackCheck, RollbackDelete, RollbackDone, RetrySave,
           StoreRaises, Refused, OwnerCheck
  <2>4. ASSUME NEW p \in Procs, NEW m \in Migrations, Begin(p, m)
        PROVE  UNCHANGED active
    BY <2>4 DEF Begin, BeginExpand, BeginBackfill, BeginValidate, BeginFlip,
                BeginContract, BeginRollback, BeginRetry
  <2>5. ASSUME NEW p \in Procs, Crash(p) PROVE UNCHANGED active
    BY <2>5 DEF Crash
  <2>6. ASSUME NEW n \in Foreign, ForeignActivate(n)
        PROVE  UNCHANGED vectors /\ active'.ns \in Namespaces \cup Foreign
    BY <2>6 DEF ForeignActivate, Activated
  <2>7. CASE UNCHANGED vars
    BY <2>7 DEF vars
  <2> QED
    BY <1>2, <2>1, <2>2, <2>3, <2>4, <2>5, <2>6, <2>7 DEF Next
<1>3. ASSUME JInv, [Next]_vars, ActiveServesCorpus', Unrestored'
      PROVE  [Serving!Next]_(Serving!vars)
  <2>1. active'.ns \in Namespaces => vectors'[active'.ns] = Batches
    BY <1>3 DEF ActiveServesCorpus, Full
  <2>2. CASE UNCHANGED active
    <3>1. active.ns \in {n \in Namespaces : Full(n)}
            => active.ns \in {n \in Namespaces : Full(n)'}
      BY <2>1, <2>2 DEF Full
    <3>2. Serving!Rebuild
      BY <2>2, <3>1 DEF Serving!Rebuild, Full
    <3> QED
      BY <3>2 DEF Serving!Next
  <2>3. CASE UNCHANGED vectors /\ active'.ns \in Namespaces \cup Foreign
    <3>1. active'.ns \in {n \in Namespaces : Full(n)} \cup Foreign
      BY <2>1, <2>3 DEF Full
    <3>2. UNCHANGED {n \in Namespaces : Full(n)}
      BY <2>3 DEF Full
    <3>3. Serving!Switch(active'.ns)
      BY <3>1, <3>2 DEF Serving!Switch
    <3> QED
      BY <2>3, <3>3 DEF Serving!Next
  <2> QED
    BY <1>2, <1>3, <2>2, <2>3
<1> QED
  BY <1>1, <1>3, CorpusKeptAlways, ActiveAlwaysServesCorpus, PTL
     DEF Spec, ImplementsServing, Serving!Spec
=============================================================================
