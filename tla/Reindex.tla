------------------------------ MODULE Reindex ------------------------------
(***************************************************************************)
(* The durable embedding-model migration of searchkernel/runtime/reindex.py *)
(* (ReindexRoutine) over a ModelLifecycleStore (ports/reindex.py).          *)
(*                                                                         *)
(* A migration moves the corpus from a source to a target model namespace: *)
(* expand, backfill, validate, flip the active model, contract the old     *)
(* namespace; or roll back.  Every call of a process is a sequence of      *)
(* steps, one per store call, so that other processes, foreign changes of  *)
(* the active model, failing calls and crashes fall between them.          *)
(*                                                                         *)
(* The corpus is NumBatches batches of records.  A call that the code      *)
(* refuses before it changes anything (a wrong phase, a wrong              *)
(* old_model_name, another corpus) is a disabled action.  `attempts`,      *)
(* `error`, timestamps and the rollback metadata are left out: nothing     *)
(* reads them back to decide anything.                                     *)
(***************************************************************************)
EXTENDS Naturals, FiniteSets

CONSTANTS
  Procs,        \* processes that hold a ReindexRoutine
  Migrations,   \* migration ids
  Namespaces,   \* model namespaces the migrations move between
  Foreign,      \* namespaces only other programs activate
  NoModel,      \* stands for None where a namespace is expected
  Free,         \* the value of the transition lock nobody holds
  TargetOf,     \* migration -> target namespace
  SourceArg,    \* migration -> source_namespace argument, or NoModel
  Operates,     \* process -> the migrations it works on
  Ops,          \* process -> the operations its operator uses
  NumBatches,   \* batches in the corpus
  Filled,       \* namespaces that hold the whole corpus at the start
  MaxGeneration,\* bound on foreign changes of the active model
  MaxFaults     \* bound on crashes and failing store calls

AllOps == {"expand", "backfill", "validate", "flip", "contract", "rollback",
           "retry"}

ASSUME NamespaceAssumption ==
  /\ NoModel \notin Namespaces \cup Foreign
  /\ Foreign \cap Namespaces = {}
  /\ Free \notin Procs
  /\ TargetOf \in [Migrations -> Namespaces]
  /\ SourceArg \in [Migrations -> Namespaces \cup {NoModel}]
  /\ Operates \in [Procs -> SUBSET Migrations]
  /\ Ops \in [Procs -> SUBSET AllOps]
  /\ Filled \subseteq Namespaces

\* A process that reads its source from the active model is used only where
\* no other program activates models.
ASSUME SourceAssumption ==
  Foreign # {} => \A m \in Migrations : SourceArg[m] # NoModel

ASSUME BoundAssumption ==
  /\ NumBatches \in Nat \ {0}
  /\ MaxGeneration \in Nat
  /\ MaxFaults \in Nat

VARIABLES
  saved,    \* migration id -> durable MigrationState
  active,   \* durable ActiveModelMetadata
  ensured,  \* namespaces ensure_namespace has created
  vectors,  \* namespace -> batches stored in it
  backups,  \* namespace -> batches in its backup file
  lock,     \* holder of the durable transition lock
  work,     \* process -> the call it is executing
  faults    \* crashes and failures so far

vars == <<saved, active, ensured, vectors, backups, lock, work, faults>>

-----------------------------------------------------------------------------
(* Data: domain/reindex.py                                                 *)

Batches == 1..NumBatches

RunPhases == {"init", "expand", "backfill", "validate", "flip", "contract",
              "rollback", "complete"}

\* MigrationState; phase "absent" is load_migration returning None.
States == [phase : RunPhases \cup {"failed", "absent"},
           source : Namespaces \cup {NoModel},
           checkpoint : 0..NumBatches,
           validated : BOOLEAN,
           backup : BOOLEAN,
           resume : RunPhases \cup {"none"}]

Absent == [phase |-> "absent", source |-> NoModel, checkpoint |-> 0,
           validated |-> FALSE, backup |-> FALSE, resume |-> "none"]

\* ActiveModelMetadata; no active model is namespace NoModel, generation 0.
ActiveModels == [ns : Namespaces \cup Foreign \cup {NoModel}, gen : Nat]

NoActive == [ns |-> NoModel, gen |-> 0]

Activated(n) == [ns |-> n, gen |-> active.gen + 1]

\* replace(state, phase=..., error=None, resume_phase=None)
InPhase(st, ph) == [st EXCEPT !.phase = ph, !.resume = "none"]

\* the state after one more batch, still in phase BACKFILL
Advanced(st) == InPhase([st EXCEPT !.checkpoint = @ + 1], "backfill")

\* the state _fail saves
Failed(st, resume) == [st EXCEPT !.phase = "failed", !.resume = resume]

Full(n) == vectors[n] = Batches

-----------------------------------------------------------------------------
(* Calls in progress                                                       *)

UnlockedSteps == {"expand_ensure", "expand_save", "backfill_save",
                  "batch_attempt", "batch_upsert", "batch_commit",
                  "validate_check", "validate_save", "retry_save", "fail"}

LockedSteps == {"flip_pending", "flip_cas", "flip_done",
                "contract_pending", "contract_backup", "contract_record",
                "contract_check", "contract_delete", "contract_done",
                "rollback_pending", "rollback_restore", "rollback_activate",
                "rollback_cas", "rollback_check", "rollback_delete",
                "rollback_done", "fail_locked"}

Steps == {"idle"} \cup UnlockedSteps \cup LockedSteps

\* seen: the active model the call read; restore: restore_required.
Works == [pc : Steps, mig : Migrations \cup {NoModel}, draft : States,
          seen : ActiveModels, restore : BOOLEAN]

Idle == [pc |-> "idle", mig |-> NoModel, draft |-> Absent,
         seen |-> NoActive, restore |-> FALSE]

Source(p) == work[p].draft.source
Target(p) == TargetOf[work[p].mig]

Call(step, m, st, a, r) ==
  [pc |-> step, mig |-> m, draft |-> st, seen |-> a, restore |-> r]

Enter(p, w) == work' = [work EXCEPT ![p] = w]

Goto(p, step) == work' = [work EXCEPT ![p] = [@ EXCEPT !.pc = step]]

GotoWith(p, step, st) ==
  work' = [work EXCEPT ![p] = [@ EXCEPT !.pc = step, !.draft = st]]

GotoSeeing(p, step, a) ==
  Enter(p, Call(step, work[p].mig, work[p].draft, a, work[p].restore))

Return(p) == work' = [work EXCEPT ![p] = Idle]

Release(p) == lock' = IF lock = p THEN Free ELSE lock

\* _save(state): one atomic durable write.
Save(p, st) == saved' = [saved EXCEPT ![work[p].mig] = st]

\* delete_namespace
DeleteNamespace(n) ==
  /\ vectors' = [vectors EXCEPT ![n] = {}]
  /\ ensured' = ensured \ {n}

\* A store call raises before it changes anything.
Fault == faults < MaxFaults /\ faults' = faults + 1

\* _load_or_create_state: what it returns, and when it returns at all.
Loaded(m) ==
  IF saved[m].phase # "absent" THEN saved[m]
  ELSE [Absent EXCEPT !.phase = "init",
                      !.source = IF SourceArg[m] # NoModel THEN SourceArg[m]
                                 ELSE active.ns]

Loadable(m) ==
  /\ Loaded(m).source \in Namespaces
  /\ Loaded(m).source # TargetOf[m]

\* The first step of a call: load the state; a transition takes the lock.
Starts(p, m, op) ==
  /\ op \in Ops[p]
  /\ m \in Operates[p]
  /\ work[p].pc = "idle"
  /\ Loadable(m)

\* Mutant: the transition lock is taken from whoever holds it.
StartsTransitionUnlocked(p, m, op) ==
  /\ Starts(p, m, op)
  /\ lock' = p

StartsTransition(p, m, op) ==
  /\ Starts(p, m, op)
  /\ lock = Free
  /\ lock' = p

AtStep(p, step) == work[p].pc = step

-----------------------------------------------------------------------------
Init ==
  /\ saved = [m \in Migrations |-> Absent]
  /\ active \in {NoActive} \cup {[ns |-> n, gen |-> 1] : n \in Filled}
  /\ vectors = [n \in Namespaces |-> IF n \in Filled THEN Batches ELSE {}]
  /\ ensured = Filled
  /\ backups = [n \in Namespaces |-> {}]
  /\ lock = Free
  /\ work = [p \in Procs |-> Idle]
  /\ faults = 0

\* The failing paths: a call raises, _fail saves FAILED with the phase that
\* retry resumes, and the exception leaves the routine.
RaiseInto(p, resume) ==
  GotoWith(p, IF lock = p THEN "fail_locked" ELSE "fail",
           Failed(work[p].draft, resume))

StoreRaises(p, resume) ==
  /\ Fault
  /\ RaiseInto(p, resume)
  /\ UNCHANGED <<saved, active, ensured, vectors, backups, lock>>

Refused(p, resume) ==
  /\ RaiseInto(p, resume)
  /\ UNCHANGED <<saved, active, ensured, vectors, backups, lock, faults>>

\* Mutant: a failing transition leaves the lock behind.
SaveFailureLeaksLock(p) ==
  /\ work[p].pc \in {"fail", "fail_locked"}
  /\ Save(p, work[p].draft)
  /\ Return(p)
  /\ UNCHANGED <<active, ensured, vectors, backups, lock, faults>>

SaveFailure(p) ==
  /\ work[p].pc \in {"fail", "fail_locked"}
  /\ Save(p, work[p].draft)
  /\ Return(p)
  /\ Release(p)
  /\ UNCHANGED <<active, ensured, vectors, backups, faults>>

-----------------------------------------------------------------------------
(* expand                                                                  *)

BeginExpand(p, m) ==
  /\ Starts(p, m, "expand")
  /\ Loaded(m).phase = "init"
  /\ Enter(p, Call("expand_ensure", m, Loaded(m), NoActive, FALSE))
  /\ UNCHANGED <<saved, active, ensured, vectors, backups, lock, faults>>

ExpandEnsure(p) ==
  /\ AtStep(p, "expand_ensure")
  /\ \/ /\ ensured' = ensured \cup {Target(p)}
        /\ GotoWith(p, "expand_save", InPhase(work[p].draft, "expand"))
        /\ UNCHANGED <<saved, active, vectors, backups, lock, faults>>
     \/ StoreRaises(p, "expand")

ExpandSave(p) ==
  /\ AtStep(p, "expand_save")
  /\ \/ /\ Save(p, work[p].draft)
        /\ Return(p)
        /\ UNCHANGED <<active, ensured, vectors, backups, lock, faults>>
     \/ StoreRaises(p, "expand")

-----------------------------------------------------------------------------
(* backfill over a sequence of records                                     *)

BeginBackfill(p, m) ==
  /\ Starts(p, m, "backfill")
  /\ Loaded(m).phase \in {"expand", "backfill"}
  /\ Loaded(m).phase = "backfill" => Loaded(m).checkpoint < NumBatches
  /\ Enter(p, Call("backfill_save", m, InPhase(Loaded(m), "backfill"),
                   NoActive, FALSE))
  /\ UNCHANGED <<saved, active, ensured, vectors, backups, lock, faults>>

\* the batch loop: range(state.checkpoint, len(records), batch_size)
NextBatch(p, st) ==
  IF st.checkpoint < NumBatches THEN GotoWith(p, "batch_attempt", st)
                                ELSE Return(p)

BackfillSave(p) ==
  /\ AtStep(p, "backfill_save")
  /\ Save(p, work[p].draft)
  /\ NextBatch(p, work[p].draft)
  /\ UNCHANGED <<active, ensured, vectors, backups, lock, faults>>

\* Mutant: the checkpoint is persisted before the batch is stored.
BatchAttemptCommits(p) ==
  /\ AtStep(p, "batch_attempt")
  /\ Save(p, [work[p].draft EXCEPT !.checkpoint = @ + 1])
  /\ Goto(p, "batch_upsert")
  /\ UNCHANGED <<active, ensured, vectors, backups, lock, faults>>

\* attempts += 1 is persisted before the batch is embedded: the whole state
\* is written again.
BatchAttempt(p) ==
  /\ AtStep(p, "batch_attempt")
  /\ Save(p, work[p].draft)
  /\ Goto(p, "batch_upsert")
  /\ UNCHANGED <<active, ensured, vectors, backups, lock, faults>>

BatchUpsert(p) ==
  /\ AtStep(p, "batch_upsert")
  /\ \/ /\ vectors' = [vectors EXCEPT ![Target(p)] =
                         @ \cup {work[p].draft.checkpoint + 1}]
        /\ GotoWith(p, "batch_commit", Advanced(work[p].draft))
        /\ UNCHANGED <<saved, active, ensured, backups, lock, faults>>
     \/ StoreRaises(p, "backfill")

BatchCommit(p) ==
  /\ AtStep(p, "batch_commit")
  /\ Save(p, work[p].draft)
  /\ NextBatch(p, work[p].draft)
  /\ UNCHANGED <<active, ensured, vectors, backups, lock, faults>>

-----------------------------------------------------------------------------
(* validate                                                                *)

BeginValidate(p, m) ==
  /\ Starts(p, m, "validate")
  /\ Loaded(m).phase \in {"backfill", "validate"}
  /\ ~Loaded(m).validated
  /\ Loaded(m).checkpoint = NumBatches
  /\ Enter(p, Call("validate_check", m, Loaded(m), NoActive, FALSE))
  /\ UNCHANGED <<saved, active, ensured, vectors, backups, lock, faults>>

\* ValidationResult.passed: the store counts as many records as expected.
Passes(n) == Cardinality(vectors[n]) = NumBatches

ValidateCheck(p) ==
  /\ AtStep(p, "validate_check")
  /\ \/ /\ Passes(Target(p))
        /\ GotoWith(p, "validate_save",
                    [InPhase(work[p].draft, "validate")
                       EXCEPT !.validated = TRUE])
        /\ UNCHANGED <<saved, active, ensured, vectors, backups, lock, faults>>
     \/ /\ ~Passes(Target(p))
        /\ GotoWith(p, "validate_save",
                    [Failed(work[p].draft, "validate")
                       EXCEPT !.validated = FALSE])
        /\ UNCHANGED <<saved, active, ensured, vectors, backups, lock, faults>>
     \/ StoreRaises(p, "validate")

ValidateSave(p) ==
  /\ AtStep(p, "validate_save")
  /\ \/ /\ Save(p, work[p].draft)
        /\ Return(p)
        /\ UNCHANGED <<active, ensured, vectors, backups, lock, faults>>
     \/ StoreRaises(p, "validate")

-----------------------------------------------------------------------------
(* flip, under the transition lock                                         *)

BeginFlip(p, m) ==
  /\ StartsTransition(p, m, "flip")
  /\ Loaded(m).phase \in {"validate", "flip"}
  /\ Loaded(m).validated
  /\ active.ns \in {TargetOf[m], Loaded(m).source, NoModel}
  /\ Enter(p, Call(IF active.ns = TargetOf[m] THEN "flip_done"
                                              ELSE "flip_pending",
                   m, InPhase(Loaded(m), "flip"), active, FALSE))
  /\ UNCHANGED <<saved, active, ensured, vectors, backups, faults>>

FlipPending(p) ==
  /\ AtStep(p, "flip_pending")
  /\ Save(p, work[p].draft)
  /\ Goto(p, "flip_cas")
  /\ UNCHANGED <<active, ensured, vectors, backups, lock, faults>>

\* _compare_and_set_active_model(expected=seen)
CompareAndSet(p, n) ==
  /\ active = work[p].seen
  /\ active' = Activated(n)

FlipSwitch(p) ==
  /\ AtStep(p, "flip_cas")
  /\ \/ /\ CompareAndSet(p, Target(p))
        /\ Goto(p, "flip_done")
        /\ UNCHANGED <<saved, ensured, vectors, backups, lock, faults>>
     \/ active # work[p].seen /\ Refused(p, "flip")
     \/ StoreRaises(p, "flip")

FlipDone(p) ==
  /\ AtStep(p, "flip_done")
  /\ Save(p, work[p].draft)
  /\ Return(p)
  /\ Release(p)
  /\ UNCHANGED <<active, ensured, vectors, backups, faults>>

-----------------------------------------------------------------------------
(* contract, under the transition lock                                     *)

\* Mutant: contract trusts the saved phase and does not look at the model.
BeginContractUnchecked(p, m) ==
  /\ StartsTransition(p, m, "contract")
  /\ Loaded(m).phase \in {"flip", "contract"}
  /\ Loaded(m).validated
  /\ Enter(p, Call("contract_pending", m, InPhase(Loaded(m), "contract"),
                   active, FALSE))
  /\ UNCHANGED <<saved, active, ensured, vectors, backups, faults>>

BeginContract(p, m) ==
  /\ StartsTransition(p, m, "contract")
  /\ Loaded(m).phase \in {"flip", "contract"}
  /\ Loaded(m).validated
  /\ active.ns = TargetOf[m]
  /\ Enter(p, Call("contract_pending", m, InPhase(Loaded(m), "contract"),
                   active, FALSE))
  /\ UNCHANGED <<saved, active, ensured, vectors, backups, faults>>

\* Mutant: contract deletes without a backup.
ContractPendingNoBackup(p) ==
  /\ AtStep(p, "contract_pending")
  /\ Save(p, work[p].draft)
  /\ Goto(p, "contract_check")
  /\ UNCHANGED <<active, ensured, vectors, backups, lock, faults>>

ContractPending(p) ==
  /\ AtStep(p, "contract_pending")
  /\ Save(p, work[p].draft)
  /\ Goto(p, IF work[p].draft.backup THEN "contract_check"
                                     ELSE "contract_backup")
  /\ UNCHANGED <<active, ensured, vectors, backups, lock, faults>>

\* create_backup(source): the backup of a namespace replaces the last one.
ContractBackup(p) ==
  /\ AtStep(p, "contract_backup")
  /\ \/ /\ backups' = [backups EXCEPT ![Source(p)] = vectors[Source(p)]]
        /\ GotoWith(p, "contract_record",
                    [work[p].draft EXCEPT !.backup = TRUE])
        /\ UNCHANGED <<saved, active, ensured, vectors, lock, faults>>
     \/ StoreRaises(p, "contract")

ContractRecord(p) ==
  /\ AtStep(p, "contract_record")
  /\ Save(p, work[p].draft)
  /\ Goto(p, "contract_check")
  /\ UNCHANGED <<active, ensured, vectors, backups, lock, faults>>

\* _require_active_owner
OwnerCheck(p, next, resume) ==
  \/ /\ active = work[p].seen
     /\ Goto(p, next)
     /\ UNCHANGED <<saved, active, ensured, vectors, backups, lock, faults>>
  \/ active # work[p].seen /\ Refused(p, resume)

ContractCheck(p) ==
  /\ AtStep(p, "contract_check")
  /\ OwnerCheck(p, "contract_delete", "contract")

ContractDelete(p) ==
  /\ AtStep(p, "contract_delete")
  /\ \/ /\ DeleteNamespace(Source(p))
        /\ GotoWith(p, "contract_done", InPhase(work[p].draft, "complete"))
        /\ UNCHANGED <<saved, active, backups, lock, faults>>
     \/ StoreRaises(p, "contract")

ContractDone(p) ==
  /\ AtStep(p, "contract_done")
  /\ Save(p, work[p].draft)
  /\ Return(p)
  /\ Release(p)
  /\ UNCHANGED <<active, ensured, vectors, backups, faults>>

-----------------------------------------------------------------------------
(* rollback, under the transition lock                                     *)

EffectivePhase(st) ==
  IF st.phase = "failed" /\ st.resume # "none" THEN st.resume ELSE st.phase

RestoreRequired(st) ==
  st.backup /\ EffectivePhase(st) \in {"contract", "complete"}

BeginRollback(p, m) ==
  /\ StartsTransition(p, m, "rollback")
  /\ EffectivePhase(Loaded(m)) # "init"
  /\ Enter(p, Call("rollback_pending", m, InPhase(Loaded(m), "rollback"),
                   NoActive, RestoreRequired(Loaded(m))))
  /\ UNCHANGED <<saved, active, ensured, vectors, backups, faults>>

RollbackPending(p) ==
  /\ AtStep(p, "rollback_pending")
  /\ Save(p, work[p].draft)
  /\ Goto(p, IF work[p].restore THEN "rollback_restore"
                                ELSE "rollback_activate")
  /\ UNCHANGED <<active, ensured, vectors, backups, lock, faults>>

RollbackRestore(p) ==
  /\ AtStep(p, "rollback_restore")
  /\ \/ /\ vectors' = [vectors EXCEPT ![Source(p)] = @ \cup backups[Source(p)]]
        /\ Goto(p, "rollback_activate")
        /\ UNCHANGED <<saved, active, ensured, backups, lock, faults>>
     \/ StoreRaises(p, "rollback")

\* Mutant: rollback does not move the active model back.
RollbackActivateNothing(p) ==
  /\ AtStep(p, "rollback_activate")
  /\ GotoSeeing(p, "rollback_check", active)
  /\ UNCHANGED <<saved, active, ensured, vectors, backups, lock, faults>>

RollbackActivate(p) ==
  /\ AtStep(p, "rollback_activate")
  /\ \/ /\ active.ns \in {Source(p), Target(p), NoModel}
        /\ GotoSeeing(p, IF active.ns = Source(p) THEN "rollback_check"
                                                  ELSE "rollback_cas",
                      active)
        /\ UNCHANGED <<saved, active, ensured, vectors, backups, lock, faults>>
     \/ /\ active.ns \notin {Source(p), Target(p), NoModel}
        /\ Refused(p, "rollback")
     \/ StoreRaises(p, "rollback")

RollbackSwitch(p) ==
  /\ AtStep(p, "rollback_cas")
  /\ \/ /\ CompareAndSet(p, Source(p))
        /\ GotoSeeing(p, "rollback_check", Activated(Source(p)))
        /\ UNCHANGED <<saved, ensured, vectors, backups, lock, faults>>
     \/ active # work[p].seen /\ Refused(p, "rollback")
     \/ StoreRaises(p, "rollback")

RollbackCheck(p) ==
  /\ AtStep(p, "rollback_check")
  /\ OwnerCheck(p, "rollback_delete", "rollback")

RollbackDelete(p) ==
  /\ AtStep(p, "rollback_delete")
  /\ \/ /\ DeleteNamespace(Target(p))
        /\ Goto(p, "rollback_done")
        /\ UNCHANGED <<saved, active, backups, lock, faults>>
     \/ StoreRaises(p, "rollback")

RollbackDone(p) ==
  /\ AtStep(p, "rollback_done")
  /\ Save(p, work[p].draft)
  /\ Return(p)
  /\ Release(p)
  /\ UNCHANGED <<active, ensured, vectors, backups, faults>>

-----------------------------------------------------------------------------
(* retry: not under the transition lock                                    *)

\* the phase retry goes back to
ResumePhase(st) ==
  IF st.resume # "none" THEN st.resume
  ELSE IF st.checkpoint < NumBatches THEN "backfill" ELSE "validate"

BeginRetry(p, m) ==
  /\ Starts(p, m, "retry")
  /\ Loaded(m).phase = "failed"
  /\ Enter(p, Call("retry_save", m,
                   InPhase(Loaded(m), ResumePhase(Loaded(m))),
                   NoActive, FALSE))
  /\ UNCHANGED <<saved, active, ensured, vectors, backups, lock, faults>>

RetrySave(p) ==
  /\ AtStep(p, "retry_save")
  /\ Save(p, work[p].draft)
  /\ Return(p)
  /\ UNCHANGED <<active, ensured, vectors, backups, lock, faults>>

-----------------------------------------------------------------------------
(* The environment                                                         *)

\* Another program selects a model of its own without taking the lock: what
\* compare_and_set and _require_active_owner defend against.
ForeignActivate(n) ==
  /\ active.gen < MaxGeneration
  /\ active' = Activated(n)
  /\ UNCHANGED <<saved, ensured, vectors, backups, lock, work, faults>>

\* A process dies between two store calls; the file lock goes with it.
Crash(p) ==
  /\ work[p].pc # "idle"
  /\ Fault
  /\ Return(p)
  /\ Release(p)
  /\ UNCHANGED <<saved, active, ensured, vectors, backups>>

Begin(p, m) ==
  \/ BeginExpand(p, m) \/ BeginBackfill(p, m) \/ BeginValidate(p, m)
  \/ BeginFlip(p, m) \/ BeginContract(p, m) \/ BeginRollback(p, m)
  \/ BeginRetry(p, m)

Step(p) ==
  \/ SaveFailure(p)
  \/ ExpandEnsure(p) \/ ExpandSave(p)
  \/ BackfillSave(p) \/ BatchAttempt(p) \/ BatchUpsert(p) \/ BatchCommit(p)
  \/ ValidateCheck(p) \/ ValidateSave(p)
  \/ FlipPending(p) \/ FlipSwitch(p) \/ FlipDone(p)
  \/ ContractPending(p) \/ ContractBackup(p) \/ ContractRecord(p)
  \/ ContractCheck(p) \/ ContractDelete(p) \/ ContractDone(p)
  \/ RollbackPending(p) \/ RollbackRestore(p) \/ RollbackActivate(p)
  \/ RollbackSwitch(p) \/ RollbackCheck(p) \/ RollbackDelete(p)
  \/ RollbackDone(p)
  \/ RetrySave(p)

Next ==
  \/ \E p \in Procs, m \in Migrations : Begin(p, m)
  \/ \E p \in Procs : Step(p) \/ Crash(p)
  \/ \E n \in Foreign : ForeignActivate(n)

Spec == Init /\ [][Next]_vars

\* A call in progress keeps going, and the operator of a migration keeps
\* driving it: whenever a forward operation stays possible it is started.
Fairness ==
  /\ \A p \in Procs : WF_vars(Step(p))
  /\ \A p \in Procs : \A m \in Operates[p] :
       /\ SF_vars(BeginRetry(p, m))
       /\ SF_vars(BeginExpand(p, m))
       /\ SF_vars(BeginBackfill(p, m))
       /\ SF_vars(BeginValidate(p, m))
       /\ SF_vars(BeginFlip(p, m))
       /\ SF_vars(BeginContract(p, m))

FairSpec == Spec /\ Fairness

-----------------------------------------------------------------------------
(* Properties                                                              *)

\* Every variable stays in its domain, and a process that holds the lock is
\* inside a transition.
TypeOK ==
  /\ saved \in [Migrations -> States]
  /\ active \in ActiveModels
  /\ ensured \subseteq Namespaces
  /\ vectors \in [Namespaces -> SUBSET Batches]
  /\ backups \in [Namespaces -> SUBSET Batches]
  /\ lock \in Procs \cup {Free}
  /\ work \in [Procs -> Works]
  /\ faults \in Nat

\* A migration whose contracted source a rollback has begun to restore.
RestoringSource(m) ==
  saved[m].backup /\ EffectivePhase(saved[m]) = "rollback"

\* contract and rollback never delete the namespace that serves queries,
\* whatever calls interleave, fail or crash and whatever foreign models are
\* activated in between (the lock, the compare-and-set and the owner check).
NeverDeleteActive ==
  [][\A n \in Namespaces :
        (vectors[n] # {} /\ vectors'[n] = {}) => n \notin {active.ns, active'.ns}
    ]_vars

\* New queries are answered from the whole corpus at every moment of an
\* expand-backfill-validate-flip-contract migration and of a rollback that
\* has nothing to restore, including after failures, crashes and retries.
ActiveServesCorpus ==
  /\ active.ns \in Namespaces
  /\ \A m \in Migrations : ~RestoringSource(m)
  => Full(active.ns)

\* The durable checkpoint is never ahead of the durable vectors: a crash
\* anywhere in backfill cannot make the resumed run skip a batch.
CheckpointBacked ==
  \A m \in Migrations :
    EffectivePhase(saved[m]) \in {"backfill", "validate", "flip"}
      => 1..saved[m].checkpoint \subseteq vectors[TargetOf[m]]

\* The corpus a migration started from is never lost: until a migration has
\* durably recorded a complete backup of it the namespace itself stays whole.
SourceRecoverable ==
  \A n \in Filled :
    \/ Full(n)
    \/ /\ backups[n] = Batches
       /\ \E m \in Migrations : saved[m].source = n /\ saved[m].backup

\* Migrations implement the abstract serving model: the flip of the active
\* model is one atomic step between whole namespaces.
Serving == INSTANCE ServingModel
             WITH serving <- active.ns,
                  whole <- {n \in Namespaces : Full(n)}

ImplementsServing == Serving!Spec

\* An operator that retries takes every migration to its end, unless it rolls
\* the migration back or another program takes the active model away.
EventuallyComplete ==
  \A m \in Migrations :
    <>(saved[m].phase \in {"complete", "rollback"} \/ active.ns \in Foreign)

\* What rollback's docstring says, "Restore the source model": a completed
\* rollback leaves a source that holds the whole corpus.
RollbackRestoresSource ==
  \A p \in Procs :
    AtStep(p, "rollback_done") /\ Source(p) \in Filled => Full(Source(p))
=============================================================================
