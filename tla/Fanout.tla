------------------------------- MODULE Fanout -------------------------------
(***************************************************************************)
(* gather_with_timeout (runtime/fanout.py): a list of coroutines run as    *)
(* tasks with a timeout each.  Strict mode raises the first failure after  *)
(* it has stopped the others; lenient mode turns failures into None and a  *)
(* diagnostic.                                                             *)
(***************************************************************************)
EXTENDS Integers, FiniteSets

CONSTANTS NumTasks   \* len(coros_or_factories)

ASSUME FanoutAssumption == NumTasks \in Nat

Tasks == 1..NumTasks
TaskEnd == {"ok", "timeout", "error", "cancelled"}

VARIABLES
  gather,      \* [phase, strict, outcome]: the call
  task,        \* [Tasks -> state of the task]
  diagnosed    \* tasks with an entry in diagnostics

fanVars == <<gather, task, diagnosed>>

FanInit ==
  /\ gather = [phase |-> "idle", strict |-> FALSE, outcome |-> "none"]
  /\ task = [i \in Tasks |-> "new"]
  /\ diagnosed = {}

Fan ==
  /\ gather.phase = "idle"
  /\ \E strict \in BOOLEAN :
       gather' = [phase |-> "gather", strict |-> strict, outcome |-> "none"]
  /\ task' = [i \in Tasks |-> "running"]
  /\ UNCHANGED diagnosed

Ended(i) == task[i] \in TaskEnd

\* run_with_timeout: in lenient mode the failure is noted and the task
\* returns None; in strict mode it raises.
FinishTask(i, end) ==
  /\ task[i] = "running"
  /\ task' = [task EXCEPT ![i] = end]
  /\ diagnosed' = IF end \in {"timeout", "error"} /\ ~gather.strict
                  THEN diagnosed \cup {i} ELSE diagnosed
  /\ UNCHANGED gather

\* CancelledError, raised by the coroutine itself, is neither TimeoutError nor
\* Exception: it leaves run_with_timeout in both modes.
TaskCancelsItself(i) == FinishTask(i, "cancelled")

\* a cancelled task needs another turn of the event loop to end
TaskStops(i) ==
  /\ task[i] = "stopping"
  /\ task' = [task EXCEPT ![i] = "cancelled"]
  /\ UNCHANGED <<gather, diagnosed>>

CancelTasks == [i \in Tasks |-> IF task[i] = "running" THEN "stopping" ELSE task[i]]

Raises(i) == task[i] = "cancelled" \/ (gather.strict /\ task[i] \in {"timeout", "error"})

\* Mutant of GatherRaises: the stopped tasks are not awaited.
GatherRaisesAtOnce ==
  /\ gather.phase = "gather"
  /\ \E i \in Tasks : Raises(i)
  /\ gather' = [gather EXCEPT !.phase = "done", !.outcome = "raised"]
  /\ task' = IF gather.strict THEN CancelTasks ELSE task
  /\ UNCHANGED diagnosed

\* asyncio.gather ends with the first exception of a task; strict mode then
\* cancels the tasks that still run and waits for all of them.
GatherRaises ==
  /\ gather.phase = "gather"
  /\ \E i \in Tasks : Raises(i)
  /\ IF gather.strict
     THEN /\ gather' = [gather EXCEPT !.phase = "stopping", !.outcome = "raised"]
          /\ task' = CancelTasks
     ELSE /\ gather' = [gather EXCEPT !.phase = "done", !.outcome = "raised"]
          /\ UNCHANGED task
  /\ UNCHANGED diagnosed

\* Cancelling the caller cancels every child through gather.
CallerCancelled ==
  /\ gather.phase = "gather"
  /\ task' = CancelTasks
  /\ UNCHANGED <<gather, diagnosed>>

AwaitStopped ==
  /\ gather.phase = "stopping"
  /\ \A i \in Tasks : Ended(i)
  /\ gather' = [gather EXCEPT !.phase = "done"]
  /\ UNCHANGED <<task, diagnosed>>

GatherReturns ==
  /\ gather.phase = "gather"
  /\ \A i \in Tasks : Ended(i) /\ ~Raises(i)
  /\ gather' = [gather EXCEPT !.phase = "done", !.outcome = "returned"]
  /\ UNCHANGED <<task, diagnosed>>

FanNext ==
  \/ Fan \/ GatherRaises \/ CallerCancelled \/ AwaitStopped \/ GatherReturns
  \/ \E i \in Tasks :
       \/ \E end \in {"ok", "timeout", "error"} : FinishTask(i, end)
       \/ TaskCancelsItself(i) \/ TaskStops(i)

\* wait_for bounds every task; the event loop runs what can run
FanFairness ==
  /\ WF_fanVars(GatherRaises \/ AwaitStopped \/ GatherReturns)
  /\ \A i \in Tasks : WF_fanVars(FinishTask(i, "timeout") \/ TaskStops(i))

FanSpec == FanInit /\ [][FanNext]_fanVars /\ FanFairness

(* In strict mode no task of the list runs on after the call has ended, by   *)
(* result or by exception; in lenient mode a result has a value or a         *)
(* diagnostic in every slot.                                                 *)
GatherCleansUp ==
  gather.phase = "done" =>
    /\ gather.strict => \A i \in Tasks : Ended(i)
    /\ gather.outcome = "returned" =>
         \A i \in Tasks : task[i] = "ok" \/ (~gather.strict /\ i \in diagnosed)

FanQuiet == gather.phase \in {"idle", "done"}
=============================================================================
