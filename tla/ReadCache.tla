----------------------------- MODULE ReadCache -----------------------------
(***************************************************************************)
(* ValidatedReadThroughCache (runtime/validated_read_cache.py), for one    *)
(* key: an entry is used while it is fresh and its token validates, one    *)
(* caller loads and writes back for all that ask meanwhile, and a failed   *)
(* load falls back on the entry the leader had found invalid or expired.   *)
(* A value is the version of the authoritative source it was read from.    *)
(***************************************************************************)
EXTENDS Integers, FiniteSets

CONSTANTS
  Readers,        \* calls of get_or_load and async_get_or_load
  Asynchronous,   \* the readers that are coroutines and may be cancelled
  MaxVersion,     \* bound on the versions of the source
  MaxReadFaults   \* bound on failing store, validator and loader calls

Nothing == 0      \* no entry, no value
Versions == 1..MaxVersion

ASSUME ReadCacheAssumption ==
  /\ Asynchronous \subseteq Readers
  /\ MaxVersion \in Nat \ {0}
  /\ MaxReadFaults \in Nat

VARIABLES
  source,     \* version of the authoritative source
  stored,     \* [version, expired]: the store's entry for the key
  leader,     \* readers whose flight the _inflight table holds: at most one
  flight,     \* [Readers -> the flight that reader leads]
  reader,     \* [Readers -> the reader's program counter and locals]
  overtaken,  \* readers whose write was left running by a second cancellation
  faults      \* failing calls so far

readVars == <<source, stored, leader, flight, reader, overtaken, faults>>

Call == [at |-> "idle", entry |-> Nothing, stale |-> Nothing, joined |-> {},
         loaded |-> Nothing, value |-> Nothing, how |-> "none", since |-> Nothing]
NoFlight == [state |-> "none", value |-> Nothing, fallback |-> FALSE]

ReadInit ==
  /\ source = 1
  /\ stored = [version |-> Nothing, expired |-> FALSE]
  /\ leader = {}
  /\ flight = [r \in Readers |-> NoFlight]
  /\ reader = [r \in Readers |-> Call]
  /\ overtaken = {}
  /\ faults = 0

At(r, at) == reader[r].at = at
Goes(r, update) == reader' = [reader EXCEPT ![r] = update]
Fault == faults < MaxReadFaults /\ faults' = faults + 1
Answered(r, value, how) == [reader[r] EXCEPT !.at = "done", !.value = value, !.how = how]

BeginRead(r) ==
  /\ At(r, "idle")
  /\ Goes(r, [Call EXCEPT !.at = "read", !.since = source])
  /\ UNCHANGED <<source, stored, leader, flight, overtaken, faults>>

\* The entry is read; a failing store counts as no entry, an expired one is
\* kept as a fallback.
ReadEntry(r) ==
  /\ At(r, "read")
  /\ \/ /\ IF stored.version = Nothing THEN Goes(r, [reader[r] EXCEPT !.at = "join"])
           ELSE IF stored.expired
           THEN Goes(r, [reader[r] EXCEPT !.at = "join", !.stale = stored.version])
           ELSE Goes(r, [reader[r] EXCEPT !.at = "validate", !.entry = stored.version])
        /\ UNCHANGED faults
     \/ Goes(r, [reader[r] EXCEPT !.at = "join"]) /\ Fault
  /\ UNCHANGED <<source, stored, leader, flight, overtaken>>

\* The caller's validator compares the token with the source.
\* (Mutant of TokenValid: it is not asked.)
AlwaysValid(version) == TRUE

TokenValid(version) == version = source

Validate(r) ==
  /\ At(r, "validate")
  /\ \/ /\ TokenValid(reader[r].entry)
        /\ Goes(r, Answered(r, reader[r].entry, "fresh"))
        /\ UNCHANGED faults
     \/ /\ ~TokenValid(reader[r].entry)
        /\ Goes(r, [reader[r] EXCEPT !.at = "join", !.stale = reader[r].entry])
        /\ UNCHANGED faults
     \/ Goes(r, [reader[r] EXCEPT !.at = "join", !.stale = reader[r].entry]) /\ Fault
  /\ UNCHANGED <<source, stored, leader, flight, overtaken>>

StartOrJoin(r) ==
  /\ At(r, "join")
  /\ IF leader = {}
     THEN /\ leader' = {r}
          /\ flight' = [flight EXCEPT ![r].state = "open"]
          /\ Goes(r, [reader[r] EXCEPT !.at = "load"])
     ELSE /\ Goes(r, [reader[r] EXCEPT !.at = "wait", !.joined = leader])
          /\ UNCHANGED <<leader, flight>>
  /\ UNCHANGED <<source, stored, overtaken, faults>>

\* completed.set_result: the flight leaves the table and its waiters wake up
CompleteSuccess(r, value, fallback) ==
  /\ leader' = leader \ {r}
  /\ flight' = [flight EXCEPT ![r] = [state |-> "value", value |-> value, fallback |-> fallback]]

\* Mutant of CompleteFailure: nobody tells those who joined.
CompleteFailureSilent(r) == leader' = leader \ {r} /\ UNCHANGED flight
CompleteFailure(r) ==
  /\ leader' = leader \ {r}
  /\ flight' = [flight EXCEPT ![r].state = "error"]

Load(r) ==
  /\ At(r, "load")
  /\ Goes(r, [reader[r] EXCEPT !.at = "write", !.loaded = source])
  /\ UNCHANGED <<source, stored, leader, flight, overtaken, faults>>

\* A failing load answers the leader and everyone who joined with the entry
\* the leader had rejected, if it had one.
HandleLoadFailure(r) ==
  /\ At(r, "load") /\ Fault
  /\ IF reader[r].stale # Nothing
     THEN /\ CompleteSuccess(r, reader[r].stale, TRUE)
          /\ Goes(r, Answered(r, reader[r].stale, "fallback"))
     ELSE CompleteFailure(r) /\ Goes(r, Answered(r, Nothing, "error"))
  /\ UNCHANGED <<source, stored, overtaken>>

\* The write-back, in a thread for a coroutine; a failing store is ignored.
WriteEntry(r) ==
  /\ \/ At(r, "write") \/ At(r, "cancelling")
  /\ \/ /\ stored' = [version |-> reader[r].loaded, expired |-> FALSE]
        /\ UNCHANGED faults
     \/ Fault /\ UNCHANGED stored
  /\ Goes(r, [reader[r] EXCEPT !.at = IF At(r, "write") THEN "complete" ELSE "cancelled"])
  /\ UNCHANGED <<source, leader, flight, overtaken>>

Complete(r) ==
  /\ At(r, "complete")
  /\ CompleteSuccess(r, reader[r].loaded, FALSE)
  /\ Goes(r, Answered(r, reader[r].loaded, "loaded"))
  /\ UNCHANGED <<source, stored, overtaken, faults>>

\* Mutant of CancelLeader: the flight is given up while the write runs.
CancelLeaderAtOnce(r) ==
  /\ r \in Asynchronous
  /\ At(r, "load") \/ At(r, "complete") \/ At(r, "write")
  /\ CompleteFailure(r)
  /\ Goes(r, IF At(r, "write") THEN [reader[r] EXCEPT !.at = "orphan"]
             ELSE Answered(r, Nothing, "cancelled"))
  /\ UNCHANGED <<source, stored, overtaken, faults>>

\* A cancelled coroutine that is writing waits for its shielded write before
\* it gives up the flight...
CancelLeader(r) ==
  /\ r \in Asynchronous
  /\ \/ /\ At(r, "load") \/ At(r, "complete")
        /\ CompleteFailure(r)
        /\ Goes(r, Answered(r, Nothing, "cancelled"))
     \/ /\ At(r, "write")
        /\ Goes(r, [reader[r] EXCEPT !.at = "cancelling"])
        /\ UNCHANGED <<leader, flight>>
  /\ UNCHANGED <<source, stored, overtaken, faults>>

FinishCancelled(r) ==
  /\ At(r, "cancelled")
  /\ CompleteFailure(r)
  /\ Goes(r, Answered(r, Nothing, "cancelled"))
  /\ UNCHANGED <<source, stored, overtaken, faults>>

\* ... but that second wait is not shielded: cancelled again, the coroutine
\* gives up the flight while the thread still writes.
CancelAgain(r) ==
  /\ At(r, "cancelling")
  /\ CompleteFailure(r)
  /\ Goes(r, [reader[r] EXCEPT !.at = "orphan"])
  /\ overtaken' = overtaken \cup {r}
  /\ UNCHANGED <<source, stored, faults>>

OrphanWrite(r) ==
  /\ At(r, "orphan")
  /\ stored' = [version |-> reader[r].loaded, expired |-> FALSE]
  /\ Goes(r, Answered(r, Nothing, "cancelled"))
  /\ UNCHANGED <<source, leader, flight, overtaken, faults>>

\* A waiter gets a copy of the flight's value or its error; the wait of a
\* coroutine is shielded, so that cancelling it leaves the flight alone.
FinishWaiter(r) ==
  /\ At(r, "wait")
  /\ \E owner \in reader[r].joined :
       /\ flight[owner].state \in {"value", "error"}
       /\ Goes(r, Answered(r, flight[owner].value,
                           IF flight[owner].state = "error" THEN "error"
                           ELSE IF flight[owner].fallback THEN "fallback" ELSE "joined"))
  /\ UNCHANGED <<source, stored, leader, flight, overtaken, faults>>

CancelWaiter(r) ==
  /\ r \in Asynchronous /\ At(r, "wait")
  /\ Goes(r, Answered(r, Nothing, "cancelled"))
  /\ UNCHANGED <<source, stored, leader, flight, overtaken, faults>>

Expire ==
  /\ stored.version # Nothing /\ ~stored.expired
  /\ stored' = [stored EXCEPT !.expired = TRUE]
  /\ UNCHANGED <<source, leader, flight, reader, overtaken, faults>>

SourceChanges ==
  /\ source < MaxVersion
  /\ source' = source + 1
  /\ UNCHANGED <<stored, leader, flight, reader, overtaken, faults>>

ReaderStep(r) ==
  \/ ReadEntry(r) \/ Validate(r) \/ StartOrJoin(r) \/ Load(r) \/ WriteEntry(r)
  \/ Complete(r) \/ FinishCancelled(r) \/ OrphanWrite(r) \/ FinishWaiter(r)

ReadNext ==
  \/ Expire \/ SourceChanges
  \/ \E r \in Readers :
       \/ BeginRead(r) \/ ReaderStep(r) \/ HandleLoadFailure(r)
       \/ CancelLeader(r) \/ CancelAgain(r) \/ CancelWaiter(r)

\* the loader and the store answer or raise: a call that has begun goes on
ReadFairness == \A r \in Readers : WF_readVars(ReaderStep(r))

ReadSpec == ReadInit /\ [][ReadNext]_readVars /\ ReadFairness

-----------------------------------------------------------------------------
Values == Versions \cup {Nothing}
Flights == [state : {"none", "open", "value", "error"}, value : Values, fallback : BOOLEAN]
Calls ==
  [at : {"idle", "read", "validate", "join", "load", "write", "complete", "cancelling",
         "cancelled", "orphan", "wait", "done"},
   entry : Values, stale : Values, joined : SUBSET Readers, loaded : Values,
   value : Values, since : Values,
   how : {"none", "fresh", "loaded", "joined", "fallback", "error", "cancelled"}]

ReadTypeOK ==
  /\ source \in Versions
  /\ stored \in [version : Values, expired : BOOLEAN]
  /\ leader \subseteq Readers /\ overtaken \subseteq Readers
  /\ flight \in [Readers -> Flights]
  /\ reader \in [Readers -> Calls]
  /\ faults \in 0..MaxReadFaults

(* Write-backs never put an older value over a newer one, although they run  *)
(* in threads and their callers may be cancelled: a flight ends only after   *)
(* its write.  Two cancellations of one caller are the one exception.        *)
StoreMovesForward ==
  [][stored'.version >= stored.version \/ overtaken # {}]_readVars

(* A value older than the source was when the call began is returned only    *)
(* where the code allows it: the fallback after a failed load, or what a     *)
(* flight had already loaded when the caller joined it.                      *)
StalenessExplained ==
  \A r \in Readers :
    reader[r].how \in {"fresh", "loaded"} => reader[r].value >= reader[r].since

ReadQuiet == \A r \in Readers : reader[r].at \in {"idle", "done"}
=============================================================================
