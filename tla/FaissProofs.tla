---------------------------- MODULE FaissProofs ----------------------------
(***************************************************************************)
(* Searches over an index that is refreshed in place answer with what was  *)
(* stored during the call, and no index says of itself, in memory or on    *)
(* disk, what is not so: proved for any keys, rows, searchers and writer   *)
(* threads, and any commits, failures and crashes.                         *)
(***************************************************************************)
EXTENDS FaissStore, WellFoundedInduction, TLAPS

-----------------------------------------------------------------------------
(* The inductive invariant                                                 *)

Rows == RowValues \cup {NoRow}
Tables == [VectorKeys -> Rows]
Revisions == [VectorKeys -> Nat]

\* A state of an index object, or none.
IsState(st) ==
  st.epoch \in Nat /\ st.idx \in Objects /\ st.live \in Tables /\ st.tombs \in Revisions
MaybeState(st) == st = NoState \/ IsState(st)

\* What a table that describes the store at the current epoch says of key k.
Stands(row, k) == row \in {rows[k]} \cup silent[k]

\* A row that may be answered for key k by a search that has seen `during`.
Told(row, k, during) == row \in during[k]

\* A table that describes the store as of an epoch.
Vouched(e, live) ==
  /\ e \in Nat /\ e <= vectorEpoch /\ live \in Tables
  /\ e = vectorEpoch => \A k \in VectorKeys : Stands(live[k], k)
  /\ \A s \in Searchers :
       searcher[s].phase = "state" /\ searcher[s].epoch = e =>
         \A k \in VectorKeys : Told(live[k], k, searcher[s].during)

Refreshes(mode) == refresh # NoRefresh /\ refresh.mode = mode
Updating == Refreshes("diff") \/ Refreshes("embed")

\* The object of state st holds what st says of it.
Describes(st) == Holds(contents[st.idx], st.live, st.tombs)

Whole(st) ==
  /\ IsState(st) /\ Vouched(st.epoch, st.live)
  /\ ~Refreshes("embed") => Describes(st)

CacheSound == states # NoState => Whole(states)

\* No state of the cached object is newer than the cached state, and nothing
\* else refers to an object that is loaded to be updated.
NotNewer(st) ==
  st # NoState =>
    /\ states # NoState /\ st.idx = states.idx => st.epoch <= states.epoch
    /\ Updating /\ states = NoState => st.idx # refresh.base.idx

QueueSound ==
  /\ pending # NoState => Whole(pending)
  /\ MaybeState(persisted) /\ MaybeState(inflightWrite)
  /\ NotNewer(pending) /\ NotNewer(persisted) /\ NotNewer(inflightWrite)

\* A writer thread may write its snapshot as long as no refresh has begun.
DrainSound(t) ==
  /\ t.phase = "serialize" =>
       /\ IsState(t.state) /\ Vouched(t.state.epoch, t.state.live) /\ NotNewer(t.state)
       /\ t.mutations \in Nat /\ t.mutations <= mutations
       /\ Updating => t.mutations < mutations
       /\ t.mutations = mutations => Describes(t.state)
  /\ t.phase = "publish" => IsState(t.state) /\ NotNewer(t.state)

DrainsSound == mutations \in Nat /\ \A d \in Drains : DrainSound(drain[d])

\* A generation on disk is whole.
GenerationSound(g) ==
  /\ Vouched(g.epoch, g.live) /\ g.tombs \in Revisions /\ g.bytes \in Revisions
  /\ Holds(g.bytes, g.live, g.tombs)

GenerationsSound == \A g \in disk.generations : GenerationSound(g)

\* A key whose vector the refresh has still to bring back.
Missing(idx, k) ==
  Refreshes("embed") /\ refresh.base.idx = idx /\ k \in refresh.wanted \ refresh.added

\* What a search that holds state st will find for key k.
Findable(st, k, during) ==
  st.live[k] # NoRow =>
    IF contents[st.idx][k] = 0 THEN st.idx \in torn \/ Missing(st.idx, k)
    ELSE \E r \in during[k] : r[1] = contents[st.idx][k]

\* The answer of a search that is over, as FaissAnswersFresh wants it.
Answered(hits, idx, during) ==
  \A k \in VectorKeys :
    IF hits[k] = NoRow THEN NoRow \in during[k] \/ idx \in torn
    ELSE (\E r \in during[k] : r[1] = hits[k][1]) /\ (\E r \in during[k] : r[2] = hits[k][2])

\* The fields a search has in each phase.
SearchShape(t) ==
  /\ t.phase \in {"idle", "state", "search", "fallback", "done"}
  /\ t.phase = "idle" => t = NoSearch
  /\ t.phase = "state" => t = [phase |-> "state", epoch |-> t.epoch, during |-> t.during]
  /\ t.phase = "search" => t = [phase |-> "search", state |-> t.state, during |-> t.during]
  /\ t.phase = "fallback" => t = [phase |-> "fallback", during |-> t.during]

\* What stands now is among what the search may answer with.
SeesNow(t) == \A k \in VectorKeys : \A row : Stands(row, k) => row \in t.during[k]

SearchSound(t) ==
  /\ SearchShape(t)
  /\ t.phase \in {"state", "search", "fallback"} =>
       SeesNow(t) /\ t.during = [k \in VectorKeys |-> t.during[k]]
  /\ t.phase = "state" => t.epoch \in Nat /\ t.epoch <= vectorEpoch
  /\ t.phase = "search" =>
       /\ IsState(t.state)
       /\ \A k \in VectorKeys : /\ Told(t.state.live[k], k, t.during)
                                /\ Findable(t.state, k, t.during)
  /\ t.phase = "done" => Answered(t.hits, t.idx, t.during)

SearchesSound == \A s \in Searchers : SearchSound(searcher[s])

\* The keys a refresh has read stand at its epoch.
ReadStands(K) ==
  refresh.epoch = vectorEpoch => \A k \in K : Stands(refresh.seen[k], k)

\* What an update has done to the index of its base.
Embedding ==
  LET bytes == contents[refresh.base.idx] IN
  /\ refresh.wanted = Replaced \cup New
  /\ refresh.unread \subseteq refresh.wanted /\ refresh.added \subseteq refresh.wanted
  /\ \A k \in VectorKeys \ refresh.wanted : bytes[k] = Resident(k)
  /\ \A k \in refresh.added :
       bytes[k] # 0 /\ (refresh.epoch = vectorEpoch => bytes[k] = refresh.seen[k][1])

\* The search that refreshes, and what it has read.
OwnerSound ==
  /\ refresh.mode \in {"diff", "build", "embed"}
  /\ refresh = [owner |-> refresh.owner, mode |-> refresh.mode, epoch |-> refresh.epoch,
                base |-> refresh.base, unread |-> refresh.unread, seen |-> refresh.seen,
                wanted |-> refresh.wanted, added |-> refresh.added]
  /\ refresh.owner \in Searchers
  /\ searcher[refresh.owner].phase = "state"
  /\ searcher[refresh.owner].epoch = refresh.epoch
  /\ refresh.seen \in Tables /\ refresh.unread \subseteq VectorKeys

\* The base of an update: the cached state, or one that was just loaded.
BaseSound ==
  /\ IsState(refresh.base) /\ refresh.base.epoch # refresh.epoch
  /\ refresh.base = states \/ states = NoState

RefreshSound ==
  refresh # NoRefresh =>
    /\ OwnerSound
    /\ refresh.mode # "embed" => ReadStands(VectorKeys \ refresh.unread)
    /\ refresh.mode # "build" => BaseSound
    /\ refresh.mode = "diff" => Describes(refresh.base) /\ refresh.added = {}
    /\ refresh.mode = "embed" => ReadStands(VectorKeys) /\ Embedding

Shaped ==
  /\ searcher = [s \in Searchers |-> searcher[s]]
  /\ drain = [d \in Drains |-> drain[d]]
  /\ disk = [generations |-> disk.generations, manifest |-> disk.manifest]

WorldTyped ==
  /\ rows \in Tables /\ vectorEpoch \in Nat /\ silent \in [VectorKeys -> SUBSET Rows]
  /\ \A k \in VectorKeys : silent[k] # {} => rows[k] = NoRow
  /\ contents \in [Objects -> Revisions]

IInv ==
  /\ WorldTyped /\ Shaped /\ CacheSound /\ QueueSound /\ DrainsSound
  /\ GenerationsSound /\ SearchesSound /\ RefreshSound

-----------------------------------------------------------------------------
(* The parts of the invariant, and what leaves them alone                  *)

\* What a row is made of.
LEMMA RowTyped ==
  /\ NoRow \in Rows /\ NoRow[1] = 0
  /\ \A r \in Rows : r[1] \in Nat /\ (r # NoRow => r[1] # 0)
BY FaissAssumption DEF Rows, NoRow

\* A state is not the absence of one.
LEMMA StateIsSome == ASSUME NEW st, IsState(st) PROVE st # NoState
BY FaissAssumption DEF IsState, NoState

\* A refresh is not the absence of one.
LEMMA ReadingIsSome ==
  ASSUME NEW r, NEW o, NEW m, NEW e, NEW b, NEW u, NEW n, NEW w, NEW a,
         r = [owner |-> o, mode |-> m, epoch |-> e, base |-> b, unread |-> u, seen |-> n,
              wanted |-> w, added |-> a]
  PROVE  r # NoRefresh
BY DEF NoRefresh

\* Steps that neither touch the store nor begin a search.
Steady ==
  /\ UNCHANGED <<rows, vectorEpoch, silent>>
  /\ \A s \in Searchers : searcher'[s].phase = "state" => searcher'[s] = searcher[s]

\* What was vouched for still is.
Trusting == \A e, live : Vouched(e, live) => Vouched(e, live)'

LEMMA SteadyTrusts == ASSUME Steady PROVE Trusting
<1> SUFFICES ASSUME NEW e, NEW live, Vouched(e, live) PROVE Vouched(e, live)'
  BY DEF Trusting
<1>1. UNCHANGED <<rows, vectorEpoch, silent>>
  BY DEF Steady
<1>2. e \in Nat /\ e <= vectorEpoch' /\ (live \in Tables)'
  BY <1>1 DEF Vouched, Tables
<1>3. (e = vectorEpoch => \A k \in VectorKeys : Stands(live[k], k))'
  BY <1>1 DEF Vouched, Stands
<1>4. ASSUME NEW s \in Searchers, searcher'[s].phase = "state", searcher'[s].epoch = e,
             NEW k \in VectorKeys
      PROVE  Told(live[k], k, searcher[s].during)'
  <2>1. searcher'[s] = searcher[s]
    BY <1>4 DEF Steady
  <2>2. Told(live[k], k, searcher[s].during)
    BY <1>4, <2>1 DEF Vouched
  <2> QED
    BY <1>1, <2>1, <2>2 DEF Told
<1> QED
  BY <1>2, <1>3, <1>4 DEF Vouched

\* A table that stands now vouches for itself.
LEMMA NowVouched ==
  ASSUME IInv, NEW live \in Tables, \A k \in VectorKeys : Stands(live[k], k)
  PROVE  Vouched(vectorEpoch, live)
<1>1. vectorEpoch \in Nat
  BY DEF IInv, WorldTyped
<1>2. ASSUME NEW s \in Searchers, searcher[s].phase = "state", NEW k \in VectorKeys
      PROVE  Told(live[k], k, searcher[s].during)
  <2>1. SeesNow(searcher[s])
    BY <1>2 DEF IInv, SearchesSound, SearchSound
  <2> QED
    BY <2>1 DEF SeesNow, Told
<1> QED
  BY <1>1, <1>2 DEF Vouched

\* A table that stands may be answered from.
LEMMA StandsTold ==
  ASSUME NEW row, NEW k \in VectorKeys, NEW t, Stands(row, k), SeesNow(t)
  PROVE  Told(row, k, t.during)
BY DEF SeesNow, Told

\* A search finds in an index what its state says is in it.
LEMMA DescribedFindable ==
  ASSUME NEW st, IsState(st), Describes(st), NEW k \in VectorKeys, NEW during,
         Told(st.live[k], k, during)
  PROVE  Findable(st, k, during)
<1>1. st.live[k] \in Rows
  BY DEF IsState, Tables
<1>2. st.live[k] # NoRow => contents[st.idx][k] = st.live[k][1]
  BY DEF Describes, Holds
<1> QED
  BY <1>1, <1>2, RowTyped DEF Findable, Told

\* What is whole stays whole while its object is left alone.
LEMMA WholeStays ==
  ASSUME NEW st, Whole(st), Trusting, contents'[st.idx] = contents[st.idx],
         Refreshes("embed") => Refreshes("embed")'
  PROVE  Whole(st)'
<1>1. IsState(st)' /\ Vouched(st.epoch, st.live)'
  BY DEF Whole, IsState, Trusting, Tables, Revisions
<1>2. Describes(st) => Describes(st)'
  BY DEF Describes, Holds
<1> QED
  BY <1>1, <1>2 DEF Whole

LEMMA NotNewerStays ==
  ASSUME NEW st, NotNewer(st), UNCHANGED states,
         Updating' => Updating /\ refresh'.base = refresh.base
  PROVE  NotNewer(st)'
BY DEF NotNewer

\* Nothing is newer than a state of an object of its own.
LEMMA FreshNotNewer ==
  ASSUME NEW st, ~Updating', st.idx # states'.idx \/ states' = NoState
  PROVE  NotNewer(st)'
BY DEF NotNewer

\* A writer thread that does not move.
LEMMA DrainStays ==
  ASSUME NEW t, DrainSound(t), Trusting, mutations \in Nat,
         t.phase \in {"serialize", "publish"} /\ NotNewer(t.state) => NotNewer(t.state)',
         \/ /\ UNCHANGED mutations /\ (Updating' => Updating)
            /\ t.phase = "serialize" /\ ~Updating => contents'[t.state.idx] = contents[t.state.idx]
         \/ mutations' = mutations + 1
  PROVE  DrainSound(t)'
<1>1. CASE t.phase = "serialize"
  <2>1. /\ IsState(t.state) /\ Vouched(t.state.epoch, t.state.live) /\ NotNewer(t.state)
        /\ t.mutations \in Nat /\ t.mutations <= mutations
        /\ Updating => t.mutations < mutations
        /\ t.mutations = mutations => Describes(t.state)
    BY <1>1 DEF DrainSound
  <2>2. IsState(t.state)' /\ Vouched(t.state.epoch, t.state.live)' /\ NotNewer(t.state)'
    BY <1>1, <2>1 DEF IsState, Trusting, Tables, Revisions
  <2>3. t.mutations <= mutations' /\ (Updating' => t.mutations < mutations')
    BY <2>1
  <2>4. t.mutations = mutations' => Describes(t.state)'
    BY <1>1, <2>1 DEF Describes, Holds
  <2> QED
    BY <1>1, <2>1, <2>2, <2>3, <2>4 DEF DrainSound
<1>2. CASE t.phase = "publish"
  BY <1>2 DEF DrainSound, IsState, Tables, Revisions
<1> QED
  BY <1>1, <1>2 DEF DrainSound

\* A search that does not move while the store does not.
LEMMA SearchStays ==
  ASSUME NEW t, SearchSound(t), UNCHANGED <<rows, vectorEpoch, silent>>, torn \subseteq torn',
         t.phase = "search" =>
           /\ contents'[t.state.idx] = contents[t.state.idx]
           /\ \A k \in VectorKeys :
                Missing(t.state.idx, k) => Missing(t.state.idx, k)' \/ t.state.idx \in torn'
  PROVE  SearchSound(t)'
<1>1. /\ SearchShape(t)'
      /\ t.phase \in {"state", "search", "fallback"} =>
           SeesNow(t)' /\ t.during = [k \in VectorKeys |-> t.during[k]]
      /\ t.phase = "state" => t.epoch \in Nat /\ t.epoch <= vectorEpoch'
  BY DEF SearchSound, SearchShape, SeesNow, Stands
<1>2. ASSUME t.phase = "search"
      PROVE  /\ IsState(t.state)'
             /\ \A k \in VectorKeys : /\ Told(t.state.live[k], k, t.during)'
                                      /\ Findable(t.state, k, t.during)'
  <2>1. IsState(t.state)'
    BY <1>2 DEF SearchSound, IsState, Tables, Revisions
  <2>2. ASSUME NEW k \in VectorKeys
        PROVE  Told(t.state.live[k], k, t.during)' /\ Findable(t.state, k, t.during)'
    <3>1. Told(t.state.live[k], k, t.during) /\ Findable(t.state, k, t.during)
      BY <1>2 DEF SearchSound
    <3> QED
      BY <1>2, <3>1 DEF Told, Findable
  <2> QED
    BY <2>1, <2>2
<1>3. t.phase = "done" => Answered(t.hits, t.idx, t.during)'
  BY DEF SearchSound, Answered
<1> QED
  BY <1>1, <1>2, <1>3 DEF SearchSound

\* A search that holds what it can find.
LEMMA SearchFinds ==
  ASSUME NEW t, SearchSound(t), UNCHANGED <<rows, vectorEpoch, silent>>, torn \subseteq torn',
         t.phase = "search" => \A k \in VectorKeys : Findable(t.state, k, t.during)'
  PROVE  SearchSound(t)'
<1>1. t.phase = "search" =>
        (IsState(t.state) /\ \A k \in VectorKeys : Told(t.state.live[k], k, t.during))'
  BY DEF SearchSound, IsState, Told, Tables, Revisions, Rows
<1> QED
  BY <1>1 DEF SearchSound, SearchShape, SeesNow, Stands, Answered

\* Generations that are still on disk.
LEMMA GenerationsStay ==
  ASSUME IInv, Trusting, disk'.generations \subseteq disk.generations
  PROVE  GenerationsSound'
<1> SUFFICES ASSUME NEW g \in disk'.generations PROVE GenerationSound(g)'
  BY DEF GenerationsSound
<1>1. GenerationSound(g)
  BY DEF IInv, GenerationsSound
<1> QED
  BY <1>1 DEF GenerationSound, Trusting, Holds, Revisions

\* One search moves.
LEMMA OneMoves ==
  ASSUME IInv, NEW s \in Searchers, NEW v, searcher' = [searcher EXCEPT ![s] = v]
  PROVE  /\ searcher' = [x \in Searchers |-> searcher'[x]] /\ searcher'[s] = v
         /\ \A x \in Searchers : x # s => searcher'[x] = searcher[x]
<1>1. searcher = [x \in Searchers |-> searcher[x]]
  BY DEF IInv, Shaped
<1> QED
  BY <1>1

\* One writer thread moves.
LEMMA OneDrains ==
  ASSUME IInv, NEW d \in Drains, NEW v, drain' = [drain EXCEPT ![d] = v]
  PROVE  /\ drain' = [x \in Drains |-> drain'[x]] /\ drain'[d] = v
         /\ \A x \in Drains : x # d => drain'[x] = drain[x]
<1>1. drain = [x \in Drains |-> drain[x]]
  BY DEF IInv, Shaped
<1> QED
  BY <1>1

-----------------------------------------------------------------------------
(* The store and the searches move                                         *)

\* Steps that leave indexes, refresh and writer alone.
LEMMA WorldMoves ==
  ASSUME IInv, UNCHANGED <<states, contents, refresh, writerVars, mutations, disk>>, Trusting,
         WorldTyped', searcher' = [s \in Searchers |-> searcher'[s]], SearchesSound',
         RefreshSound'
  PROVE  IInv'
<1>1. UNCHANGED <<states, contents, refresh, pending, inflightWrite, persisted, drain,
                  mutations, disk>>
  BY DEF writerVars
<1>2. Shaped'
  BY <1>1 DEF IInv, Shaped
<1>3. \A mode : Refreshes(mode)' = Refreshes(mode)
  BY <1>1 DEF Refreshes
<1>4. Updating' = Updating
  BY <1>3 DEF Updating
<1>5. \A st : NotNewer(st) => NotNewer(st)'
  BY <1>1, <1>4, NotNewerStays
<1>6. \A st : Whole(st) => Whole(st)'
  BY <1>1, <1>3, WholeStays
<1>7. CacheSound'
  BY <1>1, <1>6 DEF IInv, CacheSound
<1>8. QueueSound'
  BY <1>1, <1>5, <1>6 DEF IInv, QueueSound, MaybeState, IsState, Tables, Revisions
<1>9. DrainsSound'
  <2>1. ASSUME NEW d \in Drains PROVE DrainSound(drain[d])'
    <3>1. DrainSound(drain[d])
      BY DEF IInv, DrainsSound
    <3>2. mutations \in Nat
      BY DEF IInv, DrainsSound
    <3>3. ASSUME NEW t, DrainSound(t) PROVE DrainSound(t)'
      BY <1>1, <1>4, <1>5, <3>2, <3>3, DrainStays
    <3> QED
      BY <1>1, <3>1, <3>3
  <2> QED
    BY <1>1, <2>1 DEF IInv, DrainsSound
<1>10. GenerationsSound'
  BY <1>1, GenerationsStay
<1> QED
  BY <1>2, <1>7, <1>8, <1>9, <1>10 DEF IInv

\* Any row is seen by the searches that run when it is committed.
LEMMA WitnessedSound ==
  ASSUME IInv, UNCHANGED <<contents, refresh, torn>>, rows' \in Tables,
         vectorEpoch' \in Nat, vectorEpoch <= vectorEpoch',
         \A k \in VectorKeys : silent'[k] \subseteq silent[k] \cup {rows[k]},
         searcher' = Witnessed(rows')
  PROVE  /\ searcher' = [s \in Searchers |-> searcher'[s]] /\ SearchesSound'
         /\ \A s \in Searchers :
              searcher[s].phase = "state" \/ searcher'[s].phase = "state" =>
                /\ searcher'[s].phase = "state" /\ searcher[s].phase = "state"
                /\ searcher'[s].epoch = searcher[s].epoch
                /\ \A k \in VectorKeys : searcher[s].during[k] \subseteq searcher'[s].during[k]
<1>1. searcher' = [s \in Searchers |-> searcher'[s]]
  BY DEF Witnessed
<1>2. ASSUME NEW s \in Searchers
      PROVE  /\ SearchSound(searcher[s])'
             /\ searcher[s].phase = "state" \/ searcher'[s].phase = "state" =>
                  /\ searcher'[s].phase = "state" /\ searcher[s].phase = "state"
                  /\ searcher'[s].epoch = searcher[s].epoch
                  /\ \A k \in VectorKeys : searcher[s].during[k] \subseteq searcher'[s].during[k]
  <2> DEFINE seen == [k \in VectorKeys |-> searcher[s].during[k] \cup {rows'[k]}]
  <2> PICK t, d : t = searcher[s] /\ d = seen
    OBVIOUS
  <2>1. SearchSound(t)
    BY DEF IInv, SearchesSound
  <2>2. /\ d = [k \in VectorKeys |-> d[k]]
        /\ \A k \in VectorKeys : rows'[k] \in d[k] /\ t.during[k] \subseteq d[k]
    OBVIOUS
  <2>20. ASSUME t.phase \in {"state", "search", "fallback"},
                NEW k \in VectorKeys, NEW row, Stands(row, k)'
         PROVE  row \in d[k]
    <3>1. \A x : Stands(x, k) => x \in t.during[k]
      BY <2>1, <2>20 DEF SearchSound, SeesNow
    <3>2. row = rows'[k] \/ Stands(row, k)
      BY <2>20 DEF Stands
    <3> QED
      BY <2>2, <3>1, <3>2
  <2>3. CASE t.phase \in {"idle", "done"}
    <3>1. searcher'[s] = t
      BY <2>3 DEF Witnessed
    <3>2. SearchSound(t)'
      BY <2>1, <2>3 DEF SearchSound, SearchShape, Answered
    <3> QED
      BY <2>3, <3>1, <3>2
  <2>4. CASE t.phase = "state"
    <3>1. t = [phase |-> "state", epoch |-> t.epoch, during |-> t.during]
      BY <2>1, <2>4 DEF SearchSound, SearchShape
    <3> PICK u : u = [phase |-> "state", epoch |-> t.epoch, during |-> d]
      OBVIOUS
    <3>2. searcher'[s] = u
      BY <2>4, <3>1 DEF Witnessed
    <3>3. SearchSound(u)'
      <4>1. t.epoch \in Nat /\ t.epoch <= vectorEpoch'
        BY <2>1, <2>4 DEF SearchSound, IInv, WorldTyped
      <4> QED
        BY <2>2, <2>4, <2>20, <4>1 DEF SearchSound, SearchShape, SeesNow
    <3> QED
      BY <2>2, <2>4, <3>2, <3>3
  <2>5. CASE t.phase = "search"
    <3>1. t = [phase |-> "search", state |-> t.state, during |-> t.during]
      BY <2>1, <2>5 DEF SearchSound, SearchShape
    <3> PICK u : u = [phase |-> "search", state |-> t.state, during |-> d]
      OBVIOUS
    <3>2. searcher'[s] = u
      BY <2>5, <3>1 DEF Witnessed
    <3>3. IsState(t.state)'
      BY <2>1, <2>5 DEF SearchSound, IsState, Tables, Revisions
    <3>4. ASSUME NEW k \in VectorKeys
          PROVE  Told(t.state.live[k], k, d)' /\ Findable(t.state, k, d)'
      <4>1. Told(t.state.live[k], k, t.during) /\ Findable(t.state, k, t.during)
        BY <2>1, <2>5 DEF SearchSound
      <4>2. t.during[k] \subseteq d[k]
        BY <2>2
      <4> QED
        BY <4>1, <4>2 DEF Told, Findable, Missing, Refreshes
    <3>5. SearchSound(u)'
      BY <2>2, <2>5, <2>20, <3>3, <3>4 DEF SearchSound, SearchShape, SeesNow
    <3> QED
      BY <2>5, <3>2, <3>5
  <2>6. CASE t.phase = "fallback"
    <3>1. t = [phase |-> "fallback", during |-> t.during]
      BY <2>1, <2>6 DEF SearchSound, SearchShape
    <3> PICK u : u = [phase |-> "fallback", during |-> d]
      OBVIOUS
    <3>2. searcher'[s] = u
      BY <2>6, <3>1 DEF Witnessed
    <3>3. SearchSound(u)'
      BY <2>2, <2>6, <2>20 DEF SearchSound, SearchShape, SeesNow
    <3> QED
      BY <2>6, <3>2, <3>3
  <2> QED
    BY <2>1, <2>3, <2>4, <2>5, <2>6 DEF SearchSound, SearchShape
<1> QED
  BY <1>1, <1>2 DEF SearchesSound

LEMMA CommitSound ==
  ASSUME IInv, NEW k \in VectorKeys, NEW row \in Rows, Commit(k, row)
  PROVE  IInv'
<1>1. /\ rows' = [rows EXCEPT ![k] = row] /\ vectorEpoch' = vectorEpoch + 1
      /\ silent' = NoneSilent /\ searcher' = Witnessed(rows')
      /\ UNCHANGED <<states, contents, refresh, writerVars, mutations, disk, flush, torn>>
  BY DEF Commit
<1>2. WorldTyped'
  <2>1. /\ silent' \in [VectorKeys -> SUBSET Rows]
        /\ \A j \in VectorKeys : silent'[j] # {} => rows'[j] = NoRow
    BY <1>1 DEF NoneSilent
  <2>2. rows' \in Tables /\ vectorEpoch' \in Nat /\ contents' \in [Objects -> Revisions]
    BY <1>1 DEF IInv, WorldTyped, Tables
  <2> QED
    BY <2>1, <2>2 DEF WorldTyped, Tables, Rows, Revisions
<1>3. /\ vectorEpoch \in Nat /\ vectorEpoch' \in Nat /\ vectorEpoch < vectorEpoch'
      /\ vectorEpoch <= vectorEpoch' /\ rows' \in Tables
      /\ \A j \in VectorKeys : silent'[j] \subseteq silent[j] \cup {rows[j]}
  BY <1>1, <1>2 DEF IInv, WorldTyped, Tables, Rows, NoneSilent
<1>4. /\ searcher' = [s \in Searchers |-> searcher'[s]] /\ SearchesSound'
      /\ \A s \in Searchers :
           searcher[s].phase = "state" \/ searcher'[s].phase = "state" =>
             /\ searcher'[s].phase = "state" /\ searcher[s].phase = "state"
             /\ searcher'[s].epoch = searcher[s].epoch
             /\ \A j \in VectorKeys : searcher[s].during[j] \subseteq searcher'[s].during[j]
  BY <1>1, <1>3, WitnessedSound
<1>5. Trusting
  <2> SUFFICES ASSUME NEW e, NEW live, Vouched(e, live) PROVE Vouched(e, live)'
    BY DEF Trusting
  <2>1. e \in Nat /\ e <= vectorEpoch' /\ e # vectorEpoch' /\ live \in Tables
    BY <1>3 DEF Vouched
  <2>2. ASSUME NEW s \in Searchers, searcher'[s].phase = "state", searcher'[s].epoch = e,
               NEW j \in VectorKeys
        PROVE  Told(live[j], j, searcher[s].during)'
    <3>1. Told(live[j], j, searcher[s].during)
      BY <1>4, <2>2 DEF Vouched
    <3>2. searcher[s].during[j] \subseteq searcher'[s].during[j]
      BY <1>4, <2>2
    <3> QED
      BY <1>1, <3>1, <3>2 DEF Told
  <2> QED
    BY <2>1, <2>2 DEF Vouched, Tables, Rows
<1>6. RefreshSound'
  <2> SUFFICES ASSUME refresh # NoRefresh PROVE RefreshSound'
    BY <1>1 DEF RefreshSound
  <2>1. RefreshSound /\ OwnerSound
    BY DEF IInv, RefreshSound
  <2>2. OwnerSound'
    BY <1>1, <1>4, <2>1 DEF OwnerSound, Tables, Rows
  <2>3. refresh.epoch # vectorEpoch'
    <3>1. searcher[refresh.owner].epoch <= vectorEpoch /\ searcher[refresh.owner].epoch \in Nat
      BY <2>1 DEF OwnerSound, IInv, SearchesSound, SearchSound
    <3> QED
      BY <1>3, <2>1, <3>1 DEF OwnerSound
  <2>4. \A K : ReadStands(K)'
    BY <1>1, <2>3 DEF ReadStands
  <2>5. (refresh.mode # "build" => BaseSound)'
    BY <1>1, <2>1 DEF RefreshSound, BaseSound, IsState, Tables, Revisions, Rows
  <2>6. (refresh.mode = "diff" => Describes(refresh.base) /\ refresh.added = {})'
    BY <1>1, <2>1, SMTT(40) DEF RefreshSound, Describes, Holds
  <2>7. refresh.mode = "embed" => Embedding'
    <3> SUFFICES ASSUME refresh.mode = "embed" PROVE Embedding'
      OBVIOUS
    <3>1. Embedding
      BY <2>1 DEF RefreshSound
    <3> QED
      BY <1>1, <2>3, <3>1 DEF Embedding, Replaced, New, Resident
  <2> QED
    BY <1>1, <2>2, <2>4, <2>5, <2>6, <2>7 DEF RefreshSound
<1> QED
  BY <1>1, <1>2, <1>4, <1>5, <1>6, WorldMoves

LEMMA CascadeSound ==
  ASSUME IInv, NEW k \in VectorKeys, CascadeSilently(k)
  PROVE  IInv'
<1>1. /\ rows' = [rows EXCEPT ![k] = NoRow] /\ silent' = [silent EXCEPT ![k] = @ \cup {rows[k]}]
      /\ searcher' = Witnessed(rows')
      /\ UNCHANGED <<vectorEpoch, states, contents, refresh, writerVars, mutations, disk, flush,
                     torn>>
  BY DEF CascadeSilently
<1>2. WorldTyped'
  <2>1. rows[k] \in Rows /\ silent \in [VectorKeys -> SUBSET Rows]
    BY DEF IInv, WorldTyped, Tables
  <2>2. /\ silent' \in [VectorKeys -> SUBSET Rows]
        /\ \A j \in VectorKeys : silent'[j] # {} => rows'[j] = NoRow
    BY <1>1, <2>1 DEF IInv, WorldTyped, Tables
  <2>3. rows' \in Tables /\ vectorEpoch' \in Nat /\ contents' \in [Objects -> Revisions]
    BY <1>1, RowTyped DEF IInv, WorldTyped, Tables
  <2> QED
    BY <2>2, <2>3 DEF WorldTyped, Tables, Rows, Revisions
<1>3. /\ vectorEpoch \in Nat /\ vectorEpoch' = vectorEpoch /\ vectorEpoch <= vectorEpoch'
      /\ rows' \in Tables /\ rows \in Tables
      /\ \A j \in VectorKeys : /\ silent'[j] \subseteq silent[j] \cup {rows[j]}
                               /\ {rows[j]} \cup silent[j] \subseteq {rows'[j]} \cup silent'[j]
  BY <1>1, RowTyped DEF IInv, WorldTyped, Tables
<1>4. /\ searcher' = [s \in Searchers |-> searcher'[s]] /\ SearchesSound'
      /\ \A s \in Searchers :
           searcher[s].phase = "state" \/ searcher'[s].phase = "state" =>
             /\ searcher'[s].phase = "state" /\ searcher[s].phase = "state"
             /\ searcher'[s].epoch = searcher[s].epoch
             /\ \A j \in VectorKeys : searcher[s].during[j] \subseteq searcher'[s].during[j]
  BY <1>1, <1>3, WitnessedSound
<1>5. ASSUME NEW row, NEW j \in VectorKeys, Stands(row, j) PROVE Stands(row, j)'
  BY <1>3, <1>5 DEF Stands
<1>6. Trusting
  <2> SUFFICES ASSUME NEW e, NEW live, Vouched(e, live) PROVE Vouched(e, live)'
    BY DEF Trusting
  <2>1. e \in Nat /\ e <= vectorEpoch' /\ live \in Tables
    BY <1>3 DEF Vouched
  <2>2. (e = vectorEpoch => \A j \in VectorKeys : Stands(live[j], j))'
    BY <1>3, <1>5 DEF Vouched
  <2>3. ASSUME NEW s \in Searchers, searcher'[s].phase = "state", searcher'[s].epoch = e,
               NEW j \in VectorKeys
        PROVE  Told(live[j], j, searcher[s].during)'
    <3>1. Told(live[j], j, searcher[s].during)
      BY <1>4, <2>3 DEF Vouched
    <3>2. searcher[s].during[j] \subseteq searcher'[s].during[j]
      BY <1>4, <2>3
    <3> QED
      BY <1>3, <3>1, <3>2 DEF Told
  <2> QED
    BY <2>1, <2>2, <2>3 DEF Vouched, Tables, Rows
<1>7. RefreshSound'
  <2> SUFFICES ASSUME refresh # NoRefresh PROVE RefreshSound'
    BY <1>1 DEF RefreshSound
  <2>1. RefreshSound /\ OwnerSound
    BY DEF IInv, RefreshSound
  <2>2. OwnerSound'
    BY <1>1, <1>4, <2>1 DEF OwnerSound, Tables, Rows
  <2>3. ReadStands(VectorKeys) => ReadStands(VectorKeys)'
    BY <1>1, <1>5 DEF ReadStands
  <2>4. (refresh.mode # "embed" => ReadStands(VectorKeys \ refresh.unread))'
    BY <1>1, <1>5, <2>1 DEF RefreshSound, ReadStands
  <2>5. (refresh.mode # "build" => BaseSound)'
    BY <1>1, <2>1 DEF RefreshSound, BaseSound, IsState, Tables, Revisions, Rows
  <2>6. (refresh.mode = "diff" => Describes(refresh.base) /\ refresh.added = {})'
    BY <1>1, <2>1 DEF RefreshSound, Describes, Holds
  <2>7. refresh.mode = "embed" => Embedding'
    BY <1>1, <2>1 DEF RefreshSound, Embedding, Replaced, New, Resident
  <2> QED
    BY <1>1, <2>1, <2>2, <2>3, <2>4, <2>5, <2>6, <2>7 DEF RefreshSound
<1> QED
  BY <1>1, <1>2, <1>4, <1>6, <1>7, WorldMoves

\* A refresh whose owner and indexes are left alone.
LEMMA RefreshStays ==
  ASSUME IInv, UNCHANGED <<rows, vectorEpoch, silent, contents, states, refresh>>,
         \A s \in Searchers : searcher[s].phase = "state" => searcher'[s] = searcher[s]
  PROVE  RefreshSound'
<1> SUFFICES ASSUME refresh # NoRefresh PROVE RefreshSound'
  BY DEF RefreshSound
<1>1. RefreshSound /\ OwnerSound
  BY DEF IInv, RefreshSound
<1>2. searcher'[refresh.owner] = searcher[refresh.owner]
  BY <1>1 DEF OwnerSound
<1>3. OwnerSound'
  BY <1>1, <1>2 DEF OwnerSound, Tables, Rows
<1>4. \A K : ReadStands(K) => ReadStands(K)'
  BY DEF ReadStands, Stands
<1>5. (refresh.mode # "build" => BaseSound)'
  BY <1>1 DEF RefreshSound, BaseSound, IsState, Tables, Revisions, Rows
<1>6. (refresh.mode = "diff" => Describes(refresh.base) /\ refresh.added = {})'
  BY <1>1 DEF RefreshSound, Describes, Holds
<1>7. refresh.mode = "embed" => Embedding'
  BY <1>1 DEF RefreshSound, Embedding, Replaced, New, Resident
<1> QED
  BY <1>1, <1>3, <1>4, <1>5, <1>6, <1>7 DEF RefreshSound

\* One search moves, and nothing else.
LEMMA SearchMoves ==
  ASSUME IInv, NEW s \in Searchers, searcher[s].phase # "state" \/ refresh = NoRefresh, NEW v,
         searcher' = [searcher EXCEPT ![s] = v], SearchSound(v),
         UNCHANGED <<rows, vectorEpoch, states, contents, refresh, writerVars, mutations, disk,
                     flush, torn, silent>>,
         v.phase = "state" => v.epoch = vectorEpoch /\ SeesNow(v)
  PROVE  IInv'
<1>1. /\ searcher' = [x \in Searchers |-> searcher'[x]] /\ searcher'[s] = v
      /\ \A x \in Searchers : x # s => searcher'[x] = searcher[x]
  BY OneMoves
<1>2. Trusting
  <2> SUFFICES ASSUME NEW e, NEW live, Vouched(e, live) PROVE Vouched(e, live)'
    BY DEF Trusting
  <2>1. e \in Nat /\ e <= vectorEpoch' /\ (live \in Tables)'
    BY DEF Vouched, Tables, Rows
  <2>2. (e = vectorEpoch => \A k \in VectorKeys : Stands(live[k], k))'
    BY DEF Vouched, Stands
  <2>3. ASSUME NEW x \in Searchers, searcher'[x].phase = "state", searcher'[x].epoch = e,
               NEW k \in VectorKeys
        PROVE  Told(live[k], k, searcher[x].during)'
    <3>1. CASE x # s
      <4>1. Told(live[k], k, searcher[x].during)
        BY <1>1, <2>3, <3>1 DEF Vouched
      <4> QED
        BY <1>1, <3>1, <4>1 DEF Told
    <3>2. CASE x = s
      <4>1. e = vectorEpoch /\ SeesNow(v)
        BY <1>1, <2>3, <3>2
      <4>2. Stands(live[k], k)
        BY <4>1 DEF Vouched
      <4> QED
        BY <1>1, <3>2, <4>1, <4>2 DEF SeesNow, Told
    <3> QED
      BY <3>1, <3>2
  <2> QED
    BY <2>1, <2>2, <2>3 DEF Vouched
<1>3. ASSUME NEW t, SearchSound(t) PROVE SearchSound(t)'
  <2>1. \A k \in VectorKeys : Missing(t.state.idx, k) => Missing(t.state.idx, k)'
    BY DEF Missing, Refreshes
  <2> QED
    BY <1>3, <2>1, SearchStays
<1>4. SearchesSound'
  <2>1. ASSUME NEW x \in Searchers PROVE SearchSound(searcher[x])'
    <3>1. SearchSound(searcher'[x])
      BY <1>1 DEF IInv, SearchesSound
    <3> QED
      BY <1>3, <3>1
  <2> QED
    BY <2>1 DEF SearchesSound
<1>5. WorldTyped'
  BY DEF IInv, WorldTyped, Tables, Rows, Revisions
<1>6. RefreshSound'
  <2>1. CASE refresh = NoRefresh
    BY <2>1 DEF RefreshSound
  <2>2. CASE refresh # NoRefresh
    BY <1>1, <2>2, RefreshStays
  <2> QED
    BY <2>1, <2>2
<1> QED
  BY <1>1, <1>2, <1>4, <1>5, <1>6, WorldMoves

LEMMA BeginSearchSound ==
  ASSUME IInv, NEW s \in Searchers, BeginSearch(s)
  PROVE  IInv'
<1> PICK v : v = [phase |-> "state", epoch |-> vectorEpoch,
                  during |-> [k \in VectorKeys |-> {rows[k]} \cup silent[k]]]
  OBVIOUS
<1>1. /\ searcher[s].phase = "idle" /\ searcher' = [searcher EXCEPT ![s] = v]
      /\ UNCHANGED <<rows, vectorEpoch, states, contents, refresh, writerVars, mutations, disk,
                     flush, torn, silent>>
  BY DEF BeginSearch
<1>2. vectorEpoch \in Nat
  BY DEF IInv, WorldTyped
<1>3. SeesNow(v)
  BY DEF SeesNow, Stands
<1>4. SearchSound(v)
  BY <1>2, <1>3 DEF SearchSound, SearchShape
<1> QED
  BY <1>1, <1>3, <1>4, SearchMoves

\* A search that goes on with a state that is whole.
LEMMA SearchWithSound ==
  ASSUME IInv, NEW s \in Searchers, searcher[s].phase = "state", NEW st, IsState(st),
         Describes(st), \A k \in VectorKeys : Told(st.live[k], k, searcher[s].during)
  PROVE  SearchSound(SearchWith(s, st))
<1> PICK v : v = SearchWith(s, st)
  OBVIOUS
<1>1. /\ v.phase = "search" /\ v.state = st /\ v.during = searcher[s].during
      /\ v = [phase |-> "search", state |-> v.state, during |-> v.during]
  BY DEF SearchWith
<1>2. SearchSound(searcher[s])
  BY DEF IInv, SearchesSound
<1>3. SeesNow(v) /\ v.during = [k \in VectorKeys |-> v.during[k]]
  BY <1>1, <1>2 DEF SearchSound, SeesNow
<1>4. \A k \in VectorKeys : Findable(v.state, k, v.during)
  BY <1>1, DescribedFindable
<1>5. SearchSound(v)
  BY <1>1, <1>3, <1>4 DEF SearchSound, SearchShape
<1> QED
  BY <1>5

LEMMA UseCachedSound ==
  ASSUME IInv, NEW s \in Searchers, UseCached(s)
  PROVE  IInv'
<1>1. /\ searcher[s].phase = "state" /\ refresh = NoRefresh /\ states # NoState
      /\ states.epoch = searcher[s].epoch
      /\ searcher' = [searcher EXCEPT ![s] = SearchWith(s, states)]
      /\ UNCHANGED <<rows, vectorEpoch, states, contents, refresh, writerVars, mutations, disk,
                     flush, torn, silent>>
  BY DEF UseCached, Unlocked, Current
<1>2. Whole(states)
  BY <1>1 DEF IInv, CacheSound
<1>3. IsState(states) /\ Describes(states)
  BY <1>1, <1>2 DEF Whole, Refreshes
<1>4. \A k \in VectorKeys : Told(states.live[k], k, searcher[s].during)
  BY <1>1, <1>2 DEF Whole, Vouched
<1>5. SearchSound(SearchWith(s, states))
  BY <1>1, <1>3, <1>4, SearchWithSound
<1>6. SearchWith(s, states).phase = "search"
  BY DEF SearchWith
<1> QED
  BY <1>1, <1>5, <1>6, SearchMoves

LEMMA SearchStateSound ==
  ASSUME IInv, NEW s \in Searchers, SearchState(s)
  PROVE  IInv'
<1> DEFINE st == searcher[s].state
           found == [k \in VectorKeys |->
                       IF st.live[k] = NoRow \/ contents[st.idx][k] = 0 THEN NoRow
                       ELSE <<contents[st.idx][k], st.live[k][2]>>]
           lost == [phase |-> "fallback", during |-> searcher[s].during]
           over == [phase |-> "done", hits |-> found, idx |-> st.idx,
                    during |-> searcher[s].during]
<1>1. searcher[s].phase = "search" /\ refresh = NoRefresh
  BY DEF SearchState, Unlocked
<1>2. SearchSound(searcher[s])
  BY SMTT(40) DEF IInv, SearchesSound
<1>3. PICK v \in {lost, over} : searcher' = [searcher EXCEPT ![s] = v]
  BY DEF SearchState
<1>4. UNCHANGED <<rows, vectorEpoch, states, contents, refresh, writerVars, mutations, disk,
                  flush, torn, silent>>
  BY DEF SearchState
<1>5. CASE v = lost
  <2>1. SearchSound(v)
    BY <1>1, <1>2, <1>5 DEF SearchSound, SearchShape, SeesNow
  <2> QED
    BY <1>1, <1>3, <1>4, <1>5, <2>1, SearchMoves
<1>6. CASE v = over
  <2>1. ASSUME NEW k \in VectorKeys
        PROVE  IF found[k] = NoRow THEN NoRow \in searcher[s].during[k] \/ st.idx \in torn
               ELSE /\ \E r \in searcher[s].during[k] : r[1] = found[k][1]
                    /\ \E r \in searcher[s].during[k] : r[2] = found[k][2]
    <3> DEFINE bytes == contents[st.idx]
               seen == searcher[s].during[k]
    <3>1. Told(st.live[k], k, searcher[s].during) /\ Findable(st, k, searcher[s].during)
      BY <1>1, <1>2 DEF SearchSound
    <3>2. ~Missing(st.idx, k)
      BY <1>1, SMTT(40) DEF Missing, Refreshes
    <3>3. CASE st.live[k] = NoRow
      BY <3>1, <3>3, ZenonT(60) DEF Told
    <3>4. CASE st.live[k] # NoRow /\ bytes[k] = 0
      BY <3>1, <3>2, <3>4 DEF Findable
    <3>5. CASE st.live[k] # NoRow /\ bytes[k] # 0
      <4>1. found[k] = <<bytes[k], st.live[k][2]>>
        BY <3>5, SMTT(40)
      <4>2. found[k] # NoRow
        BY <3>5, <4>1 DEF NoRow
      <4>3. \E r \in seen : r[1] = bytes[k]
        BY <3>1, <3>5 DEF Findable
      <4>4. st.live[k] \in seen
        BY <3>1 DEF Told
      <4> HIDE DEF found, seen, bytes
      <4> QED
        BY <4>1, <4>2, <4>3, <4>4 DEF seen
    <3> QED
      BY <3>3, <3>4, <3>5
  <2>2. SearchSound(v)
    <3> HIDE DEF found
    <3>1. Answered(v.hits, v.idx, v.during)
      BY <1>6, <2>1 DEF Answered
    <3> QED
      BY <1>6, <3>1 DEF SearchSound, SearchShape
  <2> QED
    BY <1>1, <1>3, <1>4, <1>6, <2>2, SearchMoves, ZenonT(60)
<1> QED
  BY <1>5, <1>6

LEMMA SearchExactlySound ==
  ASSUME IInv, NEW s \in Searchers, SearchExactly(s)
  PROVE  IInv'
<1> DEFINE v == [phase |-> "done", hits |-> rows, idx |-> 0, during |-> searcher[s].during]
<1>1. /\ searcher[s].phase = "fallback" /\ searcher' = [searcher EXCEPT ![s] = v]
      /\ UNCHANGED <<rows, vectorEpoch, states, contents, refresh, writerVars, mutations, disk,
                     flush, torn, silent>>
  BY DEF SearchExactly
<1>2. \A k \in VectorKeys : rows[k] \in searcher[s].during[k]
  BY <1>1 DEF IInv, SearchesSound, SearchSound, SeesNow, Stands
<1>3. SearchSound(v)
  BY <1>2 DEF SearchSound, SearchShape, Answered
<1> QED
  BY <1>1, <1>3, SearchMoves

LEMMA EndSearchSound ==
  ASSUME IInv, NEW s \in Searchers, EndSearch(s)
  PROVE  IInv'
<1>1. /\ searcher[s].phase = "done" /\ searcher' = [searcher EXCEPT ![s] = NoSearch]
      /\ UNCHANGED <<rows, vectorEpoch, states, contents, refresh, writerVars, mutations, disk,
                     flush, torn, silent>>
  BY DEF EndSearch
<1>2. SearchSound(NoSearch) /\ NoSearch.phase = "idle"
  BY DEF SearchSound, SearchShape, NoSearch
<1> QED
  BY <1>1, <1>2, SearchMoves

-----------------------------------------------------------------------------
(* Indexes are loaded                                                      *)

\* A new object is one that nobody holds.
LEMMA FreshUnreferred ==
  ASSUME Allocatable
  PROVE  FreshObject \in Objects /\ FreshObject \notin Referred
BY DEF Allocatable, FreshObject

\* Who is referred to.
LEMMA ReferredTo ==
  /\ {states.idx, pending.idx, inflightWrite.idx, persisted.idx} \subseteq Referred
  /\ \A s \in Searchers : searcher[s].phase = "search" => searcher[s].state.idx \in Referred
  /\ \A d \in Drains :
       drain[d].phase \in {"serialize", "publish"} => drain[d].state.idx \in Referred
BY DEF Referred

\* An index object is written.
LEMMA ObjectWritten ==
  ASSUME WorldTyped, NEW i \in Objects, NEW bytes \in Revisions,
         contents' = [contents EXCEPT ![i] = bytes]
  PROVE  /\ contents' \in [Objects -> Revisions] /\ contents'[i] = bytes
         /\ \A j : j # i => contents'[j] = contents[j]
<1>1. contents \in [Objects -> Revisions]
  BY DEF WorldTyped
<1>2. \A j \in Objects : j # i => contents'[j] = contents[j]
  BY <1>1
<1> QED
  BY <1>1, <1>2

\* A published generation.
LEMMA PublishedSound ==
  ASSUME IInv, NEW g \in Published
  PROVE  GenerationSound(g)
BY DEF IInv, GenerationsSound, Published

\* The state that is loaded from a generation.
LEMMA LoadedSound ==
  ASSUME NEW g, GenerationSound(g), NEW i \in Objects, NEW st,
         st = State(g.epoch, i, g.live, g.tombs, g.number)
  PROVE  /\ st.epoch = g.epoch /\ st.idx = i /\ st.live = g.live /\ st.tombs = g.tombs
         /\ IsState(st)
         /\ contents'[i] = g.bytes => Describes(st)'
<1>1. /\ st.epoch = g.epoch /\ st.idx = i /\ st.live = g.live /\ st.tombs = g.tombs
  BY DEF State
<1>2. IsState(st)
  BY <1>1 DEF GenerationSound, Vouched, IsState
<1>3. contents'[i] = g.bytes => Describes(st)'
  BY <1>1 DEF GenerationSound, Describes, Holds
<1> QED
  BY <1>1, <1>2, <1>3

\* Once a refresh is over.
LEMMA IndexMoves ==
  ASSUME IInv, Trusting, UNCHANGED <<mutations, disk, inflightWrite>>, refresh' = NoRefresh,
         WorldTyped', CacheSound', SearchesSound',
         searcher' = [s \in Searchers |-> searcher'[s]],
         drain' = [d \in Drains |-> drain'[d]],
         pending' # NoState => Whole(pending)', NotNewer(pending)', MaybeState(persisted)',
         NotNewer(persisted)', NotNewer(inflightWrite)',
         \A d \in Drains : drain'[d] = drain[d] \/ drain'[d] = [phase |-> "next"],
         \A d \in Drains : drain[d].phase \in {"serialize", "publish"} =>
           \A x : x = drain[d].state => NotNewer(x)',
         \A d \in Drains : drain[d].phase = "serialize" /\ ~Updating =>
           contents'[drain[d].state.idx] = contents[drain[d].state.idx]
  PROVE  IInv'
<1>1. Shaped'
  BY DEF IInv, Shaped
<1>2. ~Updating'
  BY DEF Updating, Refreshes
<1>3. MaybeState(inflightWrite)'
  BY DEF IInv, QueueSound, MaybeState, IsState, Tables, Revisions, Rows
<1>4. QueueSound'
  BY <1>3 DEF QueueSound
<1>5. DrainsSound'
  <2>1. mutations \in Nat
    BY DEF IInv, DrainsSound
  <2>2. ASSUME NEW d \in Drains PROVE DrainSound(drain[d])'
    <3>1. CASE drain'[d] = drain[d]
      <4> PICK t : t = drain[d]
        OBVIOUS
      <4>1. DrainSound(t)
        BY DEF IInv, DrainsSound
      <4>2. t.phase \in {"serialize", "publish"} => NotNewer(t.state)'
        OBVIOUS
      <4>3. DrainSound(t)'
        BY <1>2, <2>1, <4>1, <4>2, DrainStays
      <4> QED
        BY <3>1, <4>3
    <3>2. CASE drain'[d] = [phase |-> "next"]
      BY <3>2 DEF DrainSound
    <3> QED
      BY <3>1, <3>2
  <2> QED
    BY <2>1, <2>2 DEF DrainsSound
<1>6. GenerationsSound'
  BY GenerationsStay
<1>7. RefreshSound'
  BY DEF RefreshSound
<1> QED
  BY <1>1, <1>4, <1>5, <1>6, <1>7 DEF IInv

\* A search takes a state that is whole.
LEMMA SearchTakes ==
  ASSUME IInv, UNCHANGED <<rows, vectorEpoch, silent>>, NEW s \in Searchers,
         searcher[s].phase = "state", NEW st, IsState(st), Describes(st)',
         \A k \in VectorKeys : Told(st.live[k], k, searcher[s].during),
         NEW v, v = SearchWith(s, st)
  PROVE  SearchSound(v)'
<1>1. /\ v.phase = "search" /\ v.state = st /\ v.during = searcher[s].during
      /\ v = [phase |-> "search", state |-> v.state, during |-> v.during]
  BY DEF SearchWith
<1>2. SearchSound(searcher[s])
  BY DEF IInv, SearchesSound
<1>3. SeesNow(v)' /\ v.during = [k \in VectorKeys |-> v.during[k]]
  BY <1>1, <1>2 DEF SearchSound, SeesNow, Stands
<1>4. ASSUME NEW k \in VectorKeys
      PROVE  Told(v.state.live[k], k, v.during)' /\ Findable(v.state, k, v.during)'
  <2>1. Told(st.live[k], k, v.during)
    BY <1>1
  <2>2. st.live[k] \in Rows
    BY DEF IsState, Tables
  <2>3. st.live[k] # NoRow => contents'[st.idx][k] = st.live[k][1]
    BY DEF Describes, Holds
  <2>4. Findable(st, k, v.during)'
    BY <2>1, <2>2, <2>3, RowTyped DEF Findable, Told
  <2> QED
    BY <1>1, <2>1, <2>4 DEF Told
<1>5. (IsState(v.state))'
  BY <1>1 DEF IsState, Tables, Revisions, Rows
<1> QED
  BY <1>1, <1>3, <1>4, <1>5 DEF SearchSound, SearchShape

\* Searches that hold objects which are left alone.
LEMMA OthersStay ==
  ASSUME IInv, UNCHANGED <<rows, vectorEpoch, silent>>, torn \subseteq torn',
         ~Refreshes("embed"), NEW s \in Searchers,
         \A i \in Referred : contents'[i] = contents[i]
  PROVE  \A t : t = searcher[s] => SearchSound(t)'
<1> SUFFICES ASSUME NEW t, t = searcher[s] PROVE SearchSound(t)'
  OBVIOUS
<1>1. SearchSound(t)
  BY DEF IInv, SearchesSound
<1>2. \A i, k : ~Missing(i, k)
  BY DEF Missing
<1>3. t.phase = "search" => t.state.idx \in Referred
  BY ReferredTo
<1> QED
  BY <1>1, <1>2, <1>3, SearchStays

LEMMA LoadPublishedSound ==
  ASSUME IInv, NEW s \in Searchers, LoadPublished(s)
  PROVE  IInv'
<1> PICK i : i = FreshObject
  OBVIOUS
<1> PICK g \in Published : /\ g.epoch = searcher[s].epoch
                           /\ states' = Loaded(g)
                           /\ contents' = [contents EXCEPT ![FreshObject] = g.bytes]
                           /\ searcher' = [searcher EXCEPT ![s] = SearchWith(s, Loaded(g))]
  BY DEF LoadPublished
<1> PICK st : st = State(g.epoch, i, g.live, g.tombs, g.number)
  OBVIOUS
<1> PICK v : v = SearchWith(s, st)
  OBVIOUS
<1>1. /\ searcher[s].phase = "state" /\ refresh = NoRefresh /\ Allocatable
      /\ UNCHANGED <<rows, vectorEpoch, refresh, writerVars, mutations, disk, flush, torn, silent>>
  BY DEF LoadPublished, Unlocked
<1>2. UNCHANGED <<pending, inflightWrite, persisted, drain>>
  BY <1>1 DEF writerVars
<1>3. i \in Objects /\ i \notin Referred
  BY <1>1, FreshUnreferred
<1>4. /\ states' = st /\ contents' = [contents EXCEPT ![i] = g.bytes]
      /\ searcher' = [searcher EXCEPT ![s] = v]
  BY DEF Loaded
<1>5. GenerationSound(g)
  BY PublishedSound
<1>6. /\ contents' \in [Objects -> Revisions] /\ contents'[i] = g.bytes
      /\ \A j : j # i => contents'[j] = contents[j]
  BY <1>3, <1>4, <1>5, ObjectWritten DEF IInv, GenerationSound
<1>7. /\ st.epoch = g.epoch /\ st.idx = i /\ st.live = g.live /\ IsState(st) /\ Describes(st)'
  BY <1>3, <1>5, <1>6, LoadedSound
<1>8. /\ searcher' = [x \in Searchers |-> searcher'[x]] /\ searcher'[s] = v
      /\ \A x \in Searchers : x # s => searcher'[x] = searcher[x]
  BY <1>4, OneMoves
<1>9. v.phase = "search"
  BY DEF SearchWith
<1>10. Trusting
  BY <1>1, <1>8, <1>9, SteadyTrusts DEF Steady
<1>11. WorldTyped'
  BY <1>1, <1>6 DEF IInv, WorldTyped, Tables, Rows, Revisions
<1>12. ~Refreshes("embed") /\ ~Refreshes("embed")' /\ ~Updating /\ ~Updating'
  BY <1>1 DEF Refreshes, Updating
<1>13. CacheSound'
  <2>1. Vouched(st.epoch, st.live)'
    BY <1>5, <1>7, <1>10 DEF GenerationSound, Trusting
  <2>2. Whole(st)'
    BY <1>7, <2>1 DEF Whole, IsState, Tables, Revisions, Rows
  <2> QED
    BY <1>4, <2>2 DEF CacheSound
<1>14. SearchesSound'
  <2>1. ASSUME NEW x \in Searchers PROVE SearchSound(searcher[x])'
    <3>1. CASE x = s
      <4>1. \A k \in VectorKeys : Told(st.live[k], k, searcher[s].during)
        BY <1>1, <1>5, <1>7 DEF GenerationSound, Vouched
      <4>2. SearchSound(v)'
        BY <1>1, <1>7, <4>1, SearchTakes
      <4> QED
        BY <1>8, <3>1, <4>2
    <3>2. CASE x # s
      BY <1>1, <1>3, <1>6, <1>8, <1>12, <3>2, OthersStay
    <3> QED
      BY <3>1, <3>2
  <2> QED
    BY <2>1 DEF SearchesSound
<1>15. /\ pending.idx # i /\ persisted.idx # i /\ inflightWrite.idx # i
       /\ \A d \in Drains :
            drain[d].phase \in {"serialize", "publish"} => drain[d].state.idx # i
  BY <1>3, ReferredTo
<1>16. \A x : x.idx # i => NotNewer(x)'
  BY <1>4, <1>7, <1>12, FreshNotNewer
<1>17. /\ NotNewer(pending)' /\ NotNewer(persisted)' /\ NotNewer(inflightWrite)'
       /\ \A d \in Drains : drain[d].phase \in {"serialize", "publish"} =>
            \A x : x = drain[d].state => NotNewer(x)'
  BY <1>2, <1>15, <1>16
<1>18. pending' # NoState => Whole(pending)'
  <2>1. pending # NoState => Whole(pending)
    BY DEF IInv, QueueSound
  <2>2. \A x : Whole(x) /\ x.idx # i => Whole(x)'
    BY <1>6, <1>10, <1>12, WholeStays
  <2> QED
    BY <1>2, <1>15, <2>1, <2>2
<1>19. MaybeState(persisted)'
  BY <1>2 DEF IInv, QueueSound, MaybeState, IsState, Tables, Revisions, Rows
<1>20. drain' = [d \in Drains |-> drain'[d]]
  BY <1>2 DEF IInv, Shaped
<1> QED
  BY <1>1, <1>2, <1>6, <1>8, <1>10, <1>11, <1>13, <1>14, <1>15, <1>17, <1>18, <1>19, <1>20,
     IndexMoves

-----------------------------------------------------------------------------
(* A refresh begins, reads and embeds                                      *)

\* A key that comes first.
LEMMA FirstKey ==
  ASSUME NEW K \in SUBSET VectorKeys, K # {}
  PROVE  (CHOOSE x \in K : \A y \in K : x <= y) \in K
<1>1. K \subseteq Nat
  BY FaissAssumption
<1>2. \E x \in K : \A y \in K : <<y, x>> \notin OpToRel(<, Nat)
  BY <1>1, WFMin, NatLessThanWellFounded
<1>3. ASSUME NEW y \in Nat, NEW x \in Nat, <<y, x>> \notin OpToRel(<, Nat)
      PROVE  ~(y < x)
  BY <1>3, Zenon DEF OpToRel
<1>4. PICK x \in K : \A y \in K : ~(y < x)
  BY <1>1, <1>2, <1>3
<1>5. \A y \in K : x <= y
  BY <1>1, <1>4
<1> QED
  BY <1>5

\* Steps of a refresh that leave the store, the searches and the queue alone.
LEMMA RefreshMoves ==
  ASSUME IInv, UNCHANGED <<rows, vectorEpoch, states, searcher, writerVars, disk, flush, torn,
                           silent>>,
         WorldTyped', RefreshSound', SearchesSound',
         Refreshes("embed") => Refreshes("embed")',
         \/ Refreshes("embed")' /\ Updating
         \/ \A i \in Referred : contents'[i] = contents[i],
         \/ UNCHANGED mutations /\ (Updating' => Updating /\ refresh'.base = refresh.base)
         \/ mutations' = mutations + 1 /\ (states = NoState => refresh'.base.idx \notin Referred)
  PROVE  IInv'
<1>1. UNCHANGED <<pending, inflightWrite, persisted, drain>>
  BY DEF writerVars
<1>2. Trusting
  BY SteadyTrusts DEF Steady
<1>3. Shaped'
  BY <1>1 DEF IInv, Shaped
<1>4. ASSUME NEW x, Whole(x), x.idx \in Referred PROVE Whole(x)'
  <2>1. CASE Refreshes("embed")'
    BY <1>2, <1>4, <2>1 DEF Whole, Trusting, IsState, Tables, Revisions, Rows
  <2>2. CASE ~Refreshes("embed")'
    <3>1. contents'[x.idx] = contents[x.idx]
      BY <1>4, <2>2
    <3> QED
      BY <1>2, <1>4, <2>2, <3>1, WholeStays
  <2> QED
    BY <2>1, <2>2
<1>5. ASSUME NEW x, NotNewer(x), x.idx \in Referred PROVE NotNewer(x)'
  <2>1. CASE Updating' => Updating /\ refresh'.base = refresh.base
    BY <1>5, <2>1, NotNewerStays
  <2>2. CASE states = NoState => refresh'.base.idx \notin Referred
    BY <1>5, <2>2 DEF NotNewer
  <2> QED
    BY <2>1, <2>2
<1>6. CacheSound'
  BY <1>4, ReferredTo DEF IInv, CacheSound
<1>7. QueueSound'
  <2>1. /\ pending # NoState => Whole(pending)
        /\ NotNewer(pending) /\ NotNewer(persisted) /\ NotNewer(inflightWrite)
    BY DEF IInv, QueueSound
  <2>2. /\ pending # NoState => Whole(pending)'
        /\ NotNewer(pending)' /\ NotNewer(persisted)' /\ NotNewer(inflightWrite)'
    BY <1>1, <1>4, <1>5, <2>1, ReferredTo
  <2>3. MaybeState(persisted)' /\ MaybeState(inflightWrite)'
    BY <1>1 DEF IInv, QueueSound, MaybeState, IsState, Tables, Revisions, Rows
  <2> QED
    BY <1>1, <2>2, <2>3 DEF QueueSound
<1>8. DrainsSound'
  <2>1. mutations \in Nat /\ mutations' \in Nat
    BY DEF IInv, DrainsSound
  <2>2. ASSUME NEW d \in Drains PROVE DrainSound(drain[d])'
    <3> PICK t : t = drain[d]
      OBVIOUS
    <3>1. DrainSound(t)
      BY DEF IInv, DrainsSound
    <3>2. t.phase \in {"serialize", "publish"} => t.state.idx \in Referred
      BY ReferredTo
    <3>3. t.phase \in {"serialize", "publish"} /\ NotNewer(t.state) => NotNewer(t.state)'
      BY <1>5, <3>2
    <3>4. CASE UNCHANGED mutations /\ (Updating' => Updating /\ refresh'.base = refresh.base)
      <4>1. t.phase = "serialize" /\ ~Updating => contents'[t.state.idx] = contents[t.state.idx]
        BY <3>2, <3>4
      <4>2. DrainSound(t)'
        BY <1>2, <2>1, <3>1, <3>3, <3>4, <4>1, DrainStays
      <4> QED
        BY <1>1, <4>2
    <3>5. CASE mutations' = mutations + 1
      <4>1. DrainSound(t)'
        BY <1>2, <2>1, <3>1, <3>3, <3>5, DrainStays
      <4> QED
        BY <1>1, <4>1
    <3> QED
      BY <3>4, <3>5
  <2> QED
    BY <2>1, <2>2 DEF DrainsSound
<1>9. GenerationsSound'
  BY <1>2, GenerationsStay
<1> QED
  BY <1>3, <1>6, <1>7, <1>8, <1>9 DEF IInv

\* No search notices while only objects change that nobody holds.
LEMMA SearchesStay ==
  ASSUME IInv, UNCHANGED <<rows, vectorEpoch, searcher, torn, silent>>, ~Refreshes("embed"),
         \A i \in Referred : contents'[i] = contents[i]
  PROVE  SearchesSound'
<1>1. ASSUME NEW s \in Searchers PROVE SearchSound(searcher[s])'
  BY OthersStay
<1> QED
  BY <1>1 DEF SearchesSound

\* A refresh that has read nothing.
LEMMA ReadingSound ==
  ASSUME IInv, NEW s \in Searchers, searcher[s].phase = "state", UNCHANGED searcher,
         NEW base, NEW mode \in {"diff", "build"}, refresh' = Reading(s, mode, base),
         mode = "diff" => /\ IsState(base) /\ Describes(base)' /\ base.epoch # searcher[s].epoch
                          /\ base = states' \/ states' = NoState
  PROVE  /\ RefreshSound' /\ refresh'.mode = mode /\ refresh'.base = base /\ ~Refreshes("embed")'
         /\ mode = "build" => ~Updating'
<1> PICK r : r = refresh'
  OBVIOUS
<1>1. /\ r.owner = s /\ r.mode = mode /\ r.epoch = searcher[s].epoch /\ r.base = base
      /\ r.unread = VectorKeys /\ r.seen = [k \in VectorKeys |-> NoRow]
      /\ r.wanted = {} /\ r.added = {}
      /\ r = [owner |-> r.owner, mode |-> r.mode, epoch |-> r.epoch, base |-> r.base,
              unread |-> r.unread, seen |-> r.seen, wanted |-> r.wanted, added |-> r.added]
  BY DEF Reading
<1>2. r.seen \in Tables
  BY <1>1, RowTyped DEF Tables
<1>3. OwnerSound'
  BY <1>1, <1>2 DEF OwnerSound, Tables, Rows
<1>4. ReadStands(VectorKeys \ r.unread)'
  BY <1>1 DEF ReadStands
<1>5. mode = "diff" => BaseSound' /\ (Describes(refresh.base))'
  BY <1>1 DEF BaseSound, IsState, Tables, Revisions, Rows, Describes, Holds
<1> QED
  BY <1>1, <1>3, <1>4, <1>5 DEF RefreshSound, Refreshes, Updating

LEMMA StartUpdateSound ==
  ASSUME IInv, NEW s \in Searchers, StartUpdate(s)
  PROVE  IInv'
<1> PICK i : i = FreshObject
  OBVIOUS
<1>1. /\ searcher[s].phase = "state" /\ refresh = NoRefresh /\ ~Current(s) /\ NothingLoads(s)
      /\ mutations' = mutations + 1
      /\ UNCHANGED <<rows, vectorEpoch, states, searcher, writerVars, disk, flush, torn, silent>>
  BY DEF StartUpdate, Unlocked
<1>2. ~Refreshes("embed")
  BY <1>1 DEF Refreshes
<1>3. \E base : /\ refresh' = Reading(s, "diff", base)
                /\ IsState(base) /\ Describes(base)' /\ base.epoch # searcher[s].epoch
                /\ base = states' \/ states' = NoState
                /\ states = NoState => base.idx \notin Referred
                /\ \A j \in Referred : contents'[j] = contents[j]
                /\ contents' \in [Objects -> Revisions]
  <2>1. CASE /\ states # NoState /\ refresh' = Reading(s, "diff", states)
             /\ UNCHANGED contents
    <3> PICK base : base = states
      OBVIOUS
    <3>1. Whole(base)
      BY <2>1 DEF IInv, CacheSound
    <3>2. IsState(base) /\ Describes(base)
      BY <1>2, <3>1 DEF Whole
    <3>3. Describes(base)'
      BY <2>1, <3>2 DEF Describes, Holds
    <3>4. base.epoch # searcher[s].epoch
      BY <1>1, <2>1 DEF Current
    <3>5. contents' \in [Objects -> Revisions]
      BY <2>1 DEF IInv, WorldTyped
    <3> QED
      BY <1>1, <2>1, <3>2, <3>3, <3>4, <3>5
  <2>2. CASE /\ states = NoState /\ Allocatable
             /\ \E g \in Published : /\ refresh' = Reading(s, "diff", Loaded(g))
                                     /\ contents' = [contents EXCEPT ![FreshObject] = g.bytes]
    <3> PICK g \in Published : /\ refresh' = Reading(s, "diff", Loaded(g))
                               /\ contents' = [contents EXCEPT ![FreshObject] = g.bytes]
      BY <2>2
    <3> PICK base : base = State(g.epoch, i, g.live, g.tombs, g.number)
      OBVIOUS
    <3>1. i \in Objects /\ i \notin Referred
      BY <2>2, FreshUnreferred
    <3>2. GenerationSound(g)
      BY PublishedSound
    <3>3. /\ contents' \in [Objects -> Revisions] /\ contents'[i] = g.bytes
          /\ \A j : j # i => contents'[j] = contents[j]
      BY <3>1, <3>2, ObjectWritten DEF IInv, GenerationSound
    <3>4. base.epoch = g.epoch /\ base.idx = i /\ IsState(base) /\ Describes(base)'
      BY <3>1, <3>2, <3>3, LoadedSound
    <3>5. refresh' = Reading(s, "diff", base)
      BY DEF Loaded
    <3>6. base.epoch # searcher[s].epoch
      BY <1>1, <3>4 DEF NothingLoads
    <3> QED
      BY <1>1, <2>2, <3>1, <3>3, <3>4, <3>5, <3>6
  <2> QED
    BY <2>1, <2>2 DEF StartUpdate
<1> PICK base : /\ refresh' = Reading(s, "diff", base)
                /\ IsState(base) /\ Describes(base)' /\ base.epoch # searcher[s].epoch
                /\ base = states' \/ states' = NoState
                /\ states = NoState => base.idx \notin Referred
                /\ \A j \in Referred : contents'[j] = contents[j]
                /\ contents' \in [Objects -> Revisions]
  BY <1>3
<1>4. RefreshSound' /\ refresh'.base = base /\ ~Refreshes("embed")'
  BY <1>1, ReadingSound
<1>5. WorldTyped'
  BY <1>1 DEF IInv, WorldTyped, Tables, Rows, Revisions
<1>6. SearchesSound'
  BY <1>1, <1>2, SearchesStay
<1> QED
  BY <1>1, <1>2, <1>4, <1>5, <1>6, RefreshMoves

LEMMA StartBuildSound ==
  ASSUME IInv, NEW s \in Searchers, StartBuild(s)
  PROVE  IInv'
<1>1. /\ searcher[s].phase = "state" /\ refresh = NoRefresh
      /\ refresh' = Reading(s, "build", NoState)
      /\ UNCHANGED <<rows, vectorEpoch, states, contents, searcher, writerVars, mutations, disk,
                     flush, torn, silent>>
  BY DEF StartBuild, Unlocked
<1>2. ~Refreshes("embed")
  BY <1>1 DEF Refreshes
<1>3. RefreshSound' /\ ~Refreshes("embed")' /\ ~Updating'
  BY <1>1, ReadingSound
<1>4. WorldTyped'
  BY <1>1 DEF IInv, WorldTyped, Tables, Rows, Revisions
<1>5. SearchesSound'
  BY <1>1, <1>2, SearchesStay
<1> QED
  BY <1>1, <1>2, <1>3, <1>4, <1>5, RefreshMoves

LEMMA ReadBatchSound ==
  ASSUME IInv, ReadBatch
  PROVE  IInv'
<1> PICK k : k = CHOOSE x \in refresh.unread : \A y \in refresh.unread : x <= y
  OBVIOUS
<1> PICK r : r = refresh'
  OBVIOUS
<1>1. /\ refresh # NoRefresh /\ refresh.mode \in {"diff", "build"} /\ refresh.unread # {}
      /\ r = [refresh EXCEPT !.unread = @ \ {k}, !.seen[k] = rows[k]]
      /\ UNCHANGED <<rows, vectorEpoch, states, contents, searcher, writerVars, mutations, disk,
                     flush, torn, silent>>
  BY DEF ReadBatch
<1>2. RefreshSound /\ OwnerSound
  BY <1>1 DEF IInv, RefreshSound
<1>3. k \in VectorKeys /\ k \in refresh.unread
  BY <1>1, <1>2, FirstKey DEF OwnerSound
<1>4. /\ r.owner = refresh.owner /\ r.mode = refresh.mode /\ r.epoch = refresh.epoch
      /\ r.base = refresh.base /\ r.unread = refresh.unread \ {k}
      /\ r.seen = [refresh.seen EXCEPT ![k] = rows[k]] /\ r.added = refresh.added
      /\ r = [owner |-> r.owner, mode |-> r.mode, epoch |-> r.epoch, base |-> r.base,
              unread |-> r.unread, seen |-> r.seen, wanted |-> r.wanted, added |-> r.added]
  BY <1>1, <1>2 DEF OwnerSound
<1>5. r # NoRefresh
  BY <1>4, ReadingIsSome
<1>6. rows \in Tables
  BY DEF IInv, WorldTyped
<1>7. r.seen \in Tables /\ r.seen[k] = rows[k]
      /\ \A j \in VectorKeys : j # k => r.seen[j] = refresh.seen[j]
  BY <1>2, <1>3, <1>4, <1>6 DEF OwnerSound, Tables
<1>8. OwnerSound'
  BY <1>1, <1>2, <1>4, <1>7 DEF OwnerSound, Tables, Rows
<1>9. ReadStands(VectorKeys \ refresh.unread)'
  <2>1. ReadStands(VectorKeys \ refresh.unread)
    BY <1>1, <1>2 DEF RefreshSound
  <2> SUFFICES ASSUME r.epoch = vectorEpoch', NEW j \in VectorKeys \ r.unread
               PROVE  Stands(r.seen[j], j)'
    BY DEF ReadStands
  <2>2. CASE j = k
    BY <1>1, <1>7, <2>2 DEF Stands
  <2>3. CASE j # k
    <3>1. Stands(refresh.seen[j], j)
      BY <1>1, <1>4, <2>1, <2>3 DEF ReadStands
    <3> QED
      BY <1>1, <1>7, <2>3, <3>1 DEF Stands
  <2> QED
    BY <2>2, <2>3
<1>10. (refresh.mode # "build" => BaseSound)'
  BY <1>1, <1>2, <1>4 DEF RefreshSound, BaseSound, IsState, Tables, Revisions, Rows
<1>11. (refresh.mode = "diff" => Describes(refresh.base) /\ refresh.added = {})'
  BY <1>1, <1>2, <1>4 DEF RefreshSound, Describes, Holds
<1>12. RefreshSound'
  BY <1>1, <1>4, <1>8, <1>9, <1>10, <1>11 DEF RefreshSound
<1>13. /\ ~Refreshes("embed") /\ ~Refreshes("embed")'
       /\ Updating' => Updating /\ refresh'.base = refresh.base
  BY <1>1, <1>4 DEF Refreshes, Updating
<1>14. WorldTyped'
  BY <1>1 DEF IInv, WorldTyped, Tables, Rows, Revisions
<1>15. SearchesSound'
  BY <1>1, <1>13, SearchesStay
<1> QED
  BY <1>1, <1>12, <1>13, <1>14, <1>15, RefreshMoves

LEMMA GiveUpDiffSound ==
  ASSUME IInv, GiveUpDiff
  PROVE  IInv'
<1>1. /\ refresh # NoRefresh /\ refresh.mode = "diff"
      /\ refresh' = Reading(refresh.owner, "build", NoState)
      /\ UNCHANGED <<rows, vectorEpoch, states, contents, searcher, writerVars, mutations, disk,
                     flush, torn, silent>>
  BY DEF GiveUpDiff
<1>2. OwnerSound
  BY <1>1 DEF IInv, RefreshSound
<1>3. RefreshSound' /\ ~Refreshes("embed")' /\ ~Updating'
  <2> PICK o \in Searchers : o = refresh.owner
    BY <1>2 DEF OwnerSound
  <2>1. searcher[o].phase = "state"
    BY <1>2 DEF OwnerSound
  <2> QED
    BY <1>1, <2>1, ReadingSound
<1>4. ~Refreshes("embed")
  BY <1>1 DEF Refreshes
<1>5. WorldTyped'
  BY <1>1 DEF IInv, WorldTyped, Tables, Rows, Revisions
<1>6. SearchesSound'
  BY <1>1, <1>4, SearchesStay
<1> QED
  BY <1>1, <1>3, <1>4, <1>5, <1>6, RefreshMoves

\* What the search that refreshes has read.
LEMMA EmbeddingBegins ==
  ASSUME IInv, RemoveReplaced
  PROVE  /\ refresh # NoRefresh /\ refresh.mode = "diff" /\ refresh.added = {}
         /\ refresh'.owner = refresh.owner /\ refresh'.mode = "embed"
         /\ refresh'.epoch = refresh.epoch /\ refresh'.base = refresh.base
         /\ refresh'.seen = refresh.seen /\ refresh'.added = {}
         /\ refresh'.wanted = Replaced \cup New /\ refresh'.unread = Replaced \cup New
         /\ refresh'.wanted = (Replaced \cup New)'
         /\ refresh' # NoRefresh /\ OwnerSound'
         /\ contents' \in [Objects -> Revisions]
         /\ \A i : i # refresh.base.idx => contents'[i] = contents[i]
         /\ \A k \in VectorKeys : contents'[refresh.base.idx][k] =
              IF k \in Replaced THEN 0 ELSE contents[refresh.base.idx][k]
<1> PICK r : r = refresh'
  OBVIOUS
<1> PICK w : w = Replaced \cup New
  OBVIOUS
<1>1. /\ refresh # NoRefresh /\ refresh.mode = "diff" /\ refresh.unread = {}
      /\ contents' = [contents EXCEPT ![refresh.base.idx] =
                        [k \in VectorKeys |-> IF k \in Replaced THEN 0
                                              ELSE contents[refresh.base.idx][k]]]
      /\ r = [refresh EXCEPT !.mode = "embed", !.wanted = w, !.unread = w]
      /\ UNCHANGED searcher
  BY DEF RemoveReplaced
<1>2. OwnerSound /\ BaseSound /\ refresh.added = {}
  BY <1>1 DEF IInv, RefreshSound
<1>3. /\ r.owner = refresh.owner /\ r.mode = "embed" /\ r.epoch = refresh.epoch
      /\ r.base = refresh.base /\ r.unread = w
      /\ r.seen = refresh.seen /\ r.added = refresh.added /\ r.wanted = w
      /\ r = [owner |-> r.owner, mode |-> r.mode, epoch |-> r.epoch, base |-> r.base,
              unread |-> r.unread, seen |-> r.seen, wanted |-> r.wanted, added |-> r.added]
  BY <1>1, <1>2 DEF OwnerSound
<1>4. r # NoRefresh
  BY <1>3, ReadingIsSome
<1>5. w = (Replaced \cup New)' /\ w \subseteq VectorKeys
  BY <1>3 DEF Replaced, New, Resident
<1>6. OwnerSound'
  BY <1>1, <1>2, <1>3, <1>5 DEF OwnerSound, Tables, Rows
<1> PICK i \in Objects : i = refresh.base.idx
  BY <1>2 DEF BaseSound, IsState
<1> DEFINE bytes == [k \in VectorKeys |-> IF k \in Replaced THEN 0 ELSE contents[i][k]]
<1>7. WorldTyped /\ contents \in [Objects -> Revisions]
  BY DEF IInv, WorldTyped
<1>8. bytes \in Revisions
  BY <1>7 DEF Revisions
<1>9. contents' = [contents EXCEPT ![i] = bytes]
  BY <1>1
<1>10. /\ contents' \in [Objects -> Revisions] /\ contents'[i] = bytes
       /\ \A j : j # i => contents'[j] = contents[j]
  <2> HIDE DEF bytes
  <2> QED
    BY <1>7, <1>8, <1>9, ObjectWritten
<1> QED
  BY <1>1, <1>2, <1>3, <1>4, <1>5, <1>6, <1>10

LEMMA RemoveReplacedSound ==
  ASSUME IInv, RemoveReplaced
  PROVE  IInv'
<1>1. /\ refresh # NoRefresh /\ refresh.mode = "diff" /\ refresh.unread = {}
      /\ UNCHANGED <<rows, vectorEpoch, states, searcher, writerVars, mutations, disk, flush, torn,
                     silent>>
  BY DEF RemoveReplaced
<1>2. /\ refresh.added = {}
      /\ refresh'.mode = "embed"
      /\ refresh'.epoch = refresh.epoch /\ refresh'.base = refresh.base
      /\ refresh'.seen = refresh.seen /\ refresh'.added = {}
      /\ refresh'.wanted = Replaced \cup New /\ refresh'.unread = Replaced \cup New
      /\ refresh'.wanted = (Replaced \cup New)'
      /\ refresh' # NoRefresh /\ OwnerSound'
      /\ contents' \in [Objects -> Revisions]
      /\ \A i : i # refresh.base.idx => contents'[i] = contents[i]
      /\ \A k \in VectorKeys : contents'[refresh.base.idx][k] =
           IF k \in Replaced THEN 0 ELSE contents[refresh.base.idx][k]
  BY EmbeddingBegins
<1>3. RefreshSound /\ BaseSound /\ Describes(refresh.base) /\ OwnerSound
  BY <1>1 DEF IInv, RefreshSound
<1>4. BaseSound'
  BY <1>1, <1>2, <1>3 DEF BaseSound, IsState, Tables, Revisions, Rows
<1>5. ReadStands(VectorKeys)'
  BY <1>1, <1>2, <1>3 DEF RefreshSound, ReadStands, Stands
<1>6. Embedding'
  <2>1. ASSUME NEW k \in VectorKeys \ (Replaced \cup New)
        PROVE  contents'[refresh.base.idx][k] = Resident(k)
    BY <1>2, <1>3 DEF Describes, Holds, Resident
  <2>2. \A k : Resident(k)' = Resident(k)
    BY <1>2 DEF Resident
  <2>3. \A k \in VectorKeys \ refresh'.wanted : contents'[refresh'.base.idx][k] = Resident(k)'
    BY <1>2, <2>1, <2>2
  <2> QED
    BY <1>2, <2>3 DEF Embedding
<1>7. RefreshSound'
  BY <1>2, <1>4, <1>5, <1>6 DEF RefreshSound
<1>8. ~Refreshes("embed") /\ Refreshes("embed")' /\ Updating /\ Updating'
  BY <1>1, <1>2 DEF Refreshes, Updating
<1>9. WorldTyped'
  BY <1>1, <1>2 DEF IInv, WorldTyped, Tables, Rows, Revisions
<1>10. SearchesSound'
  <2>1. ASSUME NEW s \in Searchers, searcher[s].phase = "search", NEW k \in VectorKeys
        PROVE  Findable(searcher[s].state, k, searcher[s].during)'
    <3> PICK t : t = searcher[s]
      OBVIOUS
    <3>1. Findable(t.state, k, t.during)
      BY <2>1 DEF IInv, SearchesSound, SearchSound
    <3>2. CASE t.state.idx # refresh.base.idx
      <4>1. contents'[t.state.idx] = contents[t.state.idx]
        BY <1>2, <3>2
      <4>2. Findable(t.state, k, t.during)'
        BY <1>1, <1>8, <3>1, <4>1 DEF Findable, Missing
      <4> QED
        BY <1>1, <4>2
    <3>3. CASE t.state.idx = refresh.base.idx /\ k \in Replaced
      <4>1. Missing(t.state.idx, k)'
        BY <1>2, <1>8, <3>3 DEF Missing
      <4>2. contents'[t.state.idx][k] = 0
        BY <1>2, <3>3
      <4>3. Findable(t.state, k, t.during)'
        BY <4>1, <4>2 DEF Findable
      <4> QED
        BY <1>1, <4>3
    <3>4. CASE t.state.idx = refresh.base.idx /\ k \notin Replaced
      <4>1. contents'[t.state.idx][k] = contents[t.state.idx][k]
        BY <1>2, <3>4
      <4>2. Findable(t.state, k, t.during)'
        BY <1>1, <1>8, <3>1, <4>1 DEF Findable, Missing
      <4> QED
        BY <1>1, <4>2
    <3> QED
      BY <3>2, <3>3, <3>4
  <2>2. ASSUME NEW s \in Searchers PROVE SearchSound(searcher[s])'
    <3> PICK t : t = searcher[s]
      OBVIOUS
    <3>1. SearchSound(t)
      BY DEF IInv, SearchesSound
    <3>2. t.phase = "search" => \A k \in VectorKeys : Findable(t.state, k, t.during)'
      BY <1>1, <2>1
    <3>3. SearchSound(t)'
      BY <1>1, <3>1, <3>2, SearchFinds
    <3> QED
      BY <1>1, <3>3
  <2> QED
    BY <2>2 DEF SearchesSound
<1> QED
  BY <1>1, <1>2, <1>7, <1>8, <1>9, <1>10, RefreshMoves

LEMMA AddBatchSound ==
  ASSUME IInv, AddBatch
  PROVE  IInv'
<1> PICK k : k = CHOOSE x \in refresh.unread : \A y \in refresh.unread : x <= y
  OBVIOUS
<1> PICK r : r = refresh'
  OBVIOUS
<1>1. /\ refresh # NoRefresh /\ refresh.mode = "embed" /\ refresh.unread # {}
      /\ contents' = [contents EXCEPT ![refresh.base.idx][k] =
                        IF rows[k] = NoRow THEN @ ELSE rows[k][1]]
      /\ r = [refresh EXCEPT !.unread = @ \ {k},
                             !.added = IF rows[k] = NoRow THEN @ ELSE @ \cup {k}]
      /\ UNCHANGED <<rows, vectorEpoch, states, searcher, writerVars, mutations, disk, flush, torn,
                     silent>>
  BY DEF AddBatch
<1>2. RefreshSound /\ OwnerSound /\ BaseSound /\ Embedding /\ ReadStands(VectorKeys)
  BY <1>1 DEF IInv, RefreshSound
<1>3. k \in VectorKeys /\ k \in refresh.unread /\ k \in refresh.wanted
  BY <1>1, <1>2, FirstKey DEF OwnerSound, Embedding
<1>4. /\ r.owner = refresh.owner /\ r.mode = "embed" /\ r.epoch = refresh.epoch
      /\ r.base = refresh.base /\ r.unread = refresh.unread \ {k}
      /\ r.seen = refresh.seen /\ r.wanted = refresh.wanted
      /\ r.added = IF rows[k] = NoRow THEN refresh.added ELSE refresh.added \cup {k}
      /\ r = [owner |-> r.owner, mode |-> r.mode, epoch |-> r.epoch, base |-> r.base,
              unread |-> r.unread, seen |-> r.seen, wanted |-> r.wanted, added |-> r.added]
  BY <1>1, <1>2 DEF OwnerSound
<1>5. r # NoRefresh
  BY <1>4, ReadingIsSome
<1>6. rows \in Tables /\ contents \in [Objects -> Revisions] /\ rows[k] \in Rows
  BY <1>3 DEF IInv, WorldTyped, Tables
<1> PICK i \in Objects : i = refresh.base.idx
  BY <1>2 DEF BaseSound, IsState
<1>n. contents[i][k] \in Nat /\ rows[k][1] \in Nat /\ (rows[k] # NoRow => rows[k][1] # 0)
  <2>1. contents[i] \in Revisions
    BY <1>6
  <2> QED
    BY <1>3, <1>6, <2>1, RowTyped DEF Revisions
<1> DEFINE added == IF rows[k] = NoRow THEN contents[i][k] ELSE rows[k][1]
<1> PICK n : n = added
  <2> HIDE DEF added
  <2> QED
    OBVIOUS
<1>p. n \in Nat
  BY <1>n
<1>m. rows[k] # NoRow => n # 0
  BY <1>n, SMTT(40)
<1>7. /\ contents' = [contents EXCEPT ![i] = [contents[i] EXCEPT ![k] = n]]
      /\ contents' \in [Objects -> Revisions]
      /\ contents'[i][k] = n
      /\ \A j \in VectorKeys : j # k => contents'[i][j] = contents[i][j]
      /\ \A x : x # i => contents'[x] = contents[x]
  <2> PICK bytes : bytes = [contents[i] EXCEPT ![k] = n]
    OBVIOUS
  <2>1. contents' = [contents EXCEPT ![i] = bytes]
    BY <1>1
  <2>2. /\ bytes \in Revisions /\ bytes[k] = n
        /\ \A j \in VectorKeys : j # k => bytes[j] = contents[i][j]
    BY <1>3, <1>6, <1>p, SMTT(40) DEF Revisions
  <2>3. /\ contents' \in [Objects -> Revisions] /\ contents'[i] = bytes
        /\ \A j : j # i => contents'[j] = contents[j]
    BY <2>1, <2>2, ObjectWritten DEF IInv
  <2> QED
    BY <2>1, <2>2, <2>3
<1>8. OwnerSound'
  BY <1>1, <1>2, <1>4 DEF OwnerSound, Tables, Rows
<1>9. BaseSound'
  BY <1>1, <1>2, <1>4 DEF BaseSound, IsState, Tables, Revisions, Rows
<1>10. ReadStands(VectorKeys)'
  BY <1>1, <1>2, <1>4 DEF ReadStands, Stands
<1>11. Embedding'
  <2>1. /\ Replaced' = Replaced /\ New' = New
        /\ \A j : Resident(j)' = Resident(j)
    BY <1>4 DEF Replaced, New, Resident
  <2>2. /\ refresh.wanted = Replaced \cup New
        /\ refresh.unread \subseteq refresh.wanted /\ refresh.added \subseteq refresh.wanted
        /\ \A j \in VectorKeys \ refresh.wanted : contents[i][j] = Resident(j)
        /\ \A j \in refresh.added :
             /\ contents[i][j] # 0
             /\ refresh.epoch = vectorEpoch => contents[i][j] = refresh.seen[j][1]
    BY <1>2 DEF Embedding
  <2>3. refresh.wanted \subseteq VectorKeys
    BY <2>2, SMTT(40) DEF Replaced, New
  <2>4. \A j \in VectorKeys \ r.wanted : contents'[i][j] = Resident(j)'
    BY <1>3, <1>4, <1>7, <2>1, <2>2, ZenonT(60)
  <2>5. ASSUME NEW j \in r.added
        PROVE  contents'[i][j] # 0
                 /\ (r.epoch = vectorEpoch' => contents'[i][j] = r.seen[j][1])
    <3>0. vectorEpoch' = vectorEpoch /\ r.epoch = refresh.epoch /\ r.seen = refresh.seen
      BY <1>1, <1>4
    <3>1. CASE j # k
      <4>1. j \in refresh.added /\ j \in VectorKeys
        BY <1>4, <2>2, <2>3, <2>5, <3>1
      <4>2. contents'[i][j] = contents[i][j]
        BY <1>7, <3>1, <4>1
      <4>3. contents[i][j] # 0
              /\ (refresh.epoch = vectorEpoch => contents[i][j] = refresh.seen[j][1])
        BY ONLY <2>2, <4>1
      <4> QED
        BY ONLY <3>0, <4>2, <4>3
    <3>2. CASE j = k /\ rows[k] = NoRow
      <4>1. j \in refresh.added
        BY <1>4, <2>5, <3>2
      <4>2. contents'[i][j] = contents[i][j]
        BY <1>7, <3>2
      <4>3. contents[i][j] # 0
              /\ (refresh.epoch = vectorEpoch => contents[i][j] = refresh.seen[j][1])
        BY ONLY <2>2, <4>1
      <4> QED
        BY ONLY <3>0, <4>2, <4>3
    <3>3. CASE j = k /\ rows[k] # NoRow
      <4>1. refresh.epoch = vectorEpoch => refresh.seen[k] = rows[k]
        BY <1>2, <1>3, <3>3 DEF ReadStands, Stands, IInv, WorldTyped
      <4>2. contents'[i][k] = n /\ n = rows[k][1] /\ n # 0
        BY <1>7, <1>m, <3>3
      <4> QED
        BY ONLY <3>0, <3>3, <4>1, <4>2
    <3> QED
      BY <3>1, <3>2, <3>3
  <2>6. r.wanted = Replaced' \cup New' /\ r.unread \subseteq r.wanted /\ r.added \subseteq r.wanted
    BY <1>3, <1>4, <2>1, <2>2, ZenonT(60)
  <2> QED
    BY <1>4, <2>4, <2>5, <2>6 DEF Embedding
<1>12. RefreshSound'
  BY <1>4, <1>5, <1>8, <1>9, <1>10, <1>11 DEF RefreshSound
<1>13. Refreshes("embed") /\ Refreshes("embed")' /\ Updating /\ Updating'
  BY <1>1, <1>4, <1>5 DEF Refreshes, Updating
<1>14. WorldTyped'
  BY <1>1, <1>7 DEF IInv, WorldTyped, Tables, Rows, Revisions
<1>15. SearchesSound'
  <2>1. ASSUME NEW t, SearchSound(t), t.phase = "search", NEW j \in VectorKeys
        PROVE  Findable(t.state, j, t.during)'
    <3>1. Findable(t.state, j, t.during)
      BY <2>1 DEF SearchSound
    <3>2. CASE t.state.idx = i /\ j = k /\ rows[k] # NoRow
      <4>1. contents'[t.state.idx][j] = rows[k][1] /\ contents'[t.state.idx][j] # 0
        BY <1>7, <1>m, <3>2
      <4>2. rows[j] \in t.during[j]
        BY <2>1, SMTT(40) DEF SearchSound, SeesNow, Stands
      <4> QED
        BY <3>2, <4>1, <4>2 DEF Findable
    <3>3. CASE ~(t.state.idx = i /\ j = k /\ rows[k] # NoRow)
      <4>1. contents'[t.state.idx][j] = contents[t.state.idx][j]
        BY <1>7, <3>3
      <4>2. Missing(t.state.idx, j) => Missing(t.state.idx, j)'
        BY <1>4, <1>13, <3>3 DEF Missing
      <4> QED
        BY <1>1, <3>1, <4>1, <4>2 DEF Findable
    <3> QED
      BY <3>2, <3>3
  <2>2. ASSUME NEW s \in Searchers PROVE SearchSound(searcher[s])'
    <3> PICK t : t = searcher[s]
      OBVIOUS
    <3>1. SearchSound(t)
      BY DEF IInv, SearchesSound
    <3>2. t.phase = "search" => \A j \in VectorKeys : Findable(t.state, j, t.during)'
      BY <2>1, <3>1
    <3>3. SearchSound(t)'
      BY <1>1, <3>1, <3>2, SearchFinds
    <3> QED
      BY <1>1, <3>3
  <2> QED
    BY <2>2 DEF SearchesSound
<1> QED
  BY <1>1, <1>4, <1>12, <1>13, <1>14, <1>15, RefreshMoves

-----------------------------------------------------------------------------
(* A refresh ends                                                          *)

\* What a request to the writer leaves behind.
LEMMA RequestMoves ==
  ASSUME IInv, NEW state, Request(state, persisted)
  PROVE  /\ drain' = [d \in Drains |-> drain'[d]]
         /\ \A d \in Drains : drain'[d] = drain[d] \/ drain'[d] = [phase |-> "next"]
         /\ UNCHANGED inflightWrite
         /\ pending' \in {pending, state} /\ persisted' \in {persisted, state}
         /\ state.sidecar = 0 =>
              /\ persisted' = persisted
              /\ pending' = state \/ state \in {persisted, inflightWrite}
<1>1. drain = [d \in Drains |-> drain[d]]
  BY DEF IInv, Shaped
<1>2. CASE state.sidecar # 0
  BY <1>1, <1>2 DEF Request
<1>3. CASE state.sidecar = 0 /\ state \in {persisted, inflightWrite, pending}
  BY <1>1, <1>3 DEF Request
<1>4. CASE state.sidecar = 0 /\ state \notin {persisted, inflightWrite, pending}
  <2>1. pending' = state /\ persisted' = persisted /\ UNCHANGED inflightWrite
    BY <1>4 DEF Request
  <2>2. UNCHANGED drain \/ \E d \in Drains : drain' = [drain EXCEPT ![d] = [phase |-> "next"]]
    BY <1>4 DEF Request
  <2>3. CASE UNCHANGED drain
    BY <1>1, <2>1, <2>3
  <2>4. CASE \E d \in Drains : drain' = [drain EXCEPT ![d] = [phase |-> "next"]]
    <3> PICK d \in Drains : drain' = [drain EXCEPT ![d] = [phase |-> "next"]]
      BY <2>4
    <3>1. /\ drain' = [x \in Drains |-> drain'[x]] /\ drain'[d] = [phase |-> "next"]
          /\ \A x \in Drains : x # d => drain'[x] = drain[x]
      BY OneDrains
    <3> QED
      BY <2>1, <3>1
  <2> QED
    BY <2>2, <2>3, <2>4
<1> QED
  BY <1>2, <1>3, <1>4

\* What an update says of its index when all it read is consistent.
LEMMA UpdatedWhole ==
  ASSUME IInv, ReadAll("embed"), Consistent, UNCHANGED contents
  PROVE  /\ Updated.epoch = vectorEpoch /\ Updated.epoch = refresh.epoch
         /\ Updated.idx = refresh.base.idx /\ Updated.live = refresh.seen /\ Updated.sidecar = 0
         /\ IsState(Updated) /\ Vouched(Updated.epoch, Updated.live)
         /\ \A st : st = Updated => Describes(st)'
         /\ \A k \in VectorKeys : Stands(Updated.live[k], k)
<1>1. /\ refresh # NoRefresh /\ refresh.mode = "embed" /\ refresh.unread = {}
      /\ refresh.added = refresh.wanted /\ vectorEpoch = refresh.epoch
  BY DEF ReadAll, Consistent
<1>2. OwnerSound /\ BaseSound /\ Embedding /\ ReadStands(VectorKeys)
  BY <1>1 DEF IInv, RefreshSound
<1>3. refresh.seen \in Tables
  BY <1>2 DEF OwnerSound
<1>4. [k \in VectorKeys |-> Candidate(k)] = refresh.seen
  BY <1>3 DEF Candidate, Tables
<1> DEFINE tombs == [k \in VectorKeys |-> IF k \in Tombstones THEN Resident(k) ELSE 0]
<1>5. /\ Updated.epoch = refresh.epoch /\ Updated.idx = refresh.base.idx
      /\ Updated.live = refresh.seen /\ Updated.sidecar = 0 /\ Updated.tombs = tombs
  BY <1>4 DEF Updated, State
<1>6. ASSUME NEW k \in VectorKeys PROVE Resident(k) \in Nat
  <2>1. refresh.base.live[k] \in Rows /\ refresh.base.tombs[k] \in Nat
    BY <1>2 DEF BaseSound, IsState, Tables, Revisions
  <2> QED
    BY <2>1, RowTyped DEF Resident
<1>7. tombs \in Revisions
  BY <1>6 DEF Revisions
<1>8. vectorEpoch \in Nat
  BY DEF IInv, WorldTyped
<1>9. IsState(Updated)
  BY <1>1, <1>2, <1>3, <1>5, <1>7, <1>8 DEF IsState, BaseSound
<1>10. \A k \in VectorKeys : Stands(refresh.seen[k], k)
  BY <1>1, <1>2 DEF ReadStands
<1>11. Vouched(Updated.epoch, Updated.live)
  BY <1>1, <1>3, <1>5, <1>10, NowVouched
<1>12. ASSUME NEW k \in VectorKeys
       PROVE  contents[refresh.base.idx][k] =
                IF refresh.seen[k] # NoRow THEN refresh.seen[k][1] ELSE tombs[k]
  <2>1. refresh.seen[k] \in Rows
    BY <1>3 DEF Tables
  <2>2. CASE k \in refresh.wanted
    <3>1. contents[refresh.base.idx][k] = refresh.seen[k][1]
      BY <1>1, <1>2, <2>2 DEF Embedding
    <3>2. refresh.seen[k] # NoRow
      BY <1>2, <2>2 DEF Embedding, Replaced, New
    <3> QED
      BY <3>1, <3>2
  <2>3. CASE k \notin refresh.wanted
    <3>1. contents[refresh.base.idx][k] = Resident(k)
      BY <1>2, <2>3 DEF Embedding
    <3>2. k \notin Replaced /\ k \notin New
      BY <1>2, <2>3 DEF Embedding
    <3>3. refresh.seen[k] # NoRow => Resident(k) = refresh.seen[k][1]
      BY <3>2 DEF Replaced, New
    <3>4. refresh.seen[k] = NoRow => tombs[k] = Resident(k)
      BY DEF Tombstones
    <3> HIDE DEF tombs
    <3> QED
      BY <3>1, <3>3, <3>4
  <2> QED
    BY <2>2, <2>3
<1>13. ASSUME NEW st, st = Updated PROVE Describes(st)'
  <2>1. /\ st.idx = refresh.base.idx /\ st.live = refresh.seen /\ st.tombs = tombs
    BY <1>5, <1>13
  <2> HIDE DEF tombs
  <2> QED
    BY <1>12, <2>1 DEF Describes, Holds
<1> QED
  BY <1>1, <1>5, <1>9, <1>10, <1>11, <1>13

\* A state that the writer knows is older than what an update makes.
LEMMA UpdatedIsNew ==
  ASSUME IInv, ReadAll("embed"), Consistent, NEW x, x = NoState \/ IsState(x), NotNewer(x)
  PROVE  x # Updated /\ (x # NoState /\ x.idx = refresh.base.idx => x.epoch < vectorEpoch)
<1>1. /\ refresh # NoRefresh /\ refresh.mode = "embed" /\ vectorEpoch = refresh.epoch
  BY DEF ReadAll, Consistent
<1>2. BaseSound
  BY <1>1 DEF IInv, RefreshSound
<1>3. Updated.epoch = vectorEpoch /\ Updated.idx = refresh.base.idx
  BY <1>1 DEF Updated, State
<1>4. vectorEpoch \in Nat
  BY DEF IInv, WorldTyped
<1>5. ASSUME x # NoState, x.idx = refresh.base.idx
      PROVE  x.epoch < vectorEpoch
  <2>1. states # NoState
    BY <1>1, <1>5 DEF NotNewer, Updating, Refreshes
  <2>2. refresh.base = states /\ states.epoch # vectorEpoch
    BY <1>1, <1>2, <2>1 DEF BaseSound
  <2>3. states.epoch \in Nat /\ states.epoch <= vectorEpoch
    BY <2>1 DEF IInv, CacheSound, Whole, Vouched
  <2>4. x.epoch <= states.epoch
    BY <1>5, <2>1, <2>2 DEF NotNewer
  <2>5. x.epoch \in Nat
    BY <1>5 DEF IsState
  <2> QED
    BY <1>4, <2>2, <2>3, <2>4, <2>5
<1>6. x # Updated
  <2> SUFFICES ASSUME x = Updated PROVE FALSE
    OBVIOUS
  <2>1. CASE x = NoState
    <3>1. Updated.idx = 0
      BY <2>1 DEF NoState
    <3> QED
      BY <1>2, <1>3, <3>1, FaissAssumption DEF BaseSound, IsState
  <2>2. CASE x # NoState
    BY <1>3, <1>4, <1>5, <2>2
  <2> QED
    BY <2>1, <2>2
<1> QED
  BY <1>5, <1>6

LEMMA FinishUpdateSound ==
  ASSUME IInv, FinishUpdate
  PROVE  IInv'
<1> PICK st : st = Updated
  OBVIOUS
<1> PICK o : o = refresh.owner
  OBVIOUS
<1> PICK i : i = refresh.base.idx
  OBVIOUS
<1> PICK v : v = SearchWith(o, st)
  OBVIOUS
<1>1. /\ ReadAll("embed") /\ Consistent /\ states' = st
      /\ searcher' = [searcher EXCEPT ![o] = v]
      /\ refresh' = NoRefresh /\ PersistDebounced(st)
      /\ UNCHANGED <<rows, vectorEpoch, contents, mutations, disk, flush, torn, silent>>
  BY DEF FinishUpdate
<1>2. refresh # NoRefresh /\ refresh.mode = "embed" /\ refresh.added = refresh.wanted
  BY <1>1 DEF ReadAll, Consistent
<1>3. OwnerSound /\ BaseSound
  BY <1>2 DEF IInv, RefreshSound
<1>4. o \in Searchers /\ searcher[o].phase = "state"
  BY <1>3 DEF OwnerSound
<1>5. /\ st.epoch = vectorEpoch /\ st.idx = i /\ st.sidecar = 0
      /\ IsState(st) /\ Vouched(st.epoch, st.live) /\ Describes(st)'
      /\ \A k \in VectorKeys : Stands(st.live[k], k)
  BY <1>1, UpdatedWhole
<1>6. /\ searcher' = [x \in Searchers |-> searcher'[x]] /\ searcher'[o] = v
      /\ \A x \in Searchers : x # o => searcher'[x] = searcher[x]
  BY <1>1, <1>4, OneMoves
<1>7. v.phase = "search"
  BY DEF SearchWith
<1>8. Trusting
  BY <1>1, <1>6, <1>7, SteadyTrusts DEF Steady
<1>9. Updating /\ ~Updating' /\ ~Refreshes("embed")'
  BY <1>1, <1>2 DEF Updating, Refreshes
<1>10. Whole(st)'
  <2>1. Vouched(st.epoch, st.live)'
    BY <1>5, <1>8 DEF Trusting
  <2> QED
    BY <1>5, <2>1 DEF Whole, IsState, Tables, Revisions, Rows
<1>11. CacheSound'
  BY <1>1, <1>10 DEF CacheSound
<1>12. WorldTyped'
  BY <1>1 DEF IInv, WorldTyped, Tables, Rows, Revisions
<1>13. SearchesSound'
  <2>1. ASSUME NEW x \in Searchers PROVE SearchSound(searcher[x])'
    <3>1. CASE x = o
      <4>1. \A k \in VectorKeys : Told(st.live[k], k, searcher[o].during)
        <5>1. SeesNow(searcher[o])
          BY <1>4 DEF IInv, SearchesSound, SearchSound
        <5> QED
          BY <1>5, <5>1, StandsTold
      <4>2. SearchSound(v)'
        BY <1>1, <1>4, <1>5, <4>1, SearchTakes
      <4> QED
        BY <1>6, <3>1, <4>2
    <3>2. CASE x # o
      <4> PICK t : t = searcher[x]
        OBVIOUS
      <4>1. SearchSound(t)
        BY DEF IInv, SearchesSound
      <4>2. \A j, k : ~Missing(j, k)
        BY <1>2 DEF Missing
      <4>3. SearchSound(t)'
        BY <1>1, <4>1, <4>2, SearchStays
      <4> QED
        BY <1>6, <3>2, <4>3
    <3> QED
      BY <3>1, <3>2
  <2> QED
    BY <2>1 DEF SearchesSound
<1>14. ASSUME NEW x, x = NoState \/ IsState(x), NotNewer(x)
       PROVE  x # st /\ NotNewer(x)'
  <2>1. x # st /\ (x # NoState /\ x.idx = i => x.epoch < vectorEpoch)
    BY <1>1, <1>14, UpdatedIsNew
  <2>2. x # NoState => x.epoch \in Nat
    BY <1>14 DEF IsState
  <2>3. vectorEpoch \in Nat
    BY DEF IInv, WorldTyped
  <2> QED
    BY <1>1, <1>5, <1>9, <2>1, <2>2, <2>3 DEF NotNewer
<1>15. /\ MaybeState(pending) /\ MaybeState(persisted) /\ MaybeState(inflightWrite)
       /\ NotNewer(pending) /\ NotNewer(persisted) /\ NotNewer(inflightWrite)
  BY DEF IInv, QueueSound, MaybeState, Whole
<1>16. /\ NotNewer(pending)' \/ pending' = st
       /\ persisted' = persisted /\ inflightWrite' = inflightWrite
       /\ pending' \in {NoState, st}
       /\ drain' = [d \in Drains |-> drain'[d]]
       /\ \A d \in Drains : drain'[d] = drain[d] \/ drain'[d] = [phase |-> "next"]
  <2>1. CASE Request(st, persisted)
    <3>1. /\ drain' = [d \in Drains |-> drain'[d]]
          /\ \A d \in Drains : drain'[d] = drain[d] \/ drain'[d] = [phase |-> "next"]
          /\ UNCHANGED inflightWrite /\ persisted' = persisted
          /\ pending' = st \/ st \in {persisted, inflightWrite}
      BY <1>5, <2>1, RequestMoves
    <3>2. st \notin {persisted, inflightWrite}
      BY <1>14, <1>15 DEF MaybeState
    <3> QED
      BY <3>1, <3>2
  <2>2. CASE pending = NoState /\ inflightWrite = NoState /\ UNCHANGED writerVars
    BY <1>14, <1>15, <2>2 DEF writerVars, IInv, Shaped
  <2> QED
    BY <1>1, <2>1, <2>2 DEF PersistDebounced
<1>17. NotNewer(st)'
  BY <1>1, <1>5, <1>9, StateIsSome DEF NotNewer, IsState
<1>18. /\ NotNewer(pending)' /\ NotNewer(persisted)' /\ NotNewer(inflightWrite)'
       /\ pending' # NoState => Whole(pending)'
  <2>1. NotNewer(pending)'
    BY <1>16, <1>17
  <2>2. \A x : x = persisted \/ x = inflightWrite => NotNewer(x)'
    BY <1>14, <1>15 DEF MaybeState
  <2> QED
    BY <1>10, <1>16, <2>1, <2>2
<1>19. MaybeState(persisted)'
  BY <1>15, <1>16 DEF MaybeState, IsState, Tables, Revisions, Rows
<1>20. ASSUME NEW d \in Drains, drain[d].phase \in {"serialize", "publish"}
       PROVE  \A x : x = drain[d].state => NotNewer(x)'
  <2>1. IsState(drain[d].state) /\ NotNewer(drain[d].state)
    BY <1>20 DEF IInv, DrainsSound, DrainSound
  <2> QED
    BY <1>14, <2>1
<1> QED
  BY <1>1, <1>6, <1>8, <1>9, <1>11, <1>12, <1>13, <1>16, <1>18, <1>19, <1>20, IndexMoves

\* What a build says of its index when all it read is consistent.
LEMMA BuiltWhole ==
  ASSUME IInv, ReadAll("build"), Consistent, NEW i \in Objects, NEW st,
         st = State(refresh.epoch, i, [k \in VectorKeys |-> Candidate(k)],
                    [k \in VectorKeys |-> 0], 0),
         contents' = [contents EXCEPT ![i] = [k \in VectorKeys |-> refresh.seen[k][1]]]
  PROVE  /\ st.epoch = vectorEpoch /\ st.idx = i /\ st.sidecar = 0
         /\ IsState(st) /\ Vouched(st.epoch, st.live) /\ Describes(st)'
         /\ \A k \in VectorKeys : Stands(st.live[k], k)
         /\ contents' \in [Objects -> Revisions]
         /\ \A j : j # i => contents'[j] = contents[j]
<1>1. /\ refresh # NoRefresh /\ refresh.mode = "build" /\ refresh.unread = {}
      /\ vectorEpoch = refresh.epoch
  BY DEF ReadAll, Consistent
<1>2. OwnerSound /\ ReadStands(VectorKeys)
  BY <1>1 DEF IInv, RefreshSound
<1>3. refresh.seen \in Tables
  BY <1>2 DEF OwnerSound
<1>4. [k \in VectorKeys |-> Candidate(k)] = refresh.seen
  BY <1>3 DEF Candidate, Tables
<1>5. /\ st.epoch = refresh.epoch /\ st.idx = i /\ st.live = refresh.seen /\ st.sidecar = 0
      /\ st.tombs = [k \in VectorKeys |-> 0]
  BY <1>4 DEF State
<1>6. vectorEpoch \in Nat
  BY DEF IInv, WorldTyped
<1>7. IsState(st)
  BY <1>1, <1>3, <1>5, <1>6 DEF IsState, Revisions
<1>8. \A k \in VectorKeys : Stands(refresh.seen[k], k)
  BY <1>1, <1>2 DEF ReadStands
<1>9. Vouched(st.epoch, st.live)
  BY <1>1, <1>3, <1>5, <1>8, NowVouched
<1> PICK bytes : bytes = [k \in VectorKeys |-> refresh.seen[k][1]]
  OBVIOUS
<1>10. \A k \in VectorKeys : refresh.seen[k] \in Rows
  BY <1>3 DEF Tables
<1>11. bytes \in Revisions
  BY <1>10, RowTyped DEF Revisions
<1>12. /\ contents' \in [Objects -> Revisions] /\ contents'[i] = bytes
       /\ \A j : j # i => contents'[j] = contents[j]
  BY <1>11, ObjectWritten DEF IInv
<1>13. ASSUME NEW k \in VectorKeys
       PROVE  bytes[k] = IF st.live[k] # NoRow THEN st.live[k][1] ELSE st.tombs[k]
  BY <1>5, RowTyped
<1>14. Describes(st)'
  BY <1>5, <1>12, <1>13 DEF Describes, Holds
<1> QED
  BY <1>1, <1>5, <1>7, <1>8, <1>9, <1>12, <1>14

LEMMA FinishBuildSound ==
  ASSUME IInv, FinishBuild
  PROVE  IInv'
<1> PICK i : i = FreshObject
  OBVIOUS
<1> PICK st : st = State(refresh.epoch, i, [k \in VectorKeys |-> Candidate(k)],
                         [k \in VectorKeys |-> 0], 0)
  OBVIOUS
<1> PICK o : o = refresh.owner
  OBVIOUS
<1> PICK v : v = SearchWith(o, st)
  OBVIOUS
<1>1. /\ ReadAll("build") /\ Consistent /\ Allocatable /\ states' = st
      /\ contents' = [contents EXCEPT ![i] = [k \in VectorKeys |-> refresh.seen[k][1]]]
      /\ searcher' = [searcher EXCEPT ![o] = v]
      /\ refresh' = NoRefresh /\ Request(st, persisted)
      /\ UNCHANGED <<rows, vectorEpoch, mutations, disk, flush, torn, silent>>
  BY DEF FinishBuild
<1>2. refresh # NoRefresh /\ refresh.mode = "build"
  BY <1>1 DEF ReadAll
<1>3. OwnerSound
  BY <1>2 DEF IInv, RefreshSound
<1>4. o \in Searchers /\ searcher[o].phase = "state"
  BY <1>3 DEF OwnerSound
<1>a. i \in Objects /\ i \notin Referred
  BY <1>1, FreshUnreferred
<1>5. /\ st.epoch = vectorEpoch /\ st.idx = i /\ st.sidecar = 0
      /\ IsState(st) /\ Vouched(st.epoch, st.live) /\ Describes(st)'
      /\ \A k \in VectorKeys : Stands(st.live[k], k)
      /\ contents' \in [Objects -> Revisions]
      /\ \A j : j # i => contents'[j] = contents[j]
  BY <1>1, <1>a, BuiltWhole
<1>6. /\ searcher' = [x \in Searchers |-> searcher'[x]] /\ searcher'[o] = v
      /\ \A x \in Searchers : x # o => searcher'[x] = searcher[x]
  BY <1>1, <1>4, OneMoves
<1>7. v.phase = "search"
  BY DEF SearchWith
<1>8. Trusting
  BY <1>1, <1>6, <1>7, SteadyTrusts DEF Steady
<1>9. ~Refreshes("embed") /\ ~Updating' /\ ~Refreshes("embed")'
  BY <1>1, <1>2 DEF Updating, Refreshes
<1>10. Whole(st)'
  <2>1. Vouched(st.epoch, st.live)'
    BY <1>5, <1>8 DEF Trusting
  <2> QED
    BY <1>5, <2>1 DEF Whole, IsState, Tables, Revisions, Rows
<1>11. CacheSound'
  BY <1>1, <1>10 DEF CacheSound
<1>12. WorldTyped'
  BY <1>1, <1>5 DEF IInv, WorldTyped, Tables, Rows, Revisions
<1>13. SearchesSound'
  <2>1. ASSUME NEW x \in Searchers PROVE SearchSound(searcher[x])'
    <3>1. CASE x = o
      <4>1. \A k \in VectorKeys : Told(st.live[k], k, searcher[o].during)
        <5>1. SeesNow(searcher[o])
          BY <1>4 DEF IInv, SearchesSound, SearchSound
        <5> QED
          BY <1>5, <5>1, StandsTold
      <4>2. SearchSound(v)'
        BY <1>1, <1>4, <1>5, <4>1, SearchTakes
      <4> QED
        BY <1>6, <3>1, <4>2
    <3>2. CASE x # o
      BY <1>1, <1>a, <1>5, <1>6, <1>9, <3>2, OthersStay
    <3> QED
      BY <3>1, <3>2
  <2> QED
    BY <2>1 DEF SearchesSound
<1>14. /\ pending.idx # i /\ persisted.idx # i /\ inflightWrite.idx # i
       /\ \A d \in Drains :
            drain[d].phase \in {"serialize", "publish"} => drain[d].state.idx # i
  BY <1>a, ReferredTo
<1>15. /\ drain' = [d \in Drains |-> drain'[d]]
       /\ \A d \in Drains : drain'[d] = drain[d] \/ drain'[d] = [phase |-> "next"]
       /\ inflightWrite' = inflightWrite /\ persisted' = persisted /\ pending' \in {pending, st}
  BY <1>1, <1>5, RequestMoves
<1>16. \A x : x.idx # i => NotNewer(x)'
  BY <1>1, <1>5, <1>9, FreshNotNewer
<1>17. NotNewer(st)'
  BY <1>1, <1>5, <1>9 DEF NotNewer, IsState
<1>18. /\ NotNewer(pending)' /\ NotNewer(persisted)' /\ NotNewer(inflightWrite)'
       /\ pending' # NoState => Whole(pending)'
  <2>1. \A x : x = pending \/ x = persisted \/ x = inflightWrite => NotNewer(x)'
    BY <1>14, <1>16
  <2>2. \A x : x = pending /\ x # NoState => Whole(x)'
    <3>1. \A x : Whole(x) /\ x.idx # i => Whole(x)'
      BY <1>5, <1>8, <1>9, WholeStays
    <3> QED
      BY <1>14, <3>1 DEF IInv, QueueSound
  <2> QED
    BY <1>10, <1>15, <1>17, <2>1, <2>2
<1>19. MaybeState(persisted)'
  BY <1>15 DEF IInv, QueueSound, MaybeState, IsState, Tables, Revisions, Rows
<1>20. \A d \in Drains : drain[d].phase \in {"serialize", "publish"} =>
         \A x : x = drain[d].state => NotNewer(x)'
  BY <1>14, <1>16
<1> QED
  BY <1>1, <1>5, <1>6, <1>8, <1>11, <1>12, <1>13, <1>14, <1>15, <1>18, <1>19, <1>20, IndexMoves

\* A refresh fails: an update drops the state, and what a search finds no more
\* is torn.
LEMMA RaiseSound ==
  ASSUME IInv, refresh # NoRefresh, Raise
  PROVE  IInv'
<1> PICK o : o = refresh.owner
  OBVIOUS
<1> PICK v : v = [phase |-> "fallback", during |-> searcher[o].during]
  OBVIOUS
<1>1. /\ searcher' = [searcher EXCEPT ![o] = v] /\ refresh' = NoRefresh
      /\ UNCHANGED <<rows, vectorEpoch, contents, inflightWrite, persisted, drain, mutations,
                     disk, silent>>
      /\ IF refresh.mode = "build"
         THEN UNCHANGED <<states, pending, torn>>
         ELSE /\ states' = NoState /\ pending' = NoState
              /\ torn' = IF refresh.mode = "embed" THEN torn \cup {refresh.base.idx} ELSE torn
  BY DEF Raise
<1>2. OwnerSound
  BY DEF IInv, RefreshSound
<1>3. o \in Searchers /\ searcher[o].phase = "state" /\ refresh.mode \in {"diff", "build", "embed"}
  BY <1>2 DEF OwnerSound
<1>4. /\ searcher' = [x \in Searchers |-> searcher'[x]] /\ searcher'[o] = v
      /\ \A x \in Searchers : x # o => searcher'[x] = searcher[x]
  BY <1>1, <1>3, OneMoves
<1>5. Trusting
  BY <1>1, <1>4, SteadyTrusts DEF Steady
<1>6. ~Updating' /\ ~Refreshes("embed")'
  BY <1>1 DEF Updating, Refreshes
<1>7. refresh.mode = "build" => ~Refreshes("embed")
  BY DEF Refreshes
<1>8. WorldTyped'
  BY <1>1 DEF IInv, WorldTyped, Tables, Rows, Revisions
<1>9. torn \subseteq torn'
  BY <1>1
<1>10. SearchesSound'
  <2>1. ASSUME NEW x \in Searchers PROVE SearchSound(searcher[x])'
    <3> PICK t : t = searcher[x]
      OBVIOUS
    <3>1. SearchSound(t)
      BY DEF IInv, SearchesSound
    <3>2. CASE x = o
      <4>1. SeesNow(t) /\ t.during = [k \in VectorKeys |-> t.during[k]]
        BY <1>3, <3>1, <3>2 DEF SearchSound
      <4>2. v.phase = "fallback" /\ v.during = t.during /\ v = [phase |-> "fallback", during |-> v.during]
        BY <3>2
      <4>3. SearchSound(v)'
        BY <1>1, <4>1, <4>2 DEF SearchSound, SearchShape, SeesNow, Stands
      <4> QED
        BY <1>4, <3>2, <4>3
    <3>3. CASE x # o
      <4>1. \A i, k : Missing(i, k) => i \in torn'
        BY <1>1 DEF Missing, Refreshes
      <4>2. SearchSound(t)'
        BY <1>1, <1>9, <3>1, <4>1, SearchStays
      <4> QED
        BY <1>4, <3>3, <4>2
    <3> QED
      BY <3>2, <3>3
  <2> QED
    BY <2>1 DEF SearchesSound
<1>11. \A x : NotNewer(x) => NotNewer(x)'
  <2>1. CASE refresh.mode = "build"
    BY <1>1, <1>6, <2>1, NotNewerStays
  <2>2. CASE refresh.mode # "build"
    BY <1>1, <1>6, <2>2, FreshNotNewer
  <2> QED
    BY <2>1, <2>2
<1>12. CacheSound'
  <2>1. CASE refresh.mode = "build"
    <3>1. \A x : Whole(x) => Whole(x)'
      BY <1>1, <1>5, <1>7, <2>1, WholeStays
    <3> QED
      BY <1>1, <2>1, <3>1 DEF IInv, CacheSound
  <2>2. CASE refresh.mode # "build"
    BY <1>1, <2>2 DEF CacheSound
  <2> QED
    BY <2>1, <2>2
<1>13. (pending' # NoState => Whole(pending)') /\ NotNewer(pending)'
  <2>1. CASE refresh.mode = "build"
    <3>1. \A x : Whole(x) => Whole(x)'
      BY <1>1, <1>5, <1>7, <2>1, WholeStays
    <3> QED
      BY <1>1, <1>11, <2>1, <3>1 DEF IInv, QueueSound
  <2>2. CASE refresh.mode # "build"
    BY <1>1, <2>2 DEF NotNewer
  <2> QED
    BY <2>1, <2>2
<1>14. NotNewer(persisted)' /\ NotNewer(inflightWrite)'
  BY <1>1, <1>11 DEF IInv, QueueSound
<1>15. MaybeState(persisted)'
  BY <1>1 DEF IInv, QueueSound, MaybeState, IsState, Tables, Revisions, Rows
<1>16. \A d \in Drains : drain[d].phase \in {"serialize", "publish"} =>
         \A x : x = drain[d].state => NotNewer(x)'
  BY <1>11 DEF IInv, DrainsSound, DrainSound
<1>17. drain' = [d \in Drains |-> drain'[d]]
  BY <1>1 DEF IInv, Shaped
<1> QED
  BY <1>1, <1>4, <1>5, <1>8, <1>10, <1>12, <1>13, <1>14, <1>15, <1>16, <1>17, IndexMoves

LEMMA RefreshEndsSound ==
  ASSUME IInv, Inconsistent \/ RefreshFails
  PROVE  IInv'
<1>1. refresh # NoRefresh /\ Raise
  BY DEF Inconsistent, RefreshFails, ReadAll
<1> QED
  BY <1>1, RaiseSound

-----------------------------------------------------------------------------
(* The writer                                                              *)

\* The absence of a state is no newer than any.
LEMMA NoStateSound == MaybeState(NoState) /\ NotNewer(NoState)
BY DEF MaybeState, NotNewer

\* Steps of the writer and of a flush.
LEMMA WriterMoves ==
  ASSUME IInv, UNCHANGED <<rows, vectorEpoch, states, contents, refresh, searcher, mutations,
                           torn, silent>>,
         drain' = [d \in Drains |-> drain'[d]],
         \A d \in Drains : \A t : t = drain'[d] => DrainSound(t),
         \A x : x = pending' => NotNewer(x) /\ (x # NoState => Whole(x)),
         \A x : x \in {persisted', inflightWrite'} => MaybeState(x) /\ NotNewer(x),
         disk' = [generations |-> disk'.generations, manifest |-> disk'.manifest],
         \A g \in disk'.generations : GenerationSound(g)
  PROVE  IInv'
<1>1. Trusting
  BY SteadyTrusts DEF Steady
<1>2. Shaped'
  BY DEF IInv, Shaped
<1>3. (\A mode : Refreshes(mode)' = Refreshes(mode)) /\ Updating' = Updating
  BY DEF Refreshes, Updating
<1>4. \A x : NotNewer(x) => NotNewer(x)'
  BY <1>3, NotNewerStays
<1>5. \A x : Whole(x) => Whole(x)'
  BY <1>1, <1>3, WholeStays
<1>6. CacheSound'
  BY <1>5 DEF IInv, CacheSound
<1>7. QueueSound'
  <2>1. NotNewer(pending)' /\ (pending' # NoState => Whole(pending)')
    BY <1>4, <1>5
  <2>2. NotNewer(persisted)' /\ NotNewer(inflightWrite)'
    BY <1>4
  <2>3. MaybeState(persisted)' /\ MaybeState(inflightWrite)'
    BY DEF MaybeState, IsState, Tables, Revisions, Rows
  <2> QED
    BY <2>1, <2>2, <2>3 DEF QueueSound
<1>8. DrainsSound'
  <2>1. mutations \in Nat
    BY DEF IInv, DrainsSound
  <2>2. ASSUME NEW t, DrainSound(t) PROVE DrainSound(t)'
    BY <1>1, <1>3, <1>4, <2>1, <2>2, DrainStays
  <2>3. ASSUME NEW d \in Drains PROVE DrainSound(drain[d])'
    BY <2>2
  <2> QED
    BY <2>1, <2>3 DEF DrainsSound
<1>9. GenerationsSound'
  <2>1. ASSUME NEW g \in disk'.generations PROVE GenerationSound(g)'
    BY <1>1 DEF GenerationSound, Trusting, Holds, Revisions
  <2> QED
    BY <2>1 DEF GenerationsSound
<1>10. WorldTyped'
  BY DEF IInv, WorldTyped, Tables, Rows, Revisions
<1>11. SearchesSound'
  <2>1. ASSUME NEW t, SearchSound(t) PROVE SearchSound(t)'
    <3>1. \A i, k : Missing(i, k) => Missing(i, k)'
      BY DEF Missing, Refreshes
    <3> QED
      BY <2>1, <3>1, SearchStays
  <2> QED
    BY <2>1 DEF IInv, SearchesSound
<1>12. RefreshSound'
  BY RefreshStays
<1> QED
  BY <1>2, <1>6, <1>7, <1>8, <1>9, <1>10, <1>11, <1>12 DEF IInv

\* The queue as it is.
LEMMA QueueHolds ==
  ASSUME IInv
  PROVE  /\ NotNewer(pending) /\ (pending # NoState => Whole(pending))
         /\ MaybeState(persisted) /\ NotNewer(persisted)
         /\ MaybeState(inflightWrite) /\ NotNewer(inflightWrite)
         /\ drain = [d \in Drains |-> drain[d]] /\ \A d \in Drains : DrainSound(drain[d])
         /\ disk = [generations |-> disk.generations, manifest |-> disk.manifest]
         /\ \A g \in disk.generations : GenerationSound(g)
BY DEF IInv, QueueSound, Shaped, DrainsSound, GenerationsSound

\* One writer thread goes on.
LEMMA DrainMoves ==
  ASSUME IInv, NEW d \in Drains, NEW v, drain' = [drain EXCEPT ![d] = v], DrainSound(v)
  PROVE  /\ drain' = [x \in Drains |-> drain'[x]]
         /\ \A x \in Drains : \A t : t = drain'[x] => DrainSound(t)
<1>1. /\ drain' = [x \in Drains |-> drain'[x]] /\ drain'[d] = v
      /\ \A x \in Drains : x # d => drain'[x] = drain[x]
  BY OneDrains
<1> QED
  BY <1>1, QueueHolds

LEMMA TakeSnapshotSound ==
  ASSUME IInv, NEW d \in Drains, TakeSnapshot(d)
  PROVE  IInv'
<1> PICK v : v = [phase |-> "serialize", state |-> pending, mutations |-> mutations]
  OBVIOUS
<1>1. /\ refresh = NoRefresh /\ pending # NoState
      /\ drain' = [drain EXCEPT ![d] = v] /\ pending' = NoState /\ inflightWrite' = pending
      /\ UNCHANGED <<rows, vectorEpoch, states, contents, refresh, searcher, persisted, mutations,
                     disk, torn, silent>>
  BY DEF TakeSnapshot, Unlocked
<1>2. ~Updating /\ ~Refreshes("embed")
  BY <1>1 DEF Updating, Refreshes
<1>3. NotNewer(pending) /\ Whole(pending) /\ mutations \in Nat
  BY <1>1, QueueHolds DEF IInv, DrainsSound
<1>4. IsState(pending) /\ Vouched(pending.epoch, pending.live) /\ Describes(pending)
  BY <1>2, <1>3 DEF Whole
<1>5. DrainSound(v)
  BY <1>2, <1>3, <1>4 DEF DrainSound
<1>6. /\ drain' = [x \in Drains |-> drain'[x]]
      /\ \A x \in Drains : \A t : t = drain'[x] => DrainSound(t)
  BY <1>1, <1>5, DrainMoves
<1>7. MaybeState(pending)
  BY <1>4 DEF MaybeState
<1> QED
  BY <1>1, <1>3, <1>6, <1>7, NoStateSound, QueueHolds, WriterMoves

LEMMA NothingPendingSound ==
  ASSUME IInv, NEW d \in Drains, NothingPending(d)
  PROVE  IInv'
<1> PICK v : v = [phase |-> "finally"]
  OBVIOUS
<1>1. /\ drain' = [drain EXCEPT ![d] = v]
      /\ UNCHANGED <<rows, vectorEpoch, states, contents, refresh, searcher, pending,
                     inflightWrite, persisted, mutations, disk, torn, silent>>
  BY DEF NothingPending
<1>2. DrainSound(v)
  BY DEF DrainSound
<1>3. /\ drain' = [x \in Drains |-> drain'[x]]
      /\ \A x \in Drains : \A t : t = drain'[x] => DrainSound(t)
  BY <1>1, <1>2, DrainMoves
<1> QED
  BY <1>1, <1>3, QueueHolds, WriterMoves

LEMMA LeaveDrainSound ==
  ASSUME IInv, NEW d \in Drains, LeaveDrain(d)
  PROVE  IInv'
<1> PICK v : v = NoDrain
  OBVIOUS
<1>1. /\ drain' = [drain EXCEPT ![d] = v] /\ inflightWrite' \in {NoState, inflightWrite}
      /\ UNCHANGED <<rows, vectorEpoch, states, contents, refresh, searcher, pending, persisted,
                     mutations, disk, torn, silent>>
  BY DEF LeaveDrain
<1>2. DrainSound(v)
  BY DEF DrainSound, NoDrain
<1>3. /\ drain' = [x \in Drains |-> drain'[x]]
      /\ \A x \in Drains : \A t : t = drain'[x] => DrainSound(t)
  BY <1>1, <1>2, DrainMoves
<1> QED
  BY <1>1, <1>3, NoStateSound, QueueHolds, WriterMoves

LEMMA WriteGenerationSound ==
  ASSUME IInv, NEW d \in Drains, WriteGeneration(d)
  PROVE  IInv'
<1> PICK st : st = drain[d].state
  OBVIOUS
<1> PICK n : n = Latest(disk.generations) + 1
  OBVIOUS
<1> PICK g : g = [number |-> n, epoch |-> st.epoch, live |-> st.live, tombs |-> st.tombs,
                  bytes |-> contents[st.idx]]
  OBVIOUS
<1> PICK v : v = [phase |-> "publish", state |-> st, number |-> n]
  OBVIOUS
<1>1. /\ drain[d].phase = "serialize" /\ drain[d].mutations = mutations
      /\ drain' = [drain EXCEPT ![d] = v]
      /\ disk' = [disk EXCEPT !.generations = @ \cup {g}]
      /\ UNCHANGED <<rows, vectorEpoch, states, contents, refresh, searcher, pending,
                     inflightWrite, persisted, mutations, torn, silent>>
  BY DEF WriteGeneration, StillDescribed
<1>2. IsState(st) /\ Vouched(st.epoch, st.live) /\ NotNewer(st) /\ Describes(st)
  BY <1>1, QueueHolds DEF DrainSound
<1>3. contents[st.idx] \in Revisions
  BY <1>2 DEF IInv, WorldTyped, IsState
<1>4. GenerationSound(g)
  BY <1>2, <1>3 DEF GenerationSound, Describes, IsState
<1>5. /\ disk' = [generations |-> disk'.generations, manifest |-> disk'.manifest]
      /\ disk'.generations = disk.generations \cup {g}
  BY <1>1, QueueHolds
<1>6. DrainSound(v)
  BY <1>2 DEF DrainSound
<1>7. /\ drain' = [x \in Drains |-> drain'[x]]
      /\ \A x \in Drains : \A t : t = drain'[x] => DrainSound(t)
  BY <1>1, <1>6, DrainMoves
<1> QED
  BY <1>1, <1>4, <1>5, <1>7, QueueHolds, WriterMoves

\* A write is over, whatever came of it.
LEMMA AfterWriteSound ==
  ASSUME IInv, NEW d \in Drains, drain[d].phase \in {"serialize", "publish"},
         NEW ok \in BOOLEAN, AfterWrite(d, ok),
         disk' = [generations |-> disk'.generations, manifest |-> disk'.manifest],
         disk'.generations \subseteq disk.generations
  PROVE  IInv'
<1> PICK v : v = [phase |-> "next"]
  OBVIOUS
<1> PICK st : st = drain[d].state
  OBVIOUS
<1>1. /\ drain' = [drain EXCEPT ![d] = v] /\ inflightWrite' \in {NoState, inflightWrite}
      /\ persisted' \in {st, persisted}
      /\ UNCHANGED <<rows, vectorEpoch, states, contents, refresh, searcher, pending, mutations,
                     torn, silent>>
  BY DEF AfterWrite
<1>2. DrainSound(v)
  BY DEF DrainSound
<1>3. /\ drain' = [x \in Drains |-> drain'[x]]
      /\ \A x \in Drains : \A t : t = drain'[x] => DrainSound(t)
  BY <1>1, <1>2, DrainMoves
<1>4. MaybeState(st) /\ NotNewer(st)
  BY QueueHolds DEF DrainSound, MaybeState
<1> QED
  BY <1>1, <1>3, <1>4, NoStateSound, QueueHolds, WriterMoves

LEMMA DrainingSound ==
  ASSUME IInv, NEW d \in Drains, Draining(d) \/ WriteFails(d)
  PROVE  IInv'
<1>1. CASE SkipGeneration(d)
  BY <1>1, QueueHolds, AfterWriteSound DEF SkipGeneration
<1>2. CASE PublishManifest(d)
  <2>1. /\ disk' = [generations |-> Pruned(disk.generations, drain[d].number),
                    manifest |-> drain[d].number]
        /\ drain[d].phase = "publish" /\ AfterWrite(d, TRUE)
    BY <1>2 DEF PublishManifest
  <2>2. Pruned(disk.generations, drain[d].number) \subseteq disk.generations
    BY DEF Pruned
  <2> QED
    BY <2>1, <2>2, AfterWriteSound
<1>3. CASE WriteFails(d)
  BY <1>3, QueueHolds, AfterWriteSound DEF WriteFails
<1> QED
  BY <1>1, <1>2, <1>3, TakeSnapshotSound, NothingPendingSound, LeaveDrainSound,
     WriteGenerationSound DEF Draining

LEMMA FlushSound ==
  ASSUME IInv, BeginFlush \/ EndFlush
  PROVE  IInv'
<1>1. CASE EndFlush
  BY <1>1, QueueHolds, WriterMoves DEF EndFlush, writerVars
<1>2. CASE BeginFlush
  <2>1. /\ refresh = NoRefresh
        /\ IF states # NoState THEN Request(states, persisted) ELSE UNCHANGED writerVars
        /\ UNCHANGED <<rows, vectorEpoch, states, contents, refresh, searcher, mutations, disk,
                       torn, silent>>
    BY <1>2 DEF BeginFlush, Unlocked
  <2>2. CASE states = NoState
    BY <2>1, <2>2, QueueHolds, WriterMoves DEF writerVars
  <2>3. CASE states # NoState
    <3> PICK st : st = states
      OBVIOUS
    <3>1. /\ drain' = [d \in Drains |-> drain'[d]]
          /\ \A d \in Drains : drain'[d] = drain[d] \/ drain'[d] = [phase |-> "next"]
          /\ UNCHANGED inflightWrite
          /\ pending' \in {pending, st} /\ persisted' \in {persisted, st}
      BY <2>1, <2>3, RequestMoves
    <3>2. Whole(st) /\ IsState(st) /\ MaybeState(st)
      BY <2>3 DEF IInv, CacheSound, Whole, MaybeState
    <3>3. NotNewer(st)
      BY <2>1, <2>3, <3>2 DEF NotNewer, Updating, Refreshes, IsState
    <3>4. \A t : t = [phase |-> "next"] => DrainSound(t)
      BY DEF DrainSound
    <3>5. \A d \in Drains : \A t : t = drain'[d] => DrainSound(t)
      BY <3>1, <3>4, QueueHolds
    <3> QED
      BY <2>1, <3>1, <3>2, <3>3, <3>5, QueueHolds, WriterMoves
  <2> QED
    BY <2>2, <2>3
<1> QED
  BY <1>1, <1>2

-----------------------------------------------------------------------------
(* Start, crash and the theorems                                           *)

\* A process that has just started, over a store and a disk that are sound.
LEMMA StartSound ==
  ASSUME rows' \in Tables, vectorEpoch' \in Nat, silent' \in [VectorKeys -> SUBSET Rows],
         \A k \in VectorKeys : silent'[k] # {} => rows'[k] = NoRow,
         states' = NoState, contents' = [i \in Objects |-> [k \in VectorKeys |-> 0]],
         refresh' = NoRefresh, searcher' = [s \in Searchers |-> NoSearch],
         pending' = NoState, inflightWrite' = NoState, persisted' = NoState, mutations' = 0,
         drain' = [d \in Drains |-> NoDrain],
         disk' = [generations |-> disk'.generations, manifest |-> disk'.manifest],
         GenerationsSound'
  PROVE  IInv'
<1>1. WorldTyped'
  BY DEF WorldTyped, Tables, Rows, Revisions
<1>2. Shaped'
  BY DEF Shaped
<1>3. CacheSound' /\ RefreshSound'
  BY DEF CacheSound, RefreshSound
<1>4. QueueSound'
  BY DEF QueueSound, MaybeState, NotNewer
<1>5. DrainsSound'
  BY DEF DrainsSound, DrainSound, NoDrain
<1>6. SearchesSound'
  BY DEF SearchesSound, SearchSound, SearchShape, NoSearch
<1> QED
  BY <1>1, <1>2, <1>3, <1>4, <1>5, <1>6 DEF IInv

LEMMA CrashSound ==
  ASSUME IInv, CrashFaiss
  PROVE  IInv'
<1>1. /\ states' = NoState /\ contents' = [i \in Objects |-> [k \in VectorKeys |-> 0]]
      /\ refresh' = NoRefresh /\ searcher' = [s \in Searchers |-> NoSearch]
      /\ pending' = NoState /\ inflightWrite' = NoState /\ persisted' = NoState /\ mutations' = 0
      /\ drain' = [d \in Drains |-> NoDrain]
      /\ UNCHANGED <<rows, vectorEpoch, disk, silent>>
  BY DEF CrashFaiss
<1>2. /\ rows' \in Tables /\ vectorEpoch' \in Nat /\ silent' \in [VectorKeys -> SUBSET Rows]
      /\ \A k \in VectorKeys : silent'[k] # {} => rows'[k] = NoRow
      /\ disk' = [generations |-> disk'.generations, manifest |-> disk'.manifest]
  BY <1>1 DEF IInv, WorldTyped, Shaped
<1>3. Trusting
  BY <1>1, SteadyTrusts DEF Steady, NoSearch
<1>4. GenerationsSound'
  BY <1>1, <1>3, GenerationsStay
<1> QED
  BY <1>1, <1>2, <1>4, StartSound

\* The invariant holds at the start.
LEMMA InitSound == ASSUME FaissInit PROVE IInv
<1>1. WorldTyped
  BY FaissAssumption DEF FaissInit, WorldTyped, Tables, Rows, NoRow, NoneSilent, Revisions
<1>2. Shaped
  BY DEF FaissInit, Shaped
<1>3. CacheSound /\ RefreshSound /\ GenerationsSound
  BY DEF FaissInit, CacheSound, RefreshSound, GenerationsSound
<1>4. QueueSound
  BY DEF FaissInit, QueueSound, MaybeState, NotNewer
<1>5. DrainsSound
  BY DEF FaissInit, DrainsSound, DrainSound, NoDrain
<1>6. SearchesSound
  BY DEF FaissInit, SearchesSound, SearchSound, SearchShape, NoSearch
<1> QED
  BY <1>1, <1>2, <1>3, <1>4, <1>5, <1>6 DEF IInv

\* No step breaks the invariant.
LEMMA StepSound == ASSUME IInv, FaissNext PROVE IInv'
<1>1. CASE \E k \in VectorKeys : (\E r \in RowValues \cup {NoRow} : Commit(k, r)) \/ CascadeSilently(k)
  BY <1>1, CommitSound, CascadeSound DEF Rows
<1>2. CASE \E s \in Searchers : BeginSearch(s) \/ Searching(s)
  BY <1>2, BeginSearchSound, UseCachedSound, LoadPublishedSound, StartUpdateSound,
     StartBuildSound, SearchStateSound, SearchExactlySound, EndSearchSound DEF Searching
<1>3. CASE Refreshing \/ RefreshFails
  BY <1>3, ReadBatchSound, GiveUpDiffSound, RemoveReplacedSound, AddBatchSound,
     FinishUpdateSound, FinishBuildSound, RefreshEndsSound DEF Refreshing
<1>4. CASE \E d \in Drains : Draining(d) \/ WriteFails(d)
  BY <1>4, DrainingSound
<1>5. CASE BeginFlush \/ EndFlush \/ CrashFaiss
  BY <1>5, FlushSound, CrashSound
<1> QED
  BY <1>1, <1>2, <1>3, <1>4, <1>5 DEF FaissNext

\* A step that changes nothing changes nothing the invariant speaks of.
LEMMA StutterSound == ASSUME IInv, UNCHANGED faissVars PROVE IInv'
BY QueueHolds, WriterMoves DEF faissVars

(* The inductive invariant: in every reachable state each index that is    *)
(* cached, queued, being written or on disk holds what is said of it, no   *)
(* table claims an epoch at which the store stood otherwise, and a running *)
(* search will find nothing that was not committed while it ran.           *)
(* (FAISSLocalVectorStore, _update_state, _drain_writes)                   *)
THEOREM FaissSound == FaissSpec => []IInv
<1>1. FaissInit => IInv
  BY InitSound
<1>2. IInv /\ [FaissNext]_faissVars => IInv'
  BY StepSound, StutterSound
<1> QED
  BY <1>1, <1>2, PTL DEF FaissSpec

(* Every search answers, key by key, as the store stood at some moment of   *)
(* the call.  (FAISSLocalVectorStore.search)                               *)
THEOREM FaissAlwaysFresh == FaissSpec => []FaissAnswersFresh
<1>1. IInv => FaissAnswersFresh
  BY DEF IInv, SearchesSound, SearchSound, Answered, FaissAnswersFresh
<1> QED
  BY <1>1, FaissSound, PTL

(* Neither in memory nor on disk does an index say of itself what is not   *)
(* so.  (_update_state, _persist_state)                                    *)
THEOREM FaissAlwaysWhole == FaissSpec => []FaissStatesAreWhole
<1>1. ASSUME IInv PROVE CachedStateIsExact
  <2> SUFFICES ASSUME states # NoState, Unlocked \/ refresh.mode # "embed"
               PROVE  /\ Holds(contents[states.idx], states.live, states.tombs)
                      /\ states.epoch = vectorEpoch =>
                           \A k \in VectorKeys : states.live[k] \in {rows[k]} \cup silent[k]
    BY DEF CachedStateIsExact
  <2>1. Whole(states) /\ ~Refreshes("embed")
    BY <1>1 DEF IInv, CacheSound, Refreshes, Unlocked
  <2> QED
    BY <2>1 DEF Whole, Describes, Vouched, Stands
<1>2. ASSUME IInv PROVE GenerationsAreWhole
  BY <1>2 DEF IInv, GenerationsSound, GenerationSound, Vouched, Stands, GenerationsAreWhole
<1>3. IInv => FaissStatesAreWhole
  BY <1>1, <1>2 DEF FaissStatesAreWhole
<1> QED
  BY <1>3, FaissSound, PTL

=============================================================================
