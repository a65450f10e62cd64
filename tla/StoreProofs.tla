---------------------------- MODULE StoreProofs -----------------------------
(***************************************************************************)
(* The stores and their filters: the searches of the local store answer    *)
(* with what its records had, the ways the stores apply a filter agree,    *)
(* the PostgreSQL stores keep the names of tables and the vectors of       *)
(* records straight, and the walks over a graph find what they should:     *)
(* proved for any records, keys, filters, batches, models, dimensions,     *)
(* processes, graphs and calls.                                            *)
(***************************************************************************)
EXTENDS Integers, Filters, StoreEpochs, GraphExpansion, LocalSearch,
        FiniteSetTheorems, WellFoundedInduction, TLAPS

-----------------------------------------------------------------------------
(* Counting what precedes a member: the first k of a finite ordered set.    *)

StrictOrder(S, R) ==
  /\ \A x \in S : <<x, x>> \notin R
  /\ \A x, y \in S : x # y => <<x, y>> \in R \/ <<y, x>> \in R
  /\ \A x, y, z \in S : <<x, y>> \in R /\ <<y, z>> \in R => <<x, z>> \in R

Before(S, R, x) == {y \in S : <<y, x>> \in R}
FirstOf(S, R, k) == {x \in S : Cardinality(Before(S, R, x)) < k}

\* What precedes a member counts more than what precedes an earlier one.
LEMMA BeforeCounts ==
  ASSUME NEW S, NEW R, IsFiniteSet(S), StrictOrder(S, R)
  PROVE  \A x \in S : /\ IsFiniteSet(Before(S, R, x))
                      /\ Cardinality(Before(S, R, x)) \in Nat
                      /\ Cardinality(Before(S, R, x)) < Cardinality(S)
                      /\ \A y \in S : <<x, y>> \in R =>
                           Cardinality(Before(S, R, x)) < Cardinality(Before(S, R, y))
<1> SUFFICES ASSUME NEW x \in S
             PROVE  /\ IsFiniteSet(Before(S, R, x))
                    /\ Cardinality(Before(S, R, x)) \in Nat
                    /\ Cardinality(Before(S, R, x)) < Cardinality(S)
                    /\ \A y \in S : <<x, y>> \in R =>
                         Cardinality(Before(S, R, x)) < Cardinality(Before(S, R, y))
  OBVIOUS
<1>1. ASSUME NEW y \in S
      PROVE  /\ Before(S, R, y) \in SUBSET S /\ IsFiniteSet(Before(S, R, y))
             /\ Cardinality(Before(S, R, y)) \in Nat
             /\ Cardinality(Before(S, R, y)) <= Cardinality(S)
             /\ Cardinality(S) = Cardinality(Before(S, R, y)) => S = Before(S, R, y)
  <2>1. Before(S, R, y) \in SUBSET S
    BY DEF Before
  <2> QED BY <2>1, FS_Subset, FS_CardinalityType
<1>2. x \notin Before(S, R, x)
  BY DEF Before, StrictOrder
<1>3. Cardinality(S) \in Nat
  BY FS_CardinalityType
<1>4. ASSUME NEW y \in S, <<x, y>> \in R
      PROVE  Cardinality(Before(S, R, x)) < Cardinality(Before(S, R, y))
  <2>1. Before(S, R, x) \in SUBSET Before(S, R, y) /\ x \in Before(S, R, y)
    BY <1>4 DEF Before, StrictOrder
  <2>2. IsFiniteSet(Before(S, R, y))
    BY <1>1
  <2>3. /\ Cardinality(Before(S, R, x)) <= Cardinality(Before(S, R, y))
        /\ Cardinality(Before(S, R, y)) = Cardinality(Before(S, R, x))
             => Before(S, R, y) = Before(S, R, x)
    BY <2>1, <2>2, FS_Subset
  <2> QED BY <2>1, <2>3, <1>1, <1>2
<1> QED BY <1>1, <1>2, <1>3, <1>4

\* The first k number k, unless there are fewer, and precede the others.
LEMMA FirstOfCounts ==
  ASSUME NEW S, NEW R, IsFiniteSet(S), StrictOrder(S, R), NEW k \in Nat
  PROVE  /\ IsFiniteSet(FirstOf(S, R, k))
         /\ Cardinality(FirstOf(S, R, k)) =
              IF k <= Cardinality(S) THEN k ELSE Cardinality(S)
         /\ Cardinality(S) <= k => FirstOf(S, R, k) = S
         /\ \A x \in FirstOf(S, R, k), y \in S \ FirstOf(S, R, k) : <<x, y>> \in R
<1> DEFINE rank == [x \in S |-> Cardinality(Before(S, R, x))]
           n == Cardinality(S)
           F == FirstOf(S, R, k)
<1>1. n \in Nat
  BY FS_CardinalityType
<1>2. \A x \in S : rank[x] \in 0..(n - 1)
  BY <1>1, BeforeCounts
<1>3. \A x, y \in S : <<x, y>> \in R => rank[x] < rank[y]
  BY BeforeCounts
<1>a. rank \in [S -> 0..(n - 1)]
  BY <1>2
<1> HIDE DEF rank, n
<1>4. \A x, y \in S : rank[x] = rank[y] => x = y
  <2> SUFFICES ASSUME NEW x \in S, NEW y \in S, rank[x] = rank[y], x # y PROVE FALSE
    OBVIOUS
  <2>1. rank[x] < rank[y] \/ rank[y] < rank[x]
    BY <1>3 DEF StrictOrder
  <2>2. rank[x] \in Int
    BY <1>a, <1>1
  <2> QED BY <2>1, <2>2
<1>5. rank \in Injection(S, 0..(n - 1))
  BY <1>a, <1>4 DEF Injection, IsInjective
<1>6. rank \in Surjection(S, 0..(n - 1))
  <2>1. IsFiniteSet(0..(n - 1)) /\ Cardinality(0..(n - 1)) = n
    BY <1>1, FS_Interval
  <2> QED BY <1>5, <2>1, FS_Injection DEF n
<1>7. F = {x \in S : rank[x] < k} /\ F \in SUBSET S
  BY DEF FirstOf, rank
<1>8. IsFiniteSet(F)
  BY <1>7, FS_Subset
<1>9. ASSUME NEW x \in F, NEW y \in S \ F PROVE <<x, y>> \in R
  <2>1. rank[x] \in Int /\ rank[y] \in Int /\ rank[x] < k /\ ~(rank[y] < k)
    BY <1>a, <1>1, <1>7
  <2>2. ~(rank[y] < rank[x]) /\ x # y /\ x \in S /\ y \in S
    BY <2>1, <1>7
  <2> QED BY <2>2, <1>3 DEF StrictOrder
<1>10. n <= k => F = S
  BY <1>1, <1>2, <1>7
<1>11. ASSUME k <= n PROVE Cardinality(F) = k
  <2> DEFINE f == [x \in F |-> rank[x]]
  <2>1. f \in Injection(F, 0..(k - 1))
    <3>1. \A x \in F : x \in S /\ rank[x] \in 0..(k - 1)
      BY <1>a, <1>7, <1>1
    <3>2. f \in [F -> 0..(k - 1)]
      BY <3>1
    <3> QED BY <3>1, <3>2, <1>4 DEF Injection, IsInjective
  <2>2. \A m \in 0..(k - 1) : \E x \in F : f[x] = m
    <3> SUFFICES ASSUME NEW m \in 0..(k - 1) PROVE \E x \in F : f[x] = m
      OBVIOUS
    <3>1. m \in 0..(n - 1)
      BY <1>1, <1>11
    <3>2. PICK x \in S : rank[x] = m
      BY <3>1, <1>6 DEF Surjection
    <3> QED BY <3>2, <1>7
  <2>3. f \in Surjection(F, 0..(k - 1))
    BY <2>1, <2>2 DEF Surjection, Injection
  <2>4. IsFiniteSet(0..(k - 1)) /\ Cardinality(0..(k - 1)) = k
    BY FS_Interval
  <2> HIDE DEF f
  <2> QED BY <2>1, <2>3, <2>4, FS_Injection
<1> QED BY <1>1, <1>8, <1>9, <1>10, <1>11 DEF n

\* A finite set of numbers has a greatest one; the values of a function on a
\* finite set are finite.
LEMMA GreatestExists ==
  ASSUME NEW N \in SUBSET Nat, IsFiniteSet(N), N # {}
  PROVE  \E m \in N : \A x \in N : x <= m
<1> DEFINE R == {p \in N \X N : p[1] < p[2]}
           F == FirstOf(N, R, Cardinality(N) - 1)
<1>1. StrictOrder(N, R)
  BY DEF StrictOrder
<1>2. Cardinality(N) \in Nat /\ Cardinality(N) # 0
  BY FS_CardinalityType, FS_EmptySet
<1>3. Cardinality(N) - 1 \in Nat
  BY <1>2
<1>4. Cardinality(F) = Cardinality(N) - 1 /\ \A x \in F, y \in N \ F : <<x, y>> \in R
  <2> HIDE DEF R
  <2> QED BY <1>1, <1>2, <1>3, FirstOfCounts
<1>5. F # N /\ F \subseteq N
  <2>1. Cardinality(F) # Cardinality(N)
    BY <1>2, <1>4
  <2> QED BY <2>1 DEF FirstOf
<1>6. PICK m \in N : m \notin F
  BY <1>5
<1>7. ASSUME NEW x \in N \ F, x # m PROVE FALSE
  <2>1. /\ IsFiniteSet(F) /\ IsFiniteSet(F \cup {m})
        /\ Cardinality(F \cup {m}) = Cardinality(N)
    BY <1>2, <1>4, <1>5, <1>6, FS_Subset, FS_AddElement
  <2>2. F \cup {m} \in SUBSET N
    BY <1>5
  <2>3. N = F \cup {m}
    BY <2>1, <2>2, FS_Subset
  <2> QED BY <1>7, <2>3
<1>8. ASSUME NEW x \in N PROVE x <= m
  <2>1. CASE x = m
    BY <2>1
  <2>2. CASE x # m
    <3>1. x \in F
      BY <2>2, <1>7
    <3>2. <<x, m>> \in R
      BY <3>1, <1>4, <1>6
    <3> QED BY <3>2
  <2> QED BY <2>1, <2>2
<1> QED BY <1>6, <1>8

LEMMA ValuesFinite ==
  ASSUME NEW S, IsFiniteSet(S), NEW f
  PROVE  /\ IsFiniteSet({f[x] : x \in S})
         /\ Cardinality({f[x] : x \in S}) <= Cardinality(S)
<1> DEFINE g == [x \in S |-> f[x]]
           T == {f[x] : x \in S}
<1>1. g \in [S -> T]
  OBVIOUS
<1>2. \A t \in T : \E x \in S : g[x] = t
  OBVIOUS
<1>3. g \in Surjection(S, T)
  BY <1>1, <1>2 DEF Surjection
<1> HIDE DEF T, g
<1> QED BY <1>3, FS_Surjection DEF T

-----------------------------------------------------------------------------
(* Local searches: the inductive invariant.                                *)

LocalSpec == LocalSearchInit /\ [][LocalSearchNext]_localVars

Hits == [key : LocalKeys, score : Int, row : Nat]
LookupSteps == {"eligible", "stats", "snapshot", "blocks", "fts", "scan", "done"}
Lookups == [step : LookupSteps, call : SearchCalls, each : BOOLEAN, keys : SUBSET LocalKeys,
            after : Nat, best : SUBSET Hits, answers : Seq(SUBSET Hits), rung : Nat,
            cut : BOOLEAN]

\* The store, with what the history says of it: records that are there have
\* rows of their own.
StoreShape ==
  /\ base \in [LocalKeys -> LocalRecords \cup {Gone}]
  /\ rowids \in [LocalKeys -> Nat \ {0}]
  /\ \A x, y \in Here(base) : rowids[x] = rowids[y] => x = y
  /\ seen \in [LocalKeys -> SUBSET (LocalRecords \cup {Gone})]
  /\ \A key \in LocalKeys : IsFiniteSet(seen[key])
  /\ lookup # Idle => \A key \in LocalKeys : base[key] \in seen[key]

LookupShape ==
  lookup # Idle =>
    /\ lookup \in Lookups
    /\ IsFiniteSet(lookup.best)
    /\ lookup.step \in {"eligible", "stats", "snapshot", "blocks"} => lookup.call.kind = "vector"
    /\ lookup.step \in {"fts", "scan"} => lookup.call.kind = lookup.step
    /\ lookup.step = "eligible" => lookup.call.filter = "typed"

\* A record the search has to find, where it meets it, and the hit it is due.
Due(key) == seen[key] = {base[key]} /\ Wanted(base[key])
Place(key) == IF lookup.call.kind = "scan" THEN rowids[key] ELSE key
DueHit(key, i) ==
  Hit(key, HitScore(base[key], i), IF lookup.call.kind = "scan" THEN rowids[key] ELSE 0)

\* x is among some hits, or k better ones are.
Covers(hits, x) ==
  \/ x \in hits
  \/ Cardinality(hits) = lookup.call.k /\ \A h \in hits : Better(h, x)

Justified(hits, i) ==
  /\ \A h \in hits : Explained(h, i)
  /\ \A g, h \in hits :
       (g # h /\ g.key = h.key) => (lookup.call.kind = "scan" /\ h.key \in readded)

\* The keys a vector search is left with hold every due record, and each of
\* them passed the filter once.
KeysShape ==
  (lookup # Idle /\ lookup.step \in {"stats", "snapshot", "blocks"}) =>
    /\ \A key \in LocalKeys : Due(key) => key \in lookup.keys
    /\ lookup.call.filter = "typed" =>
         \A key \in lookup.keys : \E r \in seen[key] : Wanted(r)

\* The hits so far: a page at a time, every due record passed is covered.
BestShape ==
  (lookup # Idle /\ lookup.step \notin {"fts", "done"}) =>
    LET i == Len(lookup.answers) + 1 IN
    /\ Justified(lookup.best, i)
    /\ \A key \in LocalKeys :
         (Due(key) /\ Place(key) <= lookup.after) => Covers(lookup.best, DueHit(key, i))
    /\ \A h \in lookup.best :
         IF lookup.call.kind = "scan"
         THEN h.row <= lookup.after /\ (h.row = rowids[h.key] \/ h.key \in readded)
         ELSE h.key <= lookup.after

AnswersShape ==
  (lookup # Idle /\ (lookup.step = "done" \/ lookup.call.kind = "vector")) =>
    \A i \in 1..Len(lookup.answers) :
      /\ Justified(lookup.answers[i], i)
      /\ ~lookup.cut => \A key \in LocalKeys :
           Due(key) => Covers(lookup.answers[i], DueHit(key, i))

SearchInv == StoreShape /\ LookupShape /\ KeysShape /\ BestShape /\ AnswersShape

LEMMA RecordShape ==
  ASSUME NEW r \in LocalRecords
  PROVE  /\ r # Gone
         /\ r.wanted \in BOOLEAN /\ r.active \in BOOLEAN /\ r.score \in Nat
<1>1. DOMAIN r = {"wanted", "active", "words", "score"}
  BY DEF LocalRecords
<1>2. DOMAIN Gone = {"words"}
  BY DEF Gone
<1>3. r # Gone
  BY <1>1, <1>2
<1> QED BY <1>3 DEF LocalRecords

-----------------------------------------------------------------------------
(* The best hits and the first keys.                                       *)

LEMMA BetterOrders ==
  /\ \A h \in Hits : ~Better(h, h)
  /\ \A h, g \in Hits : h # g => Better(h, g) \/ Better(g, h)
  /\ \A h, g, f \in Hits : Better(h, g) /\ Better(g, f) => Better(h, f)
<1> USE LocalSearchAssumption DEF LocalSearchAssumption
<1>1. \A h \in Hits : h.key \in Nat /\ h.score \in Int /\ h.row \in Nat
  BY DEF Hits
<1>2. \A h \in Hits : ~Better(h, h)
  BY <1>1 DEF Better
<1>3. ASSUME NEW h \in Hits, NEW g \in Hits, h # g PROVE Better(h, g) \/ Better(g, h)
  <2>1. h.key # g.key \/ h.score # g.score \/ h.row # g.row
    BY <1>3 DEF Hits
  <2> QED BY <2>1, <1>1 DEF Better
<1>4. ASSUME NEW h \in Hits, NEW g \in Hits, NEW f \in Hits, Better(h, g), Better(g, f)
      PROVE  Better(h, f)
  BY <1>1, <1>4 DEF Better
<1> QED BY <1>2, <1>3, <1>4

LEMMA TopCounts ==
  ASSUME NEW hits \in SUBSET Hits, IsFiniteSet(hits), NEW k \in Nat
  PROVE  /\ Top(hits, k) \in SUBSET Hits /\ Top(hits, k) \subseteq hits
         /\ IsFiniteSet(Top(hits, k))
         /\ Cardinality(Top(hits, k)) = IF k <= Cardinality(hits) THEN k ELSE Cardinality(hits)
         /\ Cardinality(hits) <= k => Top(hits, k) = hits
         /\ \A g \in Top(hits, k), h \in hits \ Top(hits, k) : Better(g, h)
<1> DEFINE R == {p \in hits \X hits : Better(p[1], p[2])}
<1>0. \A g, h \in hits : <<g, h>> \in R <=> Better(g, h)
  OBVIOUS
<1> HIDE DEF R
<1>1. StrictOrder(hits, R)
  BY <1>0, BetterOrders DEF StrictOrder
<1>2. \A h \in hits : {g \in hits : Better(g, h)} = Before(hits, R, h)
  BY <1>0 DEF Before
<1>3. Top(hits, k) = FirstOf(hits, R, k)
  BY <1>2 DEF Top, FirstOf
<1>4. Top(hits, k) \subseteq hits
  BY DEF Top
<1>5. /\ IsFiniteSet(FirstOf(hits, R, k))
      /\ Cardinality(FirstOf(hits, R, k)) = IF k <= Cardinality(hits) THEN k ELSE Cardinality(hits)
      /\ Cardinality(hits) <= k => FirstOf(hits, R, k) = hits
      /\ \A g \in FirstOf(hits, R, k), h \in hits \ FirstOf(hits, R, k) : <<g, h>> \in R
  BY <1>1, FirstOfCounts
<1>6. \A g \in Top(hits, k), h \in hits \ Top(hits, k) : Better(g, h)
  BY <1>0, <1>3, <1>4, <1>5
<1> QED BY <1>3, <1>4, <1>5, <1>6

\* The best of more hits cover what some of them cover.
LEMMA TopKeeps ==
  ASSUME NEW A \in SUBSET Hits, IsFiniteSet(A), NEW B \in SUBSET Hits, IsFiniteSet(B),
         NEW x \in Hits, lookup.call.k \in Nat, Covers(A, x) \/ x \in B
  PROVE  Covers(Top(A \cup B, lookup.call.k), x)
<1> DEFINE k == lookup.call.k
           T == Top(A \cup B, k)
<1>1. A \cup B \in SUBSET Hits /\ IsFiniteSet(A \cup B)
  BY FS_Union
<1>2. /\ T \subseteq A \cup B
      /\ Cardinality(T) = IF k <= Cardinality(A \cup B) THEN k ELSE Cardinality(A \cup B)
      /\ Cardinality(A \cup B) <= k => T = A \cup B
      /\ \A g \in T, h \in (A \cup B) \ T : Better(g, h)
  BY <1>1, TopCounts
<1>3. Cardinality(A \cup B) \in Nat /\ Cardinality(A) \in Nat
  BY <1>1, FS_CardinalityType
<1> HIDE DEF T
<1>4. CASE x \in A \cup B
  <2>1. CASE x \in T
    BY <2>1 DEF Covers, T
  <2>2. CASE x \notin T
    <3>1. Cardinality(T) = k
      BY <1>2, <1>3, <1>4, <2>2
    <3> QED BY <1>2, <1>4, <2>2, <3>1 DEF Covers, T
  <2> QED BY <2>1, <2>2
<1>5. CASE x \notin A \cup B
  <2>1. Cardinality(A) = k /\ \A h \in A : Better(h, x)
    BY <1>5 DEF Covers
  <2>2. A \in SUBSET (A \cup B)
    OBVIOUS
  <2>3. Cardinality(A) <= Cardinality(A \cup B)
    BY <2>2, <1>1, FS_Subset
  <2>4. Cardinality(T) = k
    BY <1>2, <1>3, <2>1, <2>3
  <2>5. ASSUME NEW h \in T PROVE Better(h, x)
    <3>1. CASE h \in A
      BY <3>1, <2>1
    <3>2. CASE h \notin A
      <4>1. \E g \in A : g \notin T
        <5> SUFFICES ASSUME A \subseteq T PROVE FALSE
          OBVIOUS
        <5>1. IsFiniteSet(T) /\ A \in SUBSET T
          BY <1>1, <1>2, FS_Subset
        <5>2. T = A
          BY <5>1, <2>1, <2>4, FS_Subset
        <5> QED BY <5>2, <3>2
      <4>2. PICK g \in A : g \notin T
        BY <4>1
      <4>3. Better(h, g) /\ Better(g, x)
        BY <4>2, <1>2, <2>1
      <4> QED BY <4>3, <1>2, BetterOrders
    <3> QED BY <3>1, <3>2
  <2> QED BY <2>4, <2>5 DEF Covers, T
<1> QED BY <1>4, <1>5

LEMMA PageCounts ==
  ASSUME NEW S \in SUBSET LocalKeys, NEW f \in [LocalKeys -> Nat],
         \A x, y \in S : f[x] = f[y] => x = y
  PROVE  /\ Page(S, f) \subseteq S /\ IsFiniteSet(Page(S, f))
         /\ Cardinality(Page(S, f)) < PageRows => Page(S, f) = S
         /\ Page(S, f) = {} => S = {}
         /\ \A x \in Page(S, f), y \in S \ Page(S, f) : f[x] < f[y]
<1> USE LocalSearchAssumption DEF LocalSearchAssumption
<1> DEFINE R == {p \in S \X S : f[p[1]] < f[p[2]]}
           P == Page(S, f)
<1>0. \A x, y \in S : <<x, y>> \in R <=> f[x] < f[y]
  OBVIOUS
<1>a. \A x \in S : f[x] \in Nat
  OBVIOUS
<1> HIDE DEF R
<1>1. StrictOrder(S, R)
  <2>1. \A x \in S : <<x, x>> \notin R
    BY <1>0, <1>a
  <2>2. \A x, y \in S : x # y => <<x, y>> \in R \/ <<y, x>> \in R
    BY <1>0, <1>a
  <2>3. \A x, y, z \in S : <<x, y>> \in R /\ <<y, z>> \in R => <<x, z>> \in R
    BY <1>0, <1>a
  <2> QED BY <2>1, <2>2, <2>3 DEF StrictOrder
<1>2. IsFiniteSet(S)
  BY FS_Subset
<1>3. \A x \in S : {y \in S : f[y] < f[x]} = Before(S, R, x)
  BY <1>0 DEF Before
<1>4. P = FirstOf(S, R, PageRows)
  BY <1>3 DEF Page, FirstOf
<1>5. P \subseteq S
  BY DEF Page
<1>6. /\ IsFiniteSet(P)
      /\ Cardinality(P) = IF PageRows <= Cardinality(S) THEN PageRows ELSE Cardinality(S)
      /\ Cardinality(S) <= PageRows => P = S
      /\ \A x \in P, y \in S \ P : <<x, y>> \in R
  BY <1>1, <1>2, <1>4, FirstOfCounts
<1>7. Cardinality(S) \in Nat /\ (S = {} <=> Cardinality(S) = 0)
      /\ (P = {} <=> Cardinality(P) = 0)
  BY <1>2, <1>6, FS_CardinalityType, FS_EmptySet
<1> HIDE DEF P
<1>8. Cardinality(P) < PageRows => P = S
  BY <1>6, <1>7
<1>9. P = {} => S = {}
  BY <1>6, <1>7
<1> QED BY <1>0, <1>5, <1>6, <1>8, <1>9 DEF P

LEMMA LastIsLast ==
  ASSUME NEW rows \in SUBSET LocalKeys, rows # {}, NEW f \in [LocalKeys -> Nat]
  PROVE  /\ LastOf(rows, f) \in Nat
         /\ \E x \in rows : f[x] = LastOf(rows, f)
         /\ \A x \in rows : f[x] <= LastOf(rows, f)
<1> DEFINE N == {f[x] : x \in rows}
<1>0. \A x \in rows : f[x] \in Nat
  OBVIOUS
<1>1. IsFiniteSet(rows)
  BY LocalSearchAssumption, FS_Subset DEF LocalSearchAssumption
<1>2. IsFiniteSet(N)
  BY ONLY <1>1, ValuesFinite
<1>3. N \in SUBSET Nat
  BY <1>0
<1>a. N # {}
  OBVIOUS
<1> HIDE DEF N
<1>4. \E m \in N : \A n \in N : n <= m
  BY <1>2, <1>3, <1>a, GreatestExists
<1>5. \E m \in {f[x] : x \in rows} : \A x \in rows : f[x] <= m
  BY <1>4 DEF N
<1>6. /\ LastOf(rows, f) \in {f[x] : x \in rows}
      /\ \A x \in rows : f[x] <= LastOf(rows, f)
  BY <1>5 DEF LastOf
<1> QED BY <1>6

-----------------------------------------------------------------------------
(* The beginning, and the commits that fall between the reads.             *)

LEMMA InitSearchInv == LocalSearchInit => SearchInv
<1> SUFFICES ASSUME LocalSearchInit PROVE SearchInv
  OBVIOUS
<1> USE LocalSearchAssumption DEF LocalSearchAssumption
<1>1. base \in [LocalKeys -> LocalRecords \cup {Gone}]
  BY DEF LocalSearchInit
<1> DEFINE from(key) == {x \in LocalKeys : x >= key}
<1>2. \A key \in LocalKeys :
        /\ from(key) \in SUBSET LocalKeys /\ key \in from(key) /\ IsFiniteSet(from(key))
        /\ Cardinality(from(key)) \in Nat \ {0}
  <2> SUFFICES ASSUME NEW key \in LocalKeys
               PROVE  /\ from(key) \in SUBSET LocalKeys /\ key \in from(key)
                      /\ IsFiniteSet(from(key)) /\ Cardinality(from(key)) \in Nat \ {0}
    OBVIOUS
  <2>1. from(key) \in SUBSET LocalKeys /\ key \in from(key)
    OBVIOUS
  <2>2. IsFiniteSet(from(key))
    BY <2>1, FS_Subset
  <2> HIDE DEF from
  <2> QED BY <2>1, <2>2, FS_CardinalityType, FS_EmptySet
<1>3. ASSUME NEW x \in LocalKeys, NEW y \in LocalKeys, x < y
      PROVE  Cardinality(from(y)) < Cardinality(from(x))
  <2>1. from(y) \in SUBSET from(x) /\ x \notin from(y) /\ x \in from(x)
    <3>1. x \in Nat /\ y \in Nat /\ \A z \in LocalKeys : z \in Nat
      OBVIOUS
    <3>2. \A z \in LocalKeys : z >= y => z >= x
      BY ONLY <1>3, <3>1
    <3>3. from(y) \in SUBSET from(x)
      BY ONLY <3>2
    <3>4. x \notin from(y) /\ x \in from(x)
      BY ONLY <1>3, <3>1, x \in LocalKeys
    <3> QED BY <3>3, <3>4
  <2>2. IsFiniteSet(from(x)) /\ Cardinality(from(x)) \in Nat /\ Cardinality(from(y)) \in Nat
    BY <1>2
  <2> HIDE DEF from
  <2>3. /\ Cardinality(from(y)) <= Cardinality(from(x))
        /\ Cardinality(from(x)) = Cardinality(from(y)) => from(x) = from(y)
    BY <2>1, <2>2, FS_Subset
  <2> QED BY <2>1, <2>2, <2>3
<1>4. \A key \in LocalKeys : rowids[key] = Cardinality(from(key))
  BY DEF LocalSearchInit
<1>5. rowids \in [LocalKeys -> Nat \ {0}]
  <2> HIDE DEF from
  <2>1. rowids = [key \in LocalKeys |-> rowids[key]]
    BY DEF LocalSearchInit
  <2> QED BY <1>2, <1>4, <2>1
<1>6. \A x, y \in LocalKeys : rowids[x] = rowids[y] => x = y
  <2> HIDE DEF from
  <2> SUFFICES ASSUME NEW x \in LocalKeys, NEW y \in LocalKeys, rowids[x] = rowids[y], x # y
               PROVE  FALSE
    OBVIOUS
  <2>1. x < y \/ y < x
    OBVIOUS
  <2>2. rowids[x] \in Nat /\ rowids[y] \in Nat
    BY <1>5
  <2> QED BY <1>3, <1>4, <2>1, <2>2
<1>7. StoreShape
  BY <1>1, <1>5, <1>6, FS_EmptySet DEF StoreShape, Here, LocalSearchInit
<1> QED BY <1>7 DEF SearchInv, LookupShape, KeysShape, BestShape, AnswersShape, LocalSearchInit

\* A commit changes one record: it is no longer constant, what was explained
\* stays so, and a record that keeps its place is due the same hit.
LEMMA CommitKeeps ==
  ASSUME SearchInv, lookup.step \notin {"idle", "done"}, lookup' = lookup,
         NEW key \in LocalKeys, NEW r \in LocalRecords \cup {Gone}, base[key] # r,
         base' = [base EXCEPT ![key] = r],
         seen' = [seen EXCEPT ![key] = @ \union {r}],
         rowids' \in [LocalKeys -> Nat \ {0}],
         \A x \in LocalKeys \ {key} : rowids'[x] = rowids[x],
         r # Gone => \A x \in Here(base) \ {key} : rowids[x] # rowids'[key],
         readded \subseteq readded',
         rowids'[key] # rowids[key] /\ seen[key] # {Gone} => key \in readded'
  PROVE  SearchInv'
<1>1. /\ base \in [LocalKeys -> LocalRecords \cup {Gone}]
      /\ seen \in [LocalKeys -> SUBSET (LocalRecords \cup {Gone})]
      /\ rowids \in [LocalKeys -> Nat \ {0}]
      /\ lookup # Idle /\ base[key] \in seen[key]
  BY DEF SearchInv, StoreShape, Idle
<1>2. /\ \A x \in LocalKeys \ {key} : base'[x] = base[x] /\ seen'[x] = seen[x]
      /\ base'[key] = r /\ seen'[key] = seen[key] \cup {r}
      /\ \A x \in LocalKeys : seen[x] \subseteq seen'[x]
  BY <1>1
<1>3. StoreShape'
  <2>1. /\ base' \in [LocalKeys -> LocalRecords \cup {Gone}]
        /\ seen' \in [LocalKeys -> SUBSET (LocalRecords \cup {Gone})]
    BY <1>1
  <2>2. \A x, y \in Here(base') : rowids'[x] = rowids'[y] => x = y
    <3>1. \A x \in Here(base') : x = key \/ x \in Here(base) \ {key}
      BY <1>2 DEF Here
    <3>2. key \in Here(base') => r # Gone
      BY <1>2 DEF Here
    <3>3. \A x \in Here(base) \ {key} : x \in LocalKeys \ {key}
      BY DEF Here
    <3> QED BY <3>1, <3>2, <3>3 DEF SearchInv, StoreShape
  <2>3. \A x \in LocalKeys : IsFiniteSet(seen'[x])
    <3>1. IsFiniteSet(seen[key] \cup {r})
      BY FS_AddElement DEF SearchInv, StoreShape
    <3> QED BY <1>2, <3>1 DEF SearchInv, StoreShape
  <2>4. \A x \in LocalKeys : base'[x] \in seen'[x]
    BY <1>1, <1>2 DEF SearchInv, StoreShape
  <2> QED BY <2>1, <2>2, <2>3, <2>4 DEF StoreShape, Here
<1>4. \A x : Wanted(x)' <=> Wanted(x)
  BY DEF Wanted, Rung
<1>5. ASSUME NEW x \in LocalKeys, Due(x)'
      PROVE  /\ x # key /\ Due(x) /\ Place(x)' = Place(x)
             /\ \A i : DueHit(x, i)' = DueHit(x, i)
  <2>1. seen'[x] = {base'[x]} /\ Wanted(base'[x])
    BY <1>4, <1>5 DEF Due
  <2>2. x # key
    BY <1>1, <1>2, <2>1
  <2>3. seen'[x] = seen[x] /\ base'[x] = base[x] /\ rowids'[x] = rowids[x]
    BY <1>2, <2>2
  <2> QED BY <2>1, <2>2, <2>3 DEF Due, Place, DueHit, HitScore
<1>6. ASSUME NEW h, h.key \in LocalKeys, NEW i, Explained(h, i)
      PROVE  Explained(h, i)'
  <2>1. \A x : HitScore(x, i)' = HitScore(x, i)
    BY DEF HitScore
  <2> QED BY <1>2, <1>4, <1>6, <2>1 DEF Explained
<1>8. \A hits, x : Covers(hits, x)' <=> Covers(hits, x)
  BY DEF Covers
<1>9. lookup \in Lookups
  BY <1>1 DEF SearchInv, LookupShape
<1>10. LookupShape'
  BY <1>1 DEF SearchInv, LookupShape
<1>11. KeysShape'
  <2> SUFFICES ASSUME lookup.step \in {"stats", "snapshot", "blocks"} PROVE KeysShape'
    BY DEF KeysShape
  <2>1. /\ \A x \in LocalKeys : Due(x) => x \in lookup.keys
        /\ lookup.call.filter = "typed" => \A x \in lookup.keys : \E s \in seen[x] : Wanted(s)
    BY <1>1 DEF SearchInv, KeysShape
  <2>2. lookup.keys \subseteq LocalKeys
    BY <1>9 DEF Lookups
  <2> QED BY <1>2, <1>4, <1>5, <2>1, <2>2 DEF KeysShape
<1>12. BestShape'
  <2> SUFFICES ASSUME lookup.step \notin {"fts", "done"} PROVE BestShape'
    BY DEF BestShape
  <2>0. PICK i : i = Len(lookup.answers) + 1
    OBVIOUS
  <2>1. /\ Justified(lookup.best, i)
        /\ \A x \in LocalKeys :
             (Due(x) /\ Place(x) <= lookup.after) => Covers(lookup.best, DueHit(x, i))
        /\ \A h \in lookup.best :
             IF lookup.call.kind = "scan"
             THEN h.row <= lookup.after /\ (h.row = rowids[h.key] \/ h.key \in readded)
             ELSE h.key <= lookup.after
    BY <1>1, <2>0 DEF SearchInv, BestShape
  <2>2. lookup.best \in SUBSET Hits
    BY <1>9 DEF Lookups
  <2>3. Justified(lookup.best, i)'
    <3>1. \A h \in lookup.best : Explained(h, i)'
      BY <1>6, <2>1, <2>2 DEF Justified, Hits
    <3> QED BY <2>1, <3>1 DEF Justified
  <2>4. \A x \in LocalKeys :
          (Due(x)' /\ Place(x)' <= lookup.after) => Covers(lookup.best, DueHit(x, i))'
    BY <1>5, <1>8, <2>1
  <2>5. ASSUME NEW h \in lookup.best, lookup.call.kind = "scan"
        PROVE  h.row = rowids'[h.key] \/ h.key \in readded'
    <3>1. h.key \in LocalKeys
      BY <2>2 DEF Hits
    <3>2. h.row = rowids[h.key] \/ h.key \in readded
      BY <2>1, <2>5
    <3>3. h.key = key => seen[key] # {Gone}
      BY <2>1 DEF Justified, Explained
    <3> QED BY <3>1, <3>2, <3>3
  <2> QED BY <2>0, <2>1, <2>3, <2>4, <2>5 DEF BestShape
<1>13. AnswersShape'
  <2> SUFFICES ASSUME lookup.call.kind = "vector", NEW i \in 1..Len(lookup.answers)
               PROVE  /\ Justified(lookup.answers[i], i)'
                      /\ ~lookup.cut => \A x \in LocalKeys :
                           Due(x)' => Covers(lookup.answers[i], DueHit(x, i))'
    BY DEF AnswersShape
  <2>1. /\ Justified(lookup.answers[i], i)
        /\ ~lookup.cut => \A x \in LocalKeys :
             Due(x) => Covers(lookup.answers[i], DueHit(x, i))
    BY <1>1 DEF SearchInv, AnswersShape
  <2>2. lookup.answers[i] \in SUBSET Hits
    BY <1>9 DEF Lookups
  <2>3. \A h \in lookup.answers[i] : Explained(h, i)'
    BY <1>6, <2>1, <2>2 DEF Justified, Hits
  <2>4. Justified(lookup.answers[i], i)'
    BY <2>1, <2>3 DEF Justified
  <2>5. \A x \in LocalKeys :
          Due(x)' => Due(x) /\ DueHit(x, i)' = DueHit(x, i)
    BY <1>5
  <2> QED BY <1>8, <2>1, <2>4, <2>5
<1> QED BY <1>3, <1>10, <1>11, <1>12, <1>13 DEF SearchInv

\* An inserted record takes a row after those of the records there.
LEMMA NextRowIsNext ==
  ASSUME rowids \in [LocalKeys -> Nat \ {0}]
  PROVE  /\ NextRow \in Nat \ {0}
         /\ \A key \in Here(base) : rowids[key] < NextRow
<1> DEFINE N == {rowids[key] : key \in Here(base)}
           rows == {0} \union N
<1>1. IsFiniteSet(Here(base))
  <2>1. Here(base) \in SUBSET LocalKeys /\ IsFiniteSet(LocalKeys)
    BY LocalSearchAssumption DEF Here, LocalSearchAssumption
  <2> QED BY <2>1, FS_Subset
<1>2. IsFiniteSet(N)
  BY ONLY <1>1, ValuesFinite
<1>3. \A key \in Here(base) : rowids[key] \in Nat
  BY DEF Here
<1>4. N \in SUBSET Nat
  BY <1>3
<1> HIDE DEF N
<1>5. rows \in SUBSET Nat /\ rows # {} /\ IsFiniteSet(rows)
  <2>1. IsFiniteSet({0})
    BY FS_Singleton
  <2>2. IsFiniteSet({0} \union N)
    BY ONLY <1>2, <2>1, FS_Union
  <2> QED BY <1>4, <2>2
<1> DEFINE last == CHOOSE r \in rows : \A x \in rows : x <= r
<1>6. last \in rows /\ \A x \in rows : x <= last
  <2>1. \E r \in rows : \A x \in rows : x <= r
    BY <1>5, GreatestExists
  <2> QED BY <2>1
<1>7. NextRow = 1 + last
  BY DEF NextRow, N
<1> HIDE DEF last
<1>8. \A key \in Here(base) : rowids[key] <= last
  BY <1>6 DEF N
<1>9. last \in Nat
  BY <1>5, <1>6
<1> QED BY <1>3, <1>7, <1>8, <1>9

LEMMA StoreRecordKeeps ==
  ASSUME SearchInv, NEW key \in LocalKeys, NEW r \in RecordKinds, StoreRecord(key, r)
  PROVE  SearchInv'
<1>1. r \in LocalRecords \cup {Gone} /\ r # Gone
  BY LocalSearchAssumption, RecordShape DEF LocalSearchAssumption
<1>2. rowids \in [LocalKeys -> Nat \ {0}]
  BY DEF SearchInv, StoreShape
<1>3. /\ lookup.step \notin {"idle", "done"} /\ base[key] # r /\ lookup' = lookup
      /\ base' = [base EXCEPT ![key] = r]
      /\ seen' = [seen EXCEPT ![key] = @ \union {r}]
      /\ rowids' = IF base[key] = Gone THEN [rowids EXCEPT ![key] = NextRow] ELSE rowids
      /\ readded \subseteq readded'
      /\ (base[key] = Gone /\ seen[key] # {Gone}) => key \in readded'
  BY DEF StoreRecord
<1>4. /\ rowids' \in [LocalKeys -> Nat \ {0}]
      /\ \A x \in LocalKeys \ {key} : rowids'[x] = rowids[x]
      /\ rowids'[key] # rowids[key] => base[key] = Gone
  BY <1>2, <1>3, NextRowIsNext
<1>5. \A x \in Here(base) \ {key} : rowids[x] # rowids'[key]
  <2>1. CASE base[key] = Gone
    <3>1. rowids'[key] = NextRow
      BY <1>2, <1>3, <2>1
    <3>2. \A x \in Here(base) : rowids[x] \in Nat
      BY <1>2 DEF Here
    <3> QED BY <1>2, <3>1, <3>2, NextRowIsNext
  <2>2. CASE base[key] # Gone
    BY <1>3, <2>2 DEF SearchInv, StoreShape, Here
  <2> QED BY <2>1, <2>2
<1> QED BY <1>1, <1>3, <1>4, <1>5, CommitKeeps

LEMMA RemoveRecordKeeps ==
  ASSUME SearchInv, NEW key \in LocalKeys, RemoveRecord(key)
  PROVE  SearchInv'
<1>1. /\ lookup.step \notin {"idle", "done"} /\ base[key] # Gone /\ lookup' = lookup
      /\ base' = [base EXCEPT ![key] = Gone]
      /\ seen' = [seen EXCEPT ![key] = @ \union {Gone}]
      /\ rowids' = rowids /\ readded' = readded
  BY DEF RemoveRecord
<1>2. rowids \in [LocalKeys -> Nat \ {0}] /\ Gone \in LocalRecords \cup {Gone}
  BY DEF SearchInv, StoreShape
<1> QED BY <1>1, <1>2, CommitKeeps

-----------------------------------------------------------------------------
(* The reads.                                                              *)

\* A read leaves the store and its history alone, and with the call what a
\* record is due.
LEMMA ReadKeeps ==
  ASSUME SearchInv, lookup # Idle, lookup' # Idle, Kept,
         lookup'.call = lookup.call, lookup'.rung = lookup.rung
  PROVE  /\ StoreShape'
         /\ \A r : Wanted(r)' <=> Wanted(r)
         /\ \A x : Due(x)' <=> Due(x)
         /\ \A x : Place(x)' = Place(x)
         /\ \A x, i : DueHit(x, i)' = DueHit(x, i)
         /\ \A h, i : Explained(h, i)' <=> Explained(h, i)
         /\ \A hits, i : Justified(hits, i)' <=> Justified(hits, i)
         /\ \A hits, x : Covers(hits, x)' <=> Covers(hits, x)
<1>1. StoreShape'
  BY DEF SearchInv, StoreShape, Kept, Here
<1>2. \A r : Wanted(r)' <=> Wanted(r)
  BY DEF Wanted, Rung
<1>3. \A r, i : HitScore(r, i)' = HitScore(r, i)
  BY DEF HitScore
<1>4. \A x : Due(x)' <=> Due(x)
  BY <1>2 DEF Due, Kept
<1>5. \A x : Place(x)' = Place(x)
  BY DEF Place, Kept
<1>6. \A x, i : DueHit(x, i)' = DueHit(x, i)
  BY <1>3 DEF DueHit, Kept
<1>7. \A h, i : Explained(h, i)' <=> Explained(h, i)
  BY <1>2, <1>3 DEF Explained, Kept
<1>8. \A hits, i : Justified(hits, i)' <=> Justified(hits, i)
  BY <1>7 DEF Justified, Kept
<1>9. \A hits, x : Covers(hits, x)' <=> Covers(hits, x)
  BY DEF Covers
<1> QED BY <1>1, <1>2, <1>4, <1>5, <1>6, <1>7, <1>8, <1>9

LEMMA CallShape ==
  ASSUME NEW c \in SearchCalls
  PROVE  /\ c.k \in Nat /\ c.queries \in Seq(Nat) /\ c.kind \in {"vector", "fts", "scan"}
         /\ c.filter \in {"none", "loose", "typed"} /\ c.rungs \in Seq(STRING)
BY LocalSearchAssumption DEF LocalSearchAssumption

LEMMA BeginLookupKeeps ==
  ASSUME SearchInv, NEW c \in SearchCalls, BeginLookup(c)
  PROVE  SearchInv'
<1> DEFINE s == IF c.k < 1 THEN "done"
                ELSE IF c.kind # "vector" THEN c.kind
                ELSE IF c.filter = "typed" THEN "eligible" ELSE "stats"
<1>1. lookup' = [step |-> s, call |-> c, each |-> Len(c.queries) = 1 \/ c.filter = "typed",
                 keys |-> LocalKeys, after |-> 0, best |-> {},
                 answers |-> << >>, rung |-> 1, cut |-> FALSE]
  BY DEF BeginLookup
<1>2. /\ s \in LookupSteps
      /\ s \in {"eligible", "stats", "snapshot", "blocks"} =>
           c.kind = "vector" /\ (s = "eligible" <=> c.filter = "typed")
      /\ s \in {"fts", "scan"} => c.kind = s
  BY CallShape DEF LookupSteps
<1> HIDE DEF s
<1>3. lookup' # Idle /\ lookup' \in Lookups
  <2>1. << >> \in Seq(SUBSET Hits) /\ {} \in SUBSET Hits
    OBVIOUS
  <2>2. lookup' \in Lookups
    BY <1>1, <1>2, <2>1 DEF Lookups
  <2>3. DOMAIN lookup' # DOMAIN Idle
    BY <1>1 DEF Idle
  <2> QED BY <2>2, <2>3
<1>4. StoreShape'
  <2>1. seen' = [key \in LocalKeys |-> {base[key]}] /\ base' = base /\ rowids' = rowids
    BY DEF BeginLookup
  <2>2. \A key \in LocalKeys : IsFiniteSet({base[key]})
    BY FS_Singleton
  <2> QED BY <2>1, <2>2 DEF SearchInv, StoreShape, Here
<1>5. LookupShape'
  BY <1>1, <1>2, <1>3, FS_EmptySet DEF LookupShape
<1>6. KeysShape'
  BY <1>1, <1>2 DEF KeysShape
<1>7. BestShape'
  <2>1. lookup'.best = {} /\ lookup'.after = 0
    BY <1>1
  <2>2. \A key \in LocalKeys : ~(Place(key)' <= 0)
    <3>1. \A key \in LocalKeys : rowids'[key] \in Nat \ {0} /\ key \in Nat \ {0}
      BY <1>4, LocalSearchAssumption DEF StoreShape, LocalSearchAssumption
    <3> QED BY <3>1 DEF Place
  <2> QED BY <2>1, <2>2 DEF BestShape, Justified
<1>8. AnswersShape'
  BY <1>1 DEF AnswersShape
<1> QED BY <1>4, <1>5, <1>6, <1>7, <1>8 DEF SearchInv

\* An answer to one query of a vector search, right as it is given.
LEMMA AnswerKeeps ==
  ASSUME SearchInv, lookup # Idle, lookup.step # "done", lookup.call.kind = "vector", Kept,
         NEW hits \in SUBSET Hits, lookup' = Answer(lookup, hits),
         lookup.call.filter # "typed" =>
           \A key \in LocalKeys : Due(key) => key \in lookup.keys,
         Justified(hits, Len(lookup.answers) + 1),
         \A key \in LocalKeys :
           Due(key) => Covers(hits, DueHit(key, Len(lookup.answers) + 1))
  PROVE  SearchInv'
<1>1. lookup \in Lookups
  BY DEF SearchInv, LookupShape
<1> DEFINE answers == Append(lookup.answers, hits)
           s == IF Len(answers) = Len(lookup.call.queries) THEN "done"
                ELSE IF lookup.call.filter = "typed" THEN "eligible" ELSE "stats"
<1>2. lookup' = [lookup EXCEPT !.answers = answers, !.best = {}, !.after = 0, !.step = s]
  BY DEF Answer
<1>3. s \in {"done", "eligible", "stats"} /\ (s = "eligible" <=> s # "done" /\ lookup.call.filter = "typed")
  OBVIOUS
<1>4. lookup.answers \in Seq(SUBSET Hits) /\ Len(lookup.answers) \in Nat
  BY <1>1 DEF Lookups
<1>5. /\ answers \in Seq(SUBSET Hits)
      /\ Len(answers) = Len(lookup.answers) + 1
      /\ answers[Len(lookup.answers) + 1] = hits
      /\ \A i \in 1..Len(lookup.answers) : answers[i] = lookup.answers[i]
  BY <1>4
<1> HIDE DEF answers, s
<1>6. /\ lookup' \in Lookups
      /\ lookup'.step = s /\ lookup'.answers = answers /\ lookup'.best = {} /\ lookup'.after = 0
      /\ lookup'.call = lookup.call /\ lookup'.rung = lookup.rung /\ lookup'.keys = lookup.keys
      /\ lookup'.cut = lookup.cut
  <2>1. /\ lookup'.step = s /\ lookup'.answers = answers /\ lookup'.best = {} /\ lookup'.after = 0
        /\ lookup'.call = lookup.call /\ lookup'.rung = lookup.rung /\ lookup'.keys = lookup.keys
        /\ lookup'.cut = lookup.cut /\ lookup'.each = lookup.each
    BY <1>1, <1>2 DEF Lookups
  <2>2. s \in LookupSteps /\ {} \in SUBSET Hits
    BY <1>3 DEF LookupSteps
  <2>3. lookup' \in Lookups
    <3>1. answers \in Seq(SUBSET Hits)
      BY <1>5
    <3>2. PICK A : A = Seq(SUBSET Hits)
      OBVIOUS
    <3>3. 0 \in Nat
      OBVIOUS
    <3> QED BY ONLY <1>1, <1>2, <2>2, <3>1, <3>2, <3>3 DEF Lookups
  <2> QED BY <2>1, <2>3
<1>7. lookup' # Idle
  <2>1. DOMAIN lookup' = DOMAIN lookup /\ "call" \in DOMAIN lookup
    BY <1>1, <1>2 DEF Lookups
  <2>2. "call" \notin DOMAIN Idle
    BY DEF Idle
  <2> QED BY <2>1, <2>2
<1>8. /\ StoreShape'
      /\ \A x : Due(x)' <=> Due(x)
      /\ \A x : Place(x)' = Place(x)
      /\ \A x, i : DueHit(x, i)' = DueHit(x, i)
      /\ \A hs, i : Justified(hs, i)' <=> Justified(hs, i)
      /\ \A hs, x : Covers(hs, x)' <=> Covers(hs, x)
  BY <1>6, <1>7, ReadKeeps
<1>9. LookupShape'
  BY <1>3, <1>6, FS_EmptySet DEF LookupShape
<1>10. KeysShape'
  BY <1>3, <1>6, <1>8 DEF KeysShape
<1>11. BestShape'
  <2>1. \A key \in LocalKeys : ~(Place(key)' <= 0)
    <3>1. \A key \in LocalKeys : rowids[key] \in Nat \ {0} /\ key \in Nat \ {0}
      BY LocalSearchAssumption DEF SearchInv, StoreShape, LocalSearchAssumption
    <3> QED BY <1>8, <3>1 DEF Place
  <2> QED BY <1>6, <2>1 DEF BestShape, Justified
<1>12. AnswersShape'
  <2> SUFFICES ASSUME NEW i \in 1..Len(answers)
               PROVE  /\ Justified(answers[i], i)
                      /\ ~lookup.cut => \A x \in LocalKeys :
                           Due(x) => Covers(answers[i], DueHit(x, i))
    BY <1>6, <1>8 DEF AnswersShape
  <2>1. CASE i = Len(lookup.answers) + 1
    BY <1>5, <2>1
  <2>2. CASE i # Len(lookup.answers) + 1
    <3>1. i \in 1..Len(lookup.answers)
      BY <1>4, <1>5, <2>2
    <3> QED BY <1>5, <3>1 DEF SearchInv, AnswersShape
  <2> QED BY <2>1, <2>2
<1> QED BY <1>8, <1>9, <1>10, <1>11, <1>12 DEF SearchInv

LEMMA ReadEligibleKeeps ==
  ASSUME SearchInv, ReadEligible
  PROVE  SearchInv'
<1>1. /\ lookup.step = "eligible" /\ lookup # Idle /\ lookup \in Lookups /\ Kept
      /\ lookup.call.kind = "vector" /\ lookup.call.filter = "typed"
  BY DEF ReadEligible, SearchInv, LookupShape, Idle
<1> DEFINE keys == {key \in Here(base) : SqlAccepts(base[key], "typed")}
<1>2. \A r : r # Gone => (SqlAccepts(r, "typed") <=> Wanted(r))
  BY <1>1 DEF SqlAccepts, Wanted, RowAccepts
<1>3. /\ \A key \in LocalKeys : Due(key) => key \in keys
      /\ \A key \in keys : key \in LocalKeys /\ Wanted(base[key])
  <2>1. \A key \in LocalKeys : Due(key) => base[key] # Gone /\ Wanted(base[key])
    BY DEF Due, Wanted
  <2> QED BY <1>2, <2>1 DEF Here
<1>4. lookup' = IF keys = {} THEN Answer(lookup, {})
                ELSE [lookup EXCEPT !.step = "stats", !.keys = keys]
  BY DEF ReadEligible
<1> HIDE DEF keys
<1>5. CASE keys = {}
  <2>1. Justified({}, Len(lookup.answers) + 1) /\ {} \in SUBSET Hits
    BY DEF Justified
  <2>2. \A key \in LocalKeys : ~Due(key)
    BY <1>3, <1>5
  <2>3. lookup' = Answer(lookup, {})
    BY <1>4, <1>5
  <2> QED BY <1>1, <2>1, <2>2, <2>3, AnswerKeeps
<1>6. CASE keys # {}
  <2>1. /\ lookup' \in Lookups /\ lookup' # Idle
        /\ lookup' = [lookup EXCEPT !.step = "stats", !.keys = keys]
    <3>1. lookup' = [lookup EXCEPT !.step = "stats", !.keys = keys]
      BY <1>4, <1>6
    <3>2. keys \in SUBSET LocalKeys
      BY <1>3
    <3>3. lookup' \in Lookups /\ lookup'.step = "stats"
      BY <1>1, <3>1, <3>2 DEF Lookups, LookupSteps
    <3> QED BY <3>1, <3>3 DEF Idle
  <2>2. /\ lookup'.step = "stats" /\ lookup'.keys = keys /\ lookup'.call = lookup.call
        /\ lookup'.rung = lookup.rung /\ lookup'.best = lookup.best
        /\ lookup'.after = lookup.after /\ lookup'.answers = lookup.answers
        /\ lookup'.cut = lookup.cut
    BY <1>1, <2>1 DEF Lookups
  <2>3. /\ StoreShape'
        /\ \A r : Wanted(r)' <=> Wanted(r)
        /\ \A x : Due(x)' <=> Due(x)
        /\ \A x : Place(x)' = Place(x)
        /\ \A x, i : DueHit(x, i)' = DueHit(x, i)
        /\ \A hs, i : Justified(hs, i)' <=> Justified(hs, i)
        /\ \A hs, x : Covers(hs, x)' <=> Covers(hs, x)
    BY <1>1, <2>1, <2>2, ReadKeeps
  <2>4. LookupShape'
    BY <1>1, <2>1, <2>2 DEF SearchInv, LookupShape
  <2>5. KeysShape'
    <3>1. \A key \in keys : \E r \in seen[key] : Wanted(r)
      BY <1>1, <1>3 DEF SearchInv, StoreShape
    <3>2. seen' = seen
      BY <1>1 DEF Kept
    <3> QED BY <1>3, <2>2, <2>3, <3>1, <3>2 DEF KeysShape
  <2>6. BestShape'
    <3>1. rowids' = rowids /\ readded' = readded
      BY <1>1 DEF Kept
    <3> QED BY <1>1, <2>2, <2>3, <3>1 DEF SearchInv, BestShape
  <2>7. AnswersShape'
    BY <1>1, <2>2, <2>3 DEF SearchInv, AnswersShape
  <2> QED BY <2>3, <2>4, <2>5, <2>6, <2>7 DEF SearchInv
<1> QED BY <1>5, <1>6

LEMMA ReadStatsKeeps ==
  ASSUME SearchInv, ReadStats
  PROVE  SearchInv'
<1>1. /\ lookup.step = "stats" /\ lookup # Idle /\ lookup \in Lookups /\ Kept
      /\ lookup.call.kind = "vector"
  BY DEF ReadStats, SearchInv, LookupShape, Idle
<1>2. /\ lookup' \in Lookups /\ lookup'.step \in {"stats", "blocks", "snapshot"}
      /\ lookup'.keys = lookup.keys /\ lookup'.call = lookup.call
      /\ lookup'.rung = lookup.rung /\ lookup'.best = lookup.best
      /\ lookup'.after = lookup.after /\ lookup'.answers = lookup.answers
      /\ lookup'.cut = lookup.cut
  <2>1. \/ lookup' = [lookup EXCEPT !.each = TRUE]
        \/ lookup' = [lookup EXCEPT !.step = "blocks"]
        \/ lookup' = [lookup EXCEPT !.step = "snapshot"]
    BY DEF ReadStats
  <2> QED BY <1>1, <2>1 DEF Lookups, LookupSteps
<1>3. lookup' # Idle
  BY <1>2 DEF Idle
<1>4. /\ StoreShape'
      /\ \A r : Wanted(r)' <=> Wanted(r)
      /\ \A x : Due(x)' <=> Due(x)
      /\ \A x : Place(x)' = Place(x)
      /\ \A x, i : DueHit(x, i)' = DueHit(x, i)
      /\ \A hs, i : Justified(hs, i)' <=> Justified(hs, i)
      /\ \A hs, x : Covers(hs, x)' <=> Covers(hs, x)
  BY <1>1, <1>2, <1>3, ReadKeeps
<1>5. LookupShape'
  BY <1>1, <1>2 DEF SearchInv, LookupShape
<1>6. KeysShape'
  <2>1. seen' = seen
    BY <1>1 DEF Kept
  <2> QED BY <1>1, <1>2, <1>4, <2>1 DEF SearchInv, KeysShape
<1>7. BestShape'
  <2>1. rowids' = rowids /\ readded' = readded
    BY <1>1 DEF Kept
  <2> QED BY <1>1, <1>2, <1>4, <2>1 DEF SearchInv, BestShape
<1>8. AnswersShape'
  BY <1>1, <1>2, <1>4 DEF SearchInv, AnswersShape
<1> QED BY <1>4, <1>5, <1>6, <1>7, <1>8 DEF SearchInv

\* The vectors of some candidates make hits that are explained as they are read.
LEMMA VectorHitsShape ==
  ASSUME SearchInv, lookup.step \in {"snapshot", "blocks"},
         NEW K \in SUBSET Candidates, NEW i
  PROVE  LET hits == VectorHits(K, lookup.call.queries[i]) IN
         /\ hits \in SUBSET Hits /\ IsFiniteSet(hits)
         /\ Justified(hits, i)
         /\ \A h \in hits : h.key \in K
         /\ \A key \in K : DueHit(key, i) \in hits
<1> DEFINE q == lookup.call.queries[i]
           hits == VectorHits(K, q)
<1>1. /\ lookup # Idle /\ lookup.call.kind = "vector"
      /\ lookup.call.filter = "typed" =>
           \A key \in lookup.keys : \E r \in seen[key] : Wanted(r)
      /\ \A key \in LocalKeys : base[key] \in seen[key]
      /\ base \in [LocalKeys -> LocalRecords \cup {Gone}]
  BY DEF SearchInv, LookupShape, StoreShape, KeysShape, Idle
<1>2. \A key \in K : /\ key \in LocalKeys /\ base[key] \in LocalRecords /\ base[key] # Gone
                     /\ base[key] \in seen[key] /\ key \in lookup.keys
                     /\ RowAccepts(base[key], Rest)
  BY <1>1 DEF Candidates, Here
<1>3. \A r : HitScore(r, i) = VectorScore(r, q)
  BY <1>1 DEF HitScore
<1> HIDE DEF q
<1>4. \A key \in K : /\ VectorScore(base[key], q) \in Int
                     /\ Hit(key, VectorScore(base[key], q), 0) \in Hits
  <2>1. \A key \in K : base[key].score \in Nat
    BY <1>2, RecordShape
  <2> QED BY <1>2, <2>1 DEF VectorScore, Hit, Hits
<1>5. hits \in SUBSET Hits
  BY <1>4 DEF VectorHits
<1>6. IsFiniteSet(hits)
  <2> DEFINE f == [key \in K |-> Hit(key, VectorScore(base[key], q), 0)]
  <2>1. IsFiniteSet(K)
    <3>1. K \in SUBSET LocalKeys /\ IsFiniteSet(LocalKeys)
      BY <1>2, LocalSearchAssumption DEF LocalSearchAssumption
    <3> QED BY <3>1, FS_Subset
  <2>2. hits = {f[key] : key \in K}
    BY DEF VectorHits
  <2> HIDE DEF f
  <2>3. IsFiniteSet({f[key] : key \in K})
    BY ONLY <2>1, ValuesFinite
  <2> QED BY <2>2, <2>3
<1>7. \A h \in hits : \E key \in K : h = Hit(key, VectorScore(base[key], q), 0)
  BY DEF VectorHits
<1>8. ASSUME NEW h \in hits
      PROVE  Explained(h, i) /\ h.key \in K
  <2>1. PICK key \in K : h = Hit(key, VectorScore(base[key], q), 0)
    BY <1>7
  <2>2. h.key = key /\ h.score = VectorScore(base[key], q)
    BY <2>1 DEF Hit
  <2>3. base[key].active
    BY <1>2 DEF RowAccepts
  <2>4. \E r \in seen[key] : Wanted(r)
    <3>1. CASE lookup.call.filter = "typed"
      BY <1>1, <1>2, <3>1
    <3>2. CASE lookup.call.filter # "typed"
      <4>1. Wanted(base[key])
        BY <1>1, <1>2, <3>2 DEF Rest, Wanted
      <4> QED BY <1>2, <4>1
    <3> QED BY <3>1, <3>2
  <2>5. HitScore(base[key], i) = h.score
    BY <1>3, <2>2
  <2> QED BY <1>2, <2>2, <2>3, <2>4, <2>5 DEF Explained
<1>9. \A g, h \in hits : g.key = h.key => g = h
  BY <1>7 DEF Hit
<1>10. \A key \in K : DueHit(key, i) \in hits
  BY <1>1, <1>3 DEF DueHit, VectorHits
<1> HIDE DEF hits
<1>11. Justified(hits, i)
  BY <1>8, <1>9 DEF Justified
<1> QED BY <1>5, <1>6, <1>8, <1>10, <1>11 DEF hits, q

\* A due record is a candidate.
LEMMA DueIsCandidate ==
  ASSUME SearchInv, lookup.step \in {"snapshot", "blocks"},
         NEW key \in LocalKeys, Due(key)
  PROVE  key \in Candidates
<1>1. key \in lookup.keys
  BY DEF SearchInv, KeysShape, Idle
<1>2. base[key] # Gone /\ RowAccepts(base[key], lookup.call.filter)
  BY DEF Due, Wanted
<1>3. RowAccepts(base[key], Rest)
  BY <1>2 DEF RowAccepts, Rest
<1> QED BY <1>1, <1>2, <1>3 DEF Candidates, Here

\* The answer of one snapshot to query i.
LEMMA SnapshotAnswerShape ==
  ASSUME SearchInv, lookup.step = "snapshot", NEW i
  PROVE  LET hits == SnapshotAnswer(lookup.call.queries[i]) IN
         /\ hits \in SUBSET Hits
         /\ Justified(hits, i)
         /\ \A key \in LocalKeys : Due(key) => Covers(hits, DueHit(key, i))
<1> DEFINE q == lookup.call.queries[i]
           all == VectorHits(Candidates, q)
           hits == SnapshotAnswer(q)
           k == lookup.call.k
<1>1. Candidates \in SUBSET Candidates
  OBVIOUS
<1>2. /\ all \in SUBSET Hits /\ IsFiniteSet(all)
      /\ Justified(all, i)
      /\ \A key \in Candidates : DueHit(key, i) \in all
  BY <1>1, VectorHitsShape
<1>3. k \in Nat
  BY CallShape DEF SearchInv, LookupShape, Lookups, Idle
<1>4. hits = Top({} \cup all, k) /\ {} \in SUBSET Hits /\ IsFiniteSet({})
  BY FS_EmptySet DEF SnapshotAnswer
<1> HIDE DEF all, hits, q
<1>5. {} \cup all = all
  OBVIOUS
<1>6. hits \in SUBSET Hits /\ hits \subseteq all
  BY <1>2, <1>3, <1>4, <1>5, TopCounts
<1>7. Justified(hits, i)
  BY <1>2, <1>6 DEF Justified
<1>8. \A key \in LocalKeys : Due(key) => DueHit(key, i) \in all
  BY <1>2, DueIsCandidate
<1>9. \A key \in LocalKeys : Due(key) => Covers(hits, DueHit(key, i))
  BY <1>2, <1>3, <1>4, <1>8, TopKeeps
<1> QED BY <1>6, <1>7, <1>9 DEF hits, q

LEMMA ReadSnapshotKeeps ==
  ASSUME SearchInv, ReadSnapshot
  PROVE  SearchInv'
<1>1. /\ lookup.step = "snapshot" /\ lookup # Idle /\ lookup \in Lookups /\ Kept
      /\ lookup.call.kind = "vector"
      /\ lookup' = IF lookup.each THEN Answer(lookup, SnapshotAnswer(Asked))
                   ELSE [lookup EXCEPT !.step = "done",
                           !.answers = [i \in DOMAIN lookup.call.queries |->
                                          SnapshotAnswer(lookup.call.queries[i])]]
  BY DEF ReadSnapshot, SearchInv, LookupShape, Idle
<1>2. \A i : LET hits == SnapshotAnswer(lookup.call.queries[i]) IN
             /\ hits \in SUBSET Hits
             /\ Justified(hits, i)
             /\ \A key \in LocalKeys : Due(key) => Covers(hits, DueHit(key, i))
  BY <1>1, SnapshotAnswerShape
<1>3. CASE lookup.each
  <2> DEFINE hits == SnapshotAnswer(Asked)
             i == Len(lookup.answers) + 1
  <2>1. lookup' = Answer(lookup, hits)
    BY <1>1, <1>3
  <2>2. hits \in SUBSET Hits /\ Justified(hits, i)
        /\ \A key \in LocalKeys : Due(key) => Covers(hits, DueHit(key, i))
    BY <1>2 DEF Asked
  <2>3. \A key \in LocalKeys : Due(key) => key \in lookup.keys
    BY <1>1 DEF SearchInv, KeysShape
  <2> HIDE DEF hits
  <2> QED BY <1>1, <2>1, <2>2, <2>3, AnswerKeeps
<1>4. CASE ~lookup.each
  <2> DEFINE answers == [i \in DOMAIN lookup.call.queries |->
                           SnapshotAnswer(lookup.call.queries[i])]
  <2>1. lookup' = [lookup EXCEPT !.step = "done", !.answers = answers]
    BY <1>1, <1>4
  <2>2. lookup.call.queries \in Seq(Nat)
    BY <1>1, CallShape DEF Lookups
  <2>3. PICK n \in Nat : DOMAIN lookup.call.queries = 1..n
    BY <2>2
  <2>4. /\ answers = [i \in 1..n |-> SnapshotAnswer(lookup.call.queries[i])]
        /\ \A i \in 1..n : answers[i] = SnapshotAnswer(lookup.call.queries[i])
    BY <2>3
  <2>5. answers \in [1..n -> SUBSET Hits]
    BY <1>2, <2>4
  <2>6. answers \in Seq(SUBSET Hits) /\ Len(answers) = n
    <3> HIDE DEF answers
    <3> QED BY <2>5
  <2> HIDE DEF answers
  <2>7. /\ lookup'.step = "done" /\ lookup'.answers = answers
        /\ lookup'.call = lookup.call /\ lookup'.rung = lookup.rung
        /\ lookup'.best = lookup.best /\ lookup'.cut = lookup.cut
    BY <1>1, <2>1 DEF Lookups
  <2>8. lookup' \in Lookups
    <3>1. PICK A : A = Seq(SUBSET Hits)
      OBVIOUS
    <3> QED BY <1>1, <2>1, <2>6, <3>1 DEF Lookups, LookupSteps
  <2>9. lookup' # Idle
    BY <2>7 DEF Idle
  <2>10. /\ StoreShape'
         /\ \A x : Due(x)' <=> Due(x)
         /\ \A x, i : DueHit(x, i)' = DueHit(x, i)
         /\ \A hs, i : Justified(hs, i)' <=> Justified(hs, i)
         /\ \A hs, x : Covers(hs, x)' <=> Covers(hs, x)
    BY <1>1, <2>7, <2>9, ReadKeeps
  <2>11. LookupShape'
    BY <1>1, <2>7, <2>8 DEF SearchInv, LookupShape
  <2>12. KeysShape' /\ BestShape'
    BY <2>7 DEF KeysShape, BestShape
  <2>13. AnswersShape'
    <3>1. \A i \in 1..n : /\ Justified(answers[i], i)
                          /\ \A key \in LocalKeys : Due(key) => Covers(answers[i], DueHit(key, i))
      BY <1>2, <2>4
    <3> QED BY <2>6, <2>7, <2>10, <3>1 DEF AnswersShape
  <2> QED BY <2>10, <2>11, <2>12, <2>13 DEF SearchInv
<1> QED BY <1>3, <1>4

LEMMA ReadBlockKeeps ==
  ASSUME SearchInv, ReadBlock
  PROVE  SearchInv'
<1>1. /\ lookup.step = "blocks" /\ lookup # Idle /\ lookup \in Lookups /\ Kept
      /\ lookup.call.kind = "vector" /\ IsFiniteSet(lookup.best)
  BY DEF ReadBlock, SearchInv, LookupShape, Idle
<1>2. PICK i : i = Len(lookup.answers) + 1
  OBVIOUS
<1> DEFINE later == Later(lookup.after)
           rows == Page(later, ByKey)
           K == {key \in rows : RowAccepts(base[key], Rest)}
           hits == VectorHits(K, Asked)
           k == lookup.call.k
           best == Top(lookup.best \union hits, k)
           last == LastOf(rows, ByKey)
<1>3. lookup' = IF rows = {} THEN Answer(lookup, lookup.best)
                ELSE [lookup EXCEPT !.best = best, !.after = last]
  BY DEF ReadBlock
<1>4. /\ Justified(lookup.best, i)
      /\ \A key \in LocalKeys :
           (Due(key) /\ key <= lookup.after) => Covers(lookup.best, DueHit(key, i))
      /\ \A h \in lookup.best : h.key <= lookup.after
  BY <1>1, <1>2 DEF SearchInv, BestShape, Place
<1>5. /\ lookup.best \in SUBSET Hits /\ lookup.after \in Nat
      /\ k \in Nat /\ \A x \in LocalKeys : x \in Nat
  BY <1>1, CallShape, LocalSearchAssumption DEF Lookups, LocalSearchAssumption
<1>6. /\ later \in SUBSET LocalKeys /\ ByKey \in [LocalKeys -> Nat]
      /\ \A x \in LocalKeys : ByKey[x] = x
      /\ \A x \in later : x > lookup.after
  BY <1>5 DEF Later, ByKey, Here
<1>7. \A key \in LocalKeys : (Due(key) /\ ~(key <= lookup.after)) => key \in later
  BY <1>1, <1>5, DueIsCandidate DEF Candidates, Later
<1>a. later \subseteq Here(base) \cap lookup.keys
  BY DEF Later
<1>b. Asked = lookup.call.queries[i]
  BY <1>2 DEF Asked
<1> HIDE DEF later
<1>8. /\ rows \subseteq later
      /\ rows = {} => later = {}
      /\ \A x \in rows, y \in later \ rows : x < y
  <2>1. \A x, y \in later : ByKey[x] = ByKey[y] => x = y
    BY <1>6
  <2>2. /\ rows \subseteq later
        /\ rows = {} => later = {}
        /\ \A x \in rows, y \in later \ rows : ByKey[x] < ByKey[y]
    BY <1>6, <2>1, PageCounts
  <2> QED BY <1>6, <2>2
<1> HIDE DEF rows
<1>9. CASE rows = {}
  <2>1. \A key \in LocalKeys : Due(key) => Covers(lookup.best, DueHit(key, i))
    BY <1>4, <1>7, <1>8, <1>9
  <2>2. \A key \in LocalKeys : Due(key) => key \in lookup.keys
    BY <1>1 DEF SearchInv, KeysShape
  <2>3. lookup' = Answer(lookup, lookup.best)
    BY <1>3, <1>9
  <2> QED BY <1>1, <1>2, <1>4, <1>5, <2>1, <2>2, <2>3, AnswerKeeps
<1>10. CASE rows # {}
  <2>1. lookup' = [lookup EXCEPT !.best = best, !.after = last]
    BY <1>3, <1>10
  <2>2. K \in SUBSET Candidates
    BY <1>a, <1>8 DEF Candidates
  <2>3. /\ hits \in SUBSET Hits /\ IsFiniteSet(hits) /\ Justified(hits, i)
        /\ \A h \in hits : h.key \in rows
        /\ \A key \in rows : RowAccepts(base[key], Rest) => DueHit(key, i) \in hits
    <3>1. \A h \in K : h \in rows
      OBVIOUS
    <3>2. K \in SUBSET Candidates
      BY <2>2
    <3> DEFINE KK == K
    <3> HIDE DEF KK
    <3>3. LET hs == VectorHits(KK, lookup.call.queries[i]) IN
          /\ hs \in SUBSET Hits /\ IsFiniteSet(hs)
          /\ Justified(hs, i)
          /\ \A h \in hs : h.key \in KK
          /\ \A key \in KK : DueHit(key, i) \in hs
      BY <1>1, <3>2, VectorHitsShape DEF KK
    <3>4. hits = VectorHits(KK, lookup.call.queries[i])
      BY <1>b DEF KK
    <3>5. \A key \in rows : RowAccepts(base[key], Rest) => key \in KK
      BY DEF KK
    <3> HIDE DEF hits
    <3> QED BY <3>1, <3>3, <3>4, <3>5 DEF KK
  <2> HIDE DEF hits, K
  <2>4. /\ last \in Nat /\ \E x \in rows : x = last
        /\ \A x \in rows : x <= last
    <3>1. rows \in SUBSET LocalKeys
      BY <1>6, <1>8
    <3>2. /\ last \in Nat /\ \E x \in rows : ByKey[x] = last
          /\ \A x \in rows : ByKey[x] <= last
      BY <1>6, <1>10, <3>1, LastIsLast
    <3> QED BY <1>6, <3>1, <3>2
  <2> HIDE DEF last
  <2>5. /\ lookup.best \cup hits \in SUBSET Hits /\ IsFiniteSet(lookup.best \cup hits)
    BY <1>1, <1>5, <2>3, FS_Union
  <2>6. /\ best \in SUBSET Hits /\ best \subseteq lookup.best \cup hits /\ IsFiniteSet(best)
    <3>1. PICK U : U = lookup.best \cup hits
      OBVIOUS
    <3>2. U \in SUBSET Hits /\ IsFiniteSet(U)
      BY <2>5, <3>1
    <3>3. /\ Top(U, k) \in SUBSET Hits /\ Top(U, k) \subseteq U /\ IsFiniteSet(Top(U, k))
      BY ONLY <1>5, <3>2, TopCounts
    <3> QED BY <3>1, <3>3
  <2>7. \A h \in hits : h.key > lookup.after /\ h.key <= last
    BY <1>6, <1>8, <2>3, <2>4
  <2>8. lookup.after <= last
    BY <1>5, <1>6, <1>8, <2>4
  <2>9. \A h \in best : h.key <= last
    BY <1>4, <1>5, <2>4, <2>6, <2>7, <2>8 DEF Hits
  <2>10. Justified(best, i)
    <3>1. \A h \in lookup.best \cup hits : Explained(h, i)
      BY <1>4, <2>3 DEF Justified
    <3>2. \A g, h \in lookup.best \cup hits : g.key = h.key => g = h
      <4>1. \A g \in lookup.best, h \in hits : g.key # h.key
        <5>1. \A g \in lookup.best, h \in hits : g.key \in Nat /\ h.key \in Nat
          BY <1>5, <2>3 DEF Hits
        <5> QED BY <1>4, <1>5, <2>7, <5>1
      <4> QED BY <1>1, <1>4, <2>3, <4>1 DEF Justified
    <3> QED BY <2>6, <3>1, <3>2 DEF Justified
  <2>11. ASSUME NEW key \in LocalKeys, Due(key), key <= last
         PROVE  Covers(best, DueHit(key, i))
    <3>1. DueHit(key, i) \in Hits
      <4>1. key \in Candidates
        BY <1>1, <2>11, DueIsCandidate
      <4>2. {key} \in SUBSET Candidates
        BY <4>1
      <4>3. /\ VectorHits({key}, lookup.call.queries[i]) \in SUBSET Hits
            /\ \A x \in {key} : DueHit(x, i) \in VectorHits({key}, lookup.call.queries[i])
        BY <1>1, <4>2, VectorHitsShape
      <4> QED BY <4>3
    <3>2. Covers(lookup.best, DueHit(key, i)) \/ DueHit(key, i) \in hits
      <4>1. CASE key <= lookup.after
        BY <1>4, <2>11, <4>1
      <4>2. CASE ~(key <= lookup.after)
        <5>1. key \in rows
          <6>1. key \in later
            BY <1>7, <2>11, <4>2
          <6>2. ~(last < key)
            BY <1>5, <2>4, <2>11
          <6> QED BY <1>8, <2>4, <6>1, <6>2
        <5>2. RowAccepts(base[key], Rest)
          BY <1>1, <2>11, DueIsCandidate DEF Candidates
        <5> QED BY <2>3, <5>1, <5>2
      <4> QED BY <4>1, <4>2
    <3> QED BY <1>1, <1>5, <2>3, <3>1, <3>2, TopKeeps
  <2> HIDE DEF best
  <2>12. /\ lookup'.step = "blocks" /\ lookup'.best = best /\ lookup'.after = last
         /\ lookup'.keys = lookup.keys /\ lookup'.call = lookup.call
         /\ lookup'.rung = lookup.rung /\ lookup'.answers = lookup.answers
         /\ lookup'.cut = lookup.cut
    BY <1>1, <2>1 DEF Lookups
  <2>13. lookup' \in Lookups
    <3>1. PICK A : A = Seq(SUBSET Hits)
      OBVIOUS
    <3> QED BY <1>1, <2>1, <2>4, <2>6, <3>1 DEF Lookups
  <2>14. lookup' # Idle
    BY <2>12 DEF Idle
  <2>15. /\ StoreShape'
         /\ \A r : Wanted(r)' <=> Wanted(r)
         /\ \A x : Due(x)' <=> Due(x)
         /\ \A x : Place(x)' = Place(x)
         /\ \A x, j : DueHit(x, j)' = DueHit(x, j)
         /\ \A hs, j : Justified(hs, j)' <=> Justified(hs, j)
         /\ \A hs, x : Covers(hs, x)' <=> Covers(hs, x)
    BY <1>1, <2>12, <2>14, ReadKeeps
  <2>16. LookupShape'
    BY <1>1, <2>6, <2>12, <2>13 DEF SearchInv, LookupShape
  <2>17. KeysShape'
    <3>1. seen' = seen
      BY <1>1 DEF Kept
    <3> QED BY <1>1, <2>12, <2>15, <3>1 DEF SearchInv, KeysShape
  <2>18. BestShape'
    <3>1. \A key \in LocalKeys : Place(key) = key
      BY <1>1 DEF Place
    <3> QED BY <1>1, <1>2, <2>9, <2>10, <2>11, <2>12, <2>15, <3>1 DEF BestShape
  <2>19. AnswersShape'
    BY <1>1, <2>12, <2>15 DEF SearchInv, AnswersShape
  <2> QED BY <2>15, <2>16, <2>17, <2>18, <2>19 DEF SearchInv
<1> QED BY <1>9, <1>10

LEMMA ReadFtsKeeps ==
  ASSUME SearchInv, ReadFts
  PROVE  SearchInv'
<1> DEFINE c == lookup.call
           rung == c.rungs[lookup.rung]
           limit == RowLimit(rung)
           found == {key \in Here(base) : /\ base[key].words \in FetchedBy(rung)
                                          /\ SqlAccepts(base[key], c.filter)}
           all == {Hit(key, base[key].score, 0) : key \in found}
           rows == Top(all, limit)
           kept == {h \in rows : /\ RowAccepts(base[h.key], c.filter)
                                 /\ base[h.key].words \in MatchedBy(rung)}
           hits == Top(kept, c.k)
           last == hits # {} \/ lookup.rung = Len(c.rungs)
           cut == lookup.cut \/ Cardinality(found) > limit
<1>1. /\ lookup.step = "fts" /\ lookup # Idle /\ lookup \in Lookups /\ Kept
      /\ lookup.call.kind = "fts" /\ c \in SearchCalls
      /\ lookup' = [lookup EXCEPT !.cut = cut,
                     !.step = IF last THEN "done" ELSE "fts",
                     !.rung = IF last THEN @ ELSE @ + 1,
                     !.answers = IF last THEN <<hits>> ELSE @]
  BY DEF ReadFts, SearchInv, LookupShape, Idle, Lookups
<1>2. /\ base \in [LocalKeys -> LocalRecords \cup {Gone}]
      /\ \A key \in LocalKeys : base[key] \in seen[key]
  BY <1>1 DEF SearchInv, StoreShape
<1>3. c.k \in Nat /\ limit \in Nat /\ cut \in BOOLEAN
  <2>1. c.k \in Nat /\ Overfetch \in Nat /\ FuzzyRows \in Nat
    BY <1>1, CallShape, LocalSearchAssumption DEF LocalSearchAssumption
  <2>2. Overfetch * c.k \in Nat
    BY ONLY <2>1
  <2>3. limit \in Nat
    BY <2>1, <2>2 DEF RowLimit
  <2>4. lookup.cut \in BOOLEAN
    BY <1>1 DEF Lookups
  <2> QED BY <2>1, <2>3, <2>4
<1> HIDE DEF limit
<1>4. \A key \in found : /\ key \in LocalKeys /\ base[key] \in LocalRecords
                         /\ base[key].score \in Nat /\ base[key].active
                         /\ Hit(key, base[key].score, 0) \in Hits
  <2>1. \A key \in found : /\ key \in LocalKeys /\ base[key] \in LocalRecords
                           /\ base[key].active
    BY <1>2 DEF Here, SqlAccepts
  <2> QED BY <2>1, RecordShape DEF Hit, Hits
<1>5. IsFiniteSet(found) /\ Cardinality(found) \in Nat
  <2>1. found \in SUBSET LocalKeys /\ IsFiniteSet(LocalKeys)
    BY <1>4, LocalSearchAssumption DEF LocalSearchAssumption
  <2> QED BY <2>1, FS_Subset, FS_CardinalityType
<1>6. \A key \in LocalKeys : Due(key) /\ Rung = rung =>
        /\ key \in found
        /\ RowAccepts(base[key], c.filter) /\ base[key].words \in MatchedBy(rung)
  <2>1. MatchedBy(rung) \subseteq FetchedBy(rung)
    BY DEF MatchedBy, FetchedBy
  <2> QED BY <1>1, <2>1 DEF Due, Wanted, Here, RowAccepts, SqlAccepts
<1> HIDE DEF found
<1>7. all \in SUBSET Hits /\ IsFiniteSet(all) /\ Cardinality(all) <= Cardinality(found)
      /\ Cardinality(all) \in Nat
  <2>1. all \in SUBSET Hits
    BY <1>4
  <2> DEFINE f == [key \in found |-> Hit(key, base[key].score, 0)]
  <2>2. all = {f[key] : key \in found}
    OBVIOUS
  <2> HIDE DEF f, all
  <2>3. /\ IsFiniteSet({f[key] : key \in found})
        /\ Cardinality({f[key] : key \in found}) <= Cardinality(found)
    BY ONLY <1>5, ValuesFinite
  <2> QED BY <2>1, <2>2, <2>3, FS_CardinalityType
<1>8. /\ \A h \in all : \E key \in found : h = Hit(key, base[key].score, 0)
      /\ \A key \in found : Hit(key, base[key].score, 0) \in all
  OBVIOUS
<1> HIDE DEF all
<1>9. /\ rows \in SUBSET Hits /\ rows \subseteq all /\ IsFiniteSet(rows)
      /\ Cardinality(found) <= limit => rows = all
  BY <1>3, <1>5, <1>7, TopCounts
<1> HIDE DEF rows
<1>10. /\ kept \in SUBSET Hits /\ kept \subseteq all /\ IsFiniteSet(kept)
  <2>1. kept \in SUBSET rows
    OBVIOUS
  <2>2. IsFiniteSet(kept)
    BY <1>9, <2>1, FS_Subset
  <2> QED BY <1>9, <2>1, <2>2
<1>11. \A h \in kept : RowAccepts(base[h.key], c.filter) /\ base[h.key].words \in MatchedBy(rung)
  OBVIOUS
<1>12. \A h \in rows : RowAccepts(base[h.key], c.filter) /\ base[h.key].words \in MatchedBy(rung)
         => h \in kept
  OBVIOUS
<1> HIDE DEF kept
<1>13. hits \in SUBSET Hits /\ hits \subseteq kept
  BY <1>3, <1>10, TopCounts
<1>14. \A h \in hits : \E key \in found :
         /\ h = Hit(key, base[key].score, 0) /\ h.key = key /\ h.score = base[key].score
         /\ RowAccepts(base[key], c.filter) /\ base[key].words \in MatchedBy(rung)
  BY <1>8, <1>10, <1>11, <1>13 DEF Hit
<1>15. Rung = rung
  BY <1>1 DEF Rung
<1>16. \A r, i : HitScore(r, i) = r.score
  BY <1>1 DEF HitScore
<1>17. Justified(hits, 1)
  <2>1. ASSUME NEW h \in hits PROVE Explained(h, 1)
    <3>1. PICK key \in found :
            /\ h.key = key /\ h.score = base[key].score
            /\ RowAccepts(base[key], c.filter) /\ base[key].words \in MatchedBy(rung)
      BY <1>14
    <3>2. base[key] # Gone /\ base[key].active /\ base[key] \in seen[key]
      BY <1>2, <1>4, RecordShape
    <3>3. Wanted(base[key])
      BY <1>15, <3>1, <3>2 DEF Wanted
    <3> QED BY <1>16, <3>1, <3>2, <3>3 DEF Explained
  <2>2. \A g, h \in hits : g.key = h.key => g = h
    BY <1>14
  <2> HIDE DEF hits
  <2> QED BY <2>1, <2>2 DEF Justified
<1>18. ASSUME ~cut, NEW key \in LocalKeys, Due(key)
       PROVE  Covers(hits, DueHit(key, 1))
  <2>1. /\ key \in found
        /\ RowAccepts(base[key], c.filter) /\ base[key].words \in MatchedBy(rung)
    BY <1>6, <1>15, <1>18
  <2>2. DueHit(key, 1) = Hit(key, base[key].score, 0)
    BY <1>1, <1>16 DEF DueHit
  <2>3. DueHit(key, 1) \in rows /\ DueHit(key, 1).key = key
    <3>1. Cardinality(found) <= limit
      BY <1>3, <1>5, <1>18
    <3> QED BY <1>8, <1>9, <2>1, <2>2, <3>1 DEF Hit
  <2>4. DueHit(key, 1) \in kept
    BY <1>12, <2>1, <2>3
  <2>5. {} \cup kept = kept /\ {} \in SUBSET Hits /\ IsFiniteSet({})
    BY FS_EmptySet
  <2>6. Covers(Top({} \cup kept, lookup.call.k), DueHit(key, 1))
    BY <1>3, <1>10, <2>4, <2>5, TopKeeps
  <2> QED BY <2>5, <2>6
<1> HIDE DEF hits, cut
<1>19. /\ lookup'.step = IF last THEN "done" ELSE "fts"
       /\ lookup'.rung = IF last THEN lookup.rung ELSE lookup.rung + 1
       /\ lookup'.answers = IF last THEN <<hits>> ELSE lookup.answers
       /\ lookup'.best = lookup.best /\ lookup'.call = lookup.call /\ lookup'.cut = cut
  BY <1>1 DEF Lookups
<1>20. lookup' # Idle
  BY <1>19 DEF Idle
<1>21. lookup' \in Lookups
  <2>1. <<hits>> \in Seq(SUBSET Hits)
    BY <1>13
  <2>2. PICK A : A = Seq(SUBSET Hits)
    OBVIOUS
  <2>3. lookup.rung \in Nat /\ lookup.rung + 1 \in Nat
    BY <1>1 DEF Lookups
  <2> HIDE DEF last
  <2> QED BY <1>1, <1>3, <2>1, <2>2, <2>3 DEF Lookups, LookupSteps
<1>22. LookupShape'
  BY <1>1, <1>19, <1>20, <1>21 DEF SearchInv, LookupShape
<1>23. StoreShape'
  BY <1>1, <1>20 DEF SearchInv, StoreShape, Kept, Here
<1>24. KeysShape' /\ BestShape'
  BY <1>19 DEF KeysShape, BestShape
<1>25. AnswersShape'
  <2>1. CASE last
    <3>1. /\ \A x : Due(x)' <=> Due(x)
          /\ \A x, i : DueHit(x, i)' = DueHit(x, i)
          /\ \A hs, i : Justified(hs, i)' <=> Justified(hs, i)
          /\ \A hs, x : Covers(hs, x)' <=> Covers(hs, x)
      BY <1>1, <1>19, <1>20, <2>1, ReadKeeps
    <3>2. lookup'.answers = <<hits>>
      BY <1>19, <2>1
    <3> HIDE DEF last
    <3> QED BY <1>17, <1>18, <1>19, <3>1, <3>2 DEF AnswersShape
  <2>2. CASE ~last
    BY <1>1, <1>19, <2>2 DEF AnswersShape
  <2> QED BY <2>1, <2>2
<1> QED BY <1>22, <1>23, <1>24, <1>25 DEF SearchInv

LEMMA ReadScanKeeps ==
  ASSUME SearchInv, ReadScan
  PROVE  SearchInv'
<1> DEFINE c == lookup.call
           left == {key \in Here(base) : rowids[key] > lookup.after
                                         /\ SqlAccepts(base[key], c.filter)}
           rows == Page(left, rowids)
           K == {x \in rows : /\ RowAccepts(base[x], c.filter)
                              /\ base[x].words \in MatchedBy("some")}
           hits == {Hit(key, base[key].score, rowids[key]) : key \in K}
           best == Top(lookup.best \union hits, c.k)
           last == LastOf(rows, rowids)
<1>1. /\ lookup.step = "scan" /\ lookup # Idle /\ lookup \in Lookups /\ Kept
      /\ lookup.call.kind = "scan" /\ IsFiniteSet(lookup.best)
      /\ lookup' = IF Cardinality(rows) < PageRows
                   THEN [lookup EXCEPT !.step = "done", !.answers = <<best>>]
                   ELSE [lookup EXCEPT !.best = best, !.after = last]
  BY DEF ReadScan, SearchInv, LookupShape, Idle
<1>2. /\ base \in [LocalKeys -> LocalRecords \cup {Gone}]
      /\ \A key \in LocalKeys : base[key] \in seen[key]
      /\ rowids \in [LocalKeys -> Nat \ {0}] /\ rowids \in [LocalKeys -> Nat]
      /\ \A x, y \in Here(base) : rowids[x] = rowids[y] => x = y
  BY <1>1 DEF SearchInv, StoreShape
<1>3. /\ lookup.best \in SUBSET Hits /\ lookup.after \in Nat /\ c.k \in Nat
      /\ Len(lookup.answers) \in Nat
  BY <1>1, CallShape DEF Lookups
<1>a. PICK i : i = Len(lookup.answers) + 1
  OBVIOUS
<1>4. /\ Justified(lookup.best, i)
      /\ \A key \in LocalKeys :
           (Due(key) /\ rowids[key] <= lookup.after) => Covers(lookup.best, DueHit(key, i))
      /\ \A h \in lookup.best :
           h.row <= lookup.after /\ (h.row = rowids[h.key] \/ h.key \in readded)
  BY <1>1, <1>a DEF SearchInv, BestShape, Place
<1>5. Rung = "some"
  BY <1>1 DEF Rung
<1>6. \A key \in LocalKeys : Due(key) =>
        /\ key \in Here(base) /\ SqlAccepts(base[key], c.filter)
        /\ RowAccepts(base[key], c.filter) /\ base[key].words \in MatchedBy("some")
  BY <1>1, <1>5 DEF Due, Wanted, Here, RowAccepts, SqlAccepts
<1>7. /\ left \in SUBSET LocalKeys /\ left \subseteq Here(base)
      /\ \A key \in left : rowids[key] > lookup.after
      /\ \A key \in LocalKeys : Due(key) /\ ~(rowids[key] <= lookup.after) => key \in left
  <2>1. \A key \in LocalKeys : rowids[key] \in Nat
    BY <1>2
  <2> QED BY <1>3, <1>6, <2>1 DEF Here
<1> HIDE DEF left
<1>8. /\ rows \subseteq left /\ rows \in SUBSET LocalKeys
      /\ Cardinality(rows) < PageRows => rows = left
      /\ \A x \in rows, y \in left \ rows : rowids[x] < rowids[y]
  BY <1>2, <1>7, PageCounts
<1>b. rows = {} => Cardinality(rows) < PageRows
  BY FS_EmptySet, LocalSearchAssumption DEF LocalSearchAssumption
<1> HIDE DEF rows
<1>9. \A key \in K : /\ key \in rows /\ key \in LocalKeys /\ base[key] \in LocalRecords
                     /\ base[key].score \in Nat /\ base[key] # Gone
                     /\ Hit(key, base[key].score, rowids[key]) \in Hits
  <2>1. \A key \in K : /\ key \in rows /\ key \in LocalKeys /\ base[key] \in LocalRecords
                       /\ rowids[key] \in Nat
    BY <1>2, <1>7, <1>8 DEF Here
  <2> QED BY <2>1, RecordShape DEF Hit, Hits
<1>10. IsFiniteSet(K)
  <2>1. K \in SUBSET LocalKeys /\ IsFiniteSet(LocalKeys)
    BY <1>9, LocalSearchAssumption DEF LocalSearchAssumption
  <2> QED BY <2>1, FS_Subset
<1>11. \A key \in K : RowAccepts(base[key], c.filter) /\ base[key].words \in MatchedBy("some")
  OBVIOUS
<1>12. \A key \in LocalKeys : Due(key) /\ key \in rows => key \in K
  BY <1>6
<1> HIDE DEF K
<1>13. hits \in SUBSET Hits /\ IsFiniteSet(hits)
  <2>1. hits \in SUBSET Hits
    BY <1>9
  <2> DEFINE f == [key \in K |-> Hit(key, base[key].score, rowids[key])]
  <2>2. hits = {f[key] : key \in K}
    OBVIOUS
  <2> HIDE DEF f, hits
  <2>3. IsFiniteSet({f[key] : key \in K})
    BY ONLY <1>10, ValuesFinite
  <2> QED BY <2>1, <2>2, <2>3
<1>14. /\ \A h \in hits : \E key \in K :
            h.key = key /\ h.score = base[key].score /\ h.row = rowids[key]
            /\ h = Hit(key, base[key].score, rowids[key])
       /\ \A key \in K : Hit(key, base[key].score, rowids[key]) \in hits
  BY DEF Hit
<1> HIDE DEF hits
<1>15. \A r, j : HitScore(r, j) = r.score
  BY <1>1 DEF HitScore
<1>16. \A h \in hits : Explained(h, i)
  <2> SUFFICES ASSUME NEW h \in hits PROVE Explained(h, i)
    OBVIOUS
  <2>1. PICK key \in K : h.key = key /\ h.score = base[key].score
    BY <1>14
  <2>2. base[key] \in seen[key] /\ base[key] # Gone /\ base[key].active
    BY <1>2, <1>9, <1>11 DEF RowAccepts
  <2>3. Wanted(base[key])
    BY <1>5, <1>11, <2>2 DEF Wanted
  <2> QED BY <1>15, <2>1, <2>2, <2>3 DEF Explained
<1>17. PICK U : U = lookup.best \cup hits
  OBVIOUS
<1>18. U \in SUBSET Hits /\ IsFiniteSet(U)
  BY <1>1, <1>3, <1>13, <1>17, FS_Union
<1>19. Justified(U, i)
  <2>1. \A h \in U : Explained(h, i)
    BY <1>4, <1>16, <1>17 DEF Justified
  <2>2. ASSUME NEW g \in lookup.best, NEW h \in hits, g.key = h.key
        PROVE  h.key \in readded
    <3>1. h.row = rowids[h.key] /\ h.key \in left /\ h.key \in LocalKeys
      BY <1>8, <1>9, <1>14
    <3>2. g.row <= lookup.after /\ rowids[h.key] > lookup.after
      BY <1>4, <1>7, <3>1
    <3>3. rowids[h.key] \in Nat /\ g.row \in Nat
      BY <1>2, <1>3, <3>1 DEF Hits
    <3>4. g.row # rowids[g.key]
      BY <1>3, <2>2, <3>2, <3>3
    <3> QED BY <1>4, <2>2, <3>4
  <2>3. \A g, h \in hits : g.key = h.key => g = h
    BY <1>14
  <2>4. ASSUME NEW g \in U, NEW h \in U, g # h, g.key = h.key
        PROVE  h.key \in readded
    <3>1. CASE g \in lookup.best /\ h \in lookup.best
      BY <1>4, <2>4, <3>1 DEF Justified
    <3>2. CASE g \in hits /\ h \in hits
      BY <2>3, <2>4, <3>2
    <3>3. CASE g \in lookup.best /\ h \in hits
      BY <2>2, <2>4, <3>3
    <3>4. CASE g \in hits /\ h \in lookup.best
      BY <2>2, <2>4, <3>4
    <3> QED BY <1>17, <3>1, <3>2, <3>3, <3>4
  <2> QED BY <1>1, <2>1, <2>4 DEF Justified
<1>20. /\ best \in SUBSET Hits /\ best \subseteq U /\ IsFiniteSet(best)
  <2>1. /\ Top(U, c.k) \in SUBSET Hits /\ Top(U, c.k) \subseteq U /\ IsFiniteSet(Top(U, c.k))
    BY <1>3, <1>18, TopCounts
  <2> QED BY <1>17, <2>1
<1>21. Justified(best, i)
  <2> HIDE DEF best
  <2> QED BY <1>19, <1>20 DEF Justified
<1>22. ASSUME NEW key \in LocalKeys, Due(key), rowids[key] <= lookup.after \/ key \in rows
       PROVE  Covers(best, DueHit(key, i))
  <2>1. DueHit(key, i) = Hit(key, base[key].score, rowids[key])
    BY <1>1, <1>15 DEF DueHit
  <2>2. DueHit(key, i) \in Hits
    <3>1. base[key] \in LocalRecords /\ rowids[key] \in Nat
      BY <1>2, <1>6, <1>22 DEF Here
    <3> QED BY <2>1, <3>1, RecordShape DEF Hit, Hits
  <2>3. Covers(lookup.best, DueHit(key, i)) \/ DueHit(key, i) \in hits
    BY <1>4, <1>12, <1>14, <1>22, <2>1
  <2> QED BY <1>1, <1>3, <1>13, <2>2, <2>3, TopKeeps
<1> HIDE DEF best, last
<1>23. CASE Cardinality(rows) < PageRows
  <2>1. lookup' = [lookup EXCEPT !.step = "done", !.answers = <<best>>]
    BY <1>1, <1>23
  <2>2. <<best>> \in Seq(SUBSET Hits)
    BY <1>20
  <2>3. /\ lookup'.step = "done" /\ lookup'.answers = <<best>>
        /\ lookup'.call = lookup.call /\ lookup'.rung = lookup.rung
        /\ lookup'.best = lookup.best /\ lookup'.cut = lookup.cut
    BY <1>1, <2>1 DEF Lookups
  <2>4. lookup' \in Lookups
    <3>1. PICK A : A = Seq(SUBSET Hits)
      OBVIOUS
    <3> QED BY <1>1, <2>1, <2>2, <3>1 DEF Lookups, LookupSteps
  <2>5. lookup' # Idle
    BY <2>3 DEF Idle
  <2>6. /\ StoreShape'
        /\ \A x : Due(x)' <=> Due(x)
        /\ \A x, j : DueHit(x, j)' = DueHit(x, j)
        /\ \A hs, j : Justified(hs, j)' <=> Justified(hs, j)
        /\ \A hs, x : Covers(hs, x)' <=> Covers(hs, x)
    BY <1>1, <2>3, <2>5, ReadKeeps
  <2>7. LookupShape'
    BY <1>1, <2>3, <2>4 DEF SearchInv, LookupShape
  <2>8. KeysShape' /\ BestShape'
    BY <2>3 DEF KeysShape, BestShape
  <2>9. \A x : DueHit(x, 1) = DueHit(x, i)
    BY <1>15 DEF DueHit
  <2>10. \A hs : Justified(hs, i) => Justified(hs, 1)
    BY <1>15 DEF Justified, Explained
  <2>11. \A key \in LocalKeys : Due(key) => Covers(best, DueHit(key, i))
    BY <1>7, <1>8, <1>22, <1>23
  <2>12. AnswersShape'
    BY <1>21, <2>3, <2>6, <2>9, <2>10, <2>11 DEF AnswersShape
  <2> QED BY <2>6, <2>7, <2>8, <2>12 DEF SearchInv
<1>24. CASE ~(Cardinality(rows) < PageRows)
  <2>1. lookup' = [lookup EXCEPT !.best = best, !.after = last]
    BY <1>1, <1>24
  <2>2. /\ last \in Nat /\ \E x \in rows : rowids[x] = last
        /\ \A x \in rows : rowids[x] <= last
    BY <1>2, <1>8, <1>b, <1>24, LastIsLast DEF last
  <2>3. /\ lookup'.step = "scan" /\ lookup'.best = best /\ lookup'.after = last
        /\ lookup'.keys = lookup.keys /\ lookup'.call = lookup.call
        /\ lookup'.rung = lookup.rung /\ lookup'.answers = lookup.answers
        /\ lookup'.cut = lookup.cut
    BY <1>1, <2>1 DEF Lookups
  <2>4. lookup' \in Lookups
    <3>1. PICK A : A = Seq(SUBSET Hits)
      OBVIOUS
    <3> QED BY <1>1, <1>20, <2>1, <2>2, <3>1 DEF Lookups
  <2>5. lookup' # Idle
    BY <2>3 DEF Idle
  <2>6. /\ StoreShape'
        /\ \A x : Due(x)' <=> Due(x)
        /\ \A x : Place(x)' = Place(x)
        /\ \A x, j : DueHit(x, j)' = DueHit(x, j)
        /\ \A hs, j : Justified(hs, j)' <=> Justified(hs, j)
        /\ \A hs, x : Covers(hs, x)' <=> Covers(hs, x)
    BY <1>1, <2>3, <2>5, ReadKeeps
  <2>7. LookupShape'
    BY <1>1, <1>20, <2>3, <2>4 DEF SearchInv, LookupShape
  <2>8. KeysShape'
    BY <2>3 DEF KeysShape
  <2>9. ASSUME NEW key \in LocalKeys, Due(key), rowids[key] <= last
        PROVE  Covers(best, DueHit(key, i))
    <3>1. rowids[key] <= lookup.after \/ key \in rows
      <4> SUFFICES ASSUME ~(rowids[key] <= lookup.after), key \notin rows PROVE FALSE
        OBVIOUS
      <4>1. key \in left \ rows
        BY <1>7, <2>9
      <4>2. PICK x \in rows : rowids[x] = last
        BY <2>2
      <4>3. last < rowids[key]
        BY <1>8, <4>1, <4>2
      <4> QED BY <1>2, <2>2, <2>9, <4>3
    <3> QED BY <1>22, <2>9, <3>1
  <2>10. ASSUME NEW h \in best
         PROVE  h.row <= last /\ (h.row = rowids[h.key] \/ h.key \in readded)
    <3>1. CASE h \in lookup.best
      <4>1. PICK x \in rows : rowids[x] = last
        BY <2>2
      <4>2. lookup.after < last
        BY <1>7, <1>8, <4>1
      <4>3. h.row \in Nat /\ h.row <= lookup.after
        BY <1>3, <1>4, <3>1 DEF Hits
      <4> QED BY <1>3, <1>4, <2>2, <3>1, <4>2, <4>3
    <3>2. CASE h \in hits
      BY <1>9, <1>14, <2>2, <3>2
    <3> QED BY <1>17, <1>20, <3>1, <3>2
  <2>11. BestShape'
    <3>1. \A key \in LocalKeys : Place(key) = rowids[key]
      BY <1>1 DEF Place
    <3>2. rowids' = rowids /\ readded' = readded
      BY <1>1 DEF Kept
    <3> QED BY <1>1, <1>a, <1>21, <2>3, <2>6, <2>9, <2>10, <3>1, <3>2 DEF BestShape
  <2>12. AnswersShape'
    BY <1>1, <2>3 DEF AnswersShape
  <2> QED BY <2>6, <2>7, <2>8, <2>11, <2>12 DEF SearchInv
<1> QED BY <1>23, <1>24

-----------------------------------------------------------------------------
(* The search as a whole.                                                  *)

LEMMA NextSearchInv == SearchInv /\ [LocalSearchNext]_localVars => SearchInv'
<1> SUFFICES ASSUME SearchInv, [LocalSearchNext]_localVars PROVE SearchInv'
  OBVIOUS
<1>1. CASE UNCHANGED localVars
  <2>1. /\ base' = base /\ rowids' = rowids /\ lookup' = lookup /\ seen' = seen
        /\ readded' = readded
    BY <1>1 DEF localVars
  <2>2. StoreShape' /\ LookupShape'
    BY <2>1 DEF SearchInv, StoreShape, LookupShape, Here
  <2>3. \A x : Wanted(x)' <=> Wanted(x)
    BY <2>1 DEF Wanted, Rung
  <2>4. \A r, i : HitScore(r, i)' = HitScore(r, i)
    BY <2>1 DEF HitScore
  <2>5. \A x : (Due(x)' <=> Due(x)) /\ Place(x)' = Place(x)
    BY <2>1, <2>3 DEF Due, Place
  <2>6. \A x, i : DueHit(x, i)' = DueHit(x, i)
    BY <2>1, <2>4 DEF DueHit
  <2>7. \A hs, i : Justified(hs, i)' <=> Justified(hs, i)
    <3>1. \A h, i : Explained(h, i)' <=> Explained(h, i)
      BY <2>1, <2>3, <2>4 DEF Explained
    <3> QED BY <2>1, <3>1 DEF Justified
  <2>8. \A hs, x : Covers(hs, x)' <=> Covers(hs, x)
    BY <2>1 DEF Covers
  <2>9. KeysShape'
    BY <2>1, <2>3, <2>5 DEF SearchInv, KeysShape
  <2>10. BestShape'
    BY <2>1, <2>5, <2>6, <2>7, <2>8 DEF SearchInv, BestShape
  <2>11. AnswersShape'
    BY <2>1, <2>5, <2>6, <2>7, <2>8 DEF SearchInv, AnswersShape
  <2> QED BY <2>2, <2>9, <2>10, <2>11 DEF SearchInv
<1>2. CASE \E c \in SearchCalls : BeginLookup(c)
  BY <1>2, BeginLookupKeeps
<1>3. CASE \E key \in LocalKeys, r \in RecordKinds : StoreRecord(key, r)
  BY <1>3, StoreRecordKeeps
<1>4. CASE \E key \in LocalKeys : RemoveRecord(key)
  BY <1>4, RemoveRecordKeeps
<1>5. CASE ReadEligible
  BY <1>5, ReadEligibleKeeps
<1>6. CASE ReadStats
  BY <1>6, ReadStatsKeeps
<1>7. CASE ReadSnapshot
  BY <1>7, ReadSnapshotKeeps
<1>8. CASE ReadBlock
  BY <1>8, ReadBlockKeeps
<1>9. CASE ReadFts
  BY <1>9, ReadFtsKeeps
<1>10. CASE ReadScan
  BY <1>10, ReadScanKeeps
<1> QED BY <1>1, <1>2, <1>3, <1>4, <1>5, <1>6, <1>7, <1>8, <1>9, <1>10 DEF LocalSearchNext

LEMMA InvExplains == SearchInv => SearchExplained
<1> SUFFICES ASSUME SearchInv, lookup.step = "done", NEW i \in 1..Len(lookup.answers)
             PROVE  LET hits == lookup.answers[i] IN
                    /\ \A h \in hits : Explained(h, i)
                    /\ ~lookup.cut => \A key \in LocalKeys :
                         (Constant(key) /\ \A r \in seen[key] : Wanted(r)) => Beaten(key, i)
                    /\ \A g, h \in hits :
                         (g # h /\ g.key = h.key) => (lookup.call.kind = "scan" /\ h.key \in readded)
  BY DEF SearchExplained
<1> DEFINE hits == lookup.answers[i]
<1>1. lookup # Idle
  BY DEF Idle
<1>2. /\ Justified(hits, i)
      /\ ~lookup.cut => \A key \in LocalKeys : Due(key) => Covers(hits, DueHit(key, i))
  BY <1>1 DEF SearchInv, AnswersShape
<1>3. ASSUME NEW key \in LocalKeys, Constant(key), \A r \in seen[key] : Wanted(r)
      PROVE  Due(key) /\ seen[key] = {base[key]}
  <2>1. IsFiniteSet(seen[key]) /\ base[key] \in seen[key]
    BY <1>1 DEF SearchInv, StoreShape
  <2>2. seen[key] = {base[key]}
    BY <1>3, <2>1, FS_Singleton DEF Constant
  <2> QED BY <1>3, <2>2 DEF Due
<1>4. ASSUME NEW key \in LocalKeys, seen[key] = {base[key]}, Covers(hits, DueHit(key, i))
      PROVE  Beaten(key, i)
  <2>1. DueHit(key, i).key = key /\ DueHit(key, i).score = HitScore(base[key], i)
    BY DEF DueHit, Hit
  <2>2. CASE \E h \in hits : h.key = key
    BY <2>2 DEF Beaten
  <2>3. CASE \A h \in hits : h.key # key
    <3>1. Cardinality(hits) = lookup.call.k /\ \A h \in hits : Better(h, DueHit(key, i))
      BY <1>4, <2>1, <2>3 DEF Covers
    <3>2. \A h \in hits : Better(h, Hit(key, HitScore(base[key], i), 0))
      BY <2>1, <2>3, <3>1 DEF Better, Hit
    <3> QED BY <1>4, <3>1, <3>2 DEF Beaten
  <2> QED BY <2>2, <2>3
<1> QED BY <1>2, <1>3, <1>4 DEF Justified

\* The store keeps rows of its own for the records that are there, and what
\* a search holds between its reads is accounted for.
THEOREM SearchInvariant == LocalSpec => []SearchInv
BY InitSearchInv, NextSearchInv, PTL DEF LocalSpec

\* Every hit of a local search had its score and passed the filter at some
\* moment of the call, no matching record that did not change is missed without
\* k better hits before it or a row limit, and a key is answered twice only
\* when it was deleted and added again under the fallback scan.
THEOREM SearchIsExplained == LocalSpec => []SearchExplained
BY SearchInvariant, InvExplains, PTL

-----------------------------------------------------------------------------
(* Filters: every store translates them its own way                        *)

\* The first of the names that are given.
LEMMA FirstGiven ==
  ASSUME NEW f, NEW names, Len(names) \in Nat, Given(f, names)
  PROVE  /\ First(f, names) \in 1..Len(names) /\ names[First(f, names)] \in DOMAIN f
         /\ \A j \in 1..(First(f, names) - 1) : names[j] \notin DOMAIN f
<1> DEFINE n == Len(names)
           I == {j \in 1..n : names[j] \in DOMAIN f}
           N == {n - j : j \in I}
<1>1. I # {}
  BY DEF Given, NamesOf
<1>2. \A j \in I : j \in 1..n /\ n - j \in Nat
  OBVIOUS
<1>3. N \in SUBSET Nat /\ N # {} /\ \A m \in N : m <= n
  BY <1>1, <1>2
<1>4. IsFiniteSet(N)
  BY <1>3, FS_BoundedSetOfNaturals
<1>5. PICK m \in N : \A x \in N : x <= m
  <2> HIDE DEF N
  <2> QED BY <1>3, <1>4, GreatestExists
<1>6. PICK i \in I : m = n - i
  OBVIOUS
<1>7. ASSUME NEW j \in 1..(i - 1) PROVE names[j] \notin DOMAIN f
  <2> SUFFICES ASSUME names[j] \in DOMAIN f PROVE FALSE
    OBVIOUS
  <2>1. i \in 1..n
    OBVIOUS
  <2>2. j \in I /\ j < i
    BY <2>1
  <2>3. n - j \in N
    BY <2>2
  <2>4. n - j <= n - i
    BY <1>5, <1>6, <2>3
  <2> QED BY <2>1, <2>2, <2>4
<1>8. \E k \in I : \A j \in 1..(k - 1) : names[j] \notin DOMAIN f
  BY <1>7
<1> QED BY <1>8 DEF First

\* Two filters that give the same of some names, with the same values.
Alike(f, g, names) ==
  \A n \in NamesOf(names) : (n \in DOMAIN f <=> n \in DOMAIN g) /\ (n \in DOMAIN g => g[n] = f[n])

LEMMA AlikeValues ==
  ASSUME NEW f, NEW g, NEW names, Len(names) \in Nat, Alike(f, g, names)
  PROVE  /\ Given(g, names) <=> Given(f, names)
         /\ Given(f, names) => Values(g, names) = Values(f, names)
<1>1. \A i \in 1..Len(names) : names[i] \in NamesOf(names)
  BY DEF NamesOf
<1>2. Given(g, names) <=> Given(f, names)
  BY DEF Given, Alike
<1>3. ASSUME Given(f, names) PROVE Values(g, names) = Values(f, names)
  <2>1. /\ First(f, names) \in 1..Len(names) /\ names[First(f, names)] \in DOMAIN f
        /\ \A j \in 1..(First(f, names) - 1) : names[j] \notin DOMAIN f
    BY <1>3, FirstGiven
  <2>2. /\ First(g, names) \in 1..Len(names) /\ names[First(g, names)] \in DOMAIN g
        /\ \A j \in 1..(First(g, names) - 1) : names[j] \notin DOMAIN g
    BY <1>2, <1>3, FirstGiven
  <2>3. \A j \in 1..Len(names) : names[j] \in DOMAIN f <=> names[j] \in DOMAIN g
    BY <1>1 DEF Alike
  <2>4. ~(First(f, names) < First(g, names))
    BY <2>1, <2>2, <2>3
  <2>5. ~(First(g, names) < First(f, names))
    BY <2>1, <2>2, <2>3
  <2>6. First(f, names) = First(g, names)
    BY <2>1, <2>2, <2>4, <2>5
  <2> QED BY <1>1, <2>1, <2>2, <2>6 DEF Values, Alike
<1> QED BY <1>2, <1>3

LEMMA NameLists ==
  /\ NamesOf(SourceNames) = {"source_kinds", "source_kind", "source_filter"}
  /\ NamesOf(ProjectNames) = {"project_ids", "project_id", "project_filter"}
  /\ NamesOf(CandidateNames) = {"candidate_ids", "candidate_storage_keys"}
  /\ NamesOf(StatusNames) = {"status", "lifecycle_status", "statuses", "lifecycle_statuses"}
  /\ NamesOf(PathNames) = {"paths", "file_paths", "source_files", "path", "file_path", "source_file"}
  /\ NamesOf(ExcludedPathNames) = {"excluded_files", "excluded_paths", "excluded_file_paths",
                                   "excluded_source_files"}
  /\ NamesOf(DocumentNames) = {"document_ids", "document_id", "doc_ids", "doc_id"}
  /\ NamesOf(ExcludedDocumentNames) = {"excluded_documents", "excluded_document_ids",
                                       "excluded_doc_ids"}
  /\ NamesOf(ExcludedProjectNames) = {"excluded_projects", "excluded_project_ids"}
<1> USE DEF NamesOf
<1>1. NamesOf(SourceNames) = {"source_kinds", "source_kind", "source_filter"}
  BY DEF SourceNames
<1>2. NamesOf(ProjectNames) = {"project_ids", "project_id", "project_filter"}
  BY DEF ProjectNames
<1>3. NamesOf(CandidateNames) = {"candidate_ids", "candidate_storage_keys"}
  BY DEF CandidateNames
<1>4. NamesOf(StatusNames) = {"status", "lifecycle_status", "statuses", "lifecycle_statuses"}
  BY DEF StatusNames
<1>5. NamesOf(PathNames) = {"paths", "file_paths", "source_files", "path", "file_path", "source_file"}
  BY DEF PathNames
<1>6. NamesOf(ExcludedPathNames) = {"excluded_files", "excluded_paths", "excluded_file_paths",
                                    "excluded_source_files"}
  BY DEF ExcludedPathNames
<1>7. NamesOf(DocumentNames) = {"document_ids", "document_id", "doc_ids", "doc_id"}
  BY DEF DocumentNames
<1>8. NamesOf(ExcludedDocumentNames) = {"excluded_documents", "excluded_document_ids",
                                        "excluded_doc_ids"}
  BY DEF ExcludedDocumentNames
<1>9. NamesOf(ExcludedProjectNames) = {"excluded_projects", "excluded_project_ids"}
  BY DEF ExcludedProjectNames
<1> QED BY <1>1, <1>2, <1>3, <1>4, <1>5, <1>6, <1>7, <1>8, <1>9

LEMMA NameCounts ==
  /\ Len(SourceNames) \in Nat /\ Len(ProjectNames) \in Nat /\ Len(CandidateNames) \in Nat
  /\ Len(StatusNames) \in Nat /\ Len(PathNames) \in Nat /\ Len(ExcludedPathNames) \in Nat
  /\ Len(DocumentNames) \in Nat /\ Len(ExcludedDocumentNames) \in Nat
  /\ Len(ExcludedProjectNames) \in Nat
BY DEF SourceNames, ProjectNames, CandidateNames, StatusNames, PathNames, ExcludedPathNames,
       DocumentNames, ExcludedDocumentNames, ExcludedProjectNames

\* One disjunction for each source kind says what the record's own kind asks.
LEMMA ScopesAgree ==
  ASSUME NEW f, NEW r
  PROVE  (\A kind \in DOMAIN Scoped(f) : PgScope(kind, Scoped(f)[kind], r))
           <=> (r.kind \in DOMAIN Scoped(f) => ScopeMatches(Scoped(f)[r.kind], r))
<1>1. ASSUME NEW kind, r.kind # kind
      PROVE  PgScope(kind, Scoped(f)[kind], r)
  BY <1>1 DEF PgScope
<1>2. PgScope(r.kind, Scoped(f)[r.kind], r) <=> ScopeMatches(Scoped(f)[r.kind], r)
  BY DEF PgScope, ScopeMatches
<1> QED BY <1>1, <1>2

\* What the record's project and its document are asked.
ProjectAsked(f, r) == ProjectsGiven(f) => AsString(r.project, "None") \in Values(f, ProjectNames)
ProjectExcluded(f, r) ==
  (Given(f, ExcludedProjectNames) /\ ~Missing(r.project)) =>
    r.project.is \notin Values(f, ExcludedProjectNames)
DocumentOf(r) == IF r.doc.type = "absent" THEN r.sid ELSE AsString(r.doc, Path("", "None", ""))
DocumentAsked(f, r) ==
  /\ Given(f, DocumentNames) => DocumentOf(r) \in Values(f, DocumentNames)
  /\ Given(f, ExcludedDocumentNames) =>
       {DocumentOf(r), r.sid} \cap Values(f, ExcludedDocumentNames) = {}
PathAsked(f, r) ==
  /\ Given(f, PathNames) => RecordPaths(r) \cap AllVariants(Values(f, PathNames)) # {}
  /\ Given(f, ExcludedPathNames) =>
       RecordPaths(r) \cap AllVariants(Values(f, ExcludedPathNames)) = {}
KeyExcluded(f, r) ==
  "exclude_storage_keys" \in DOMAIN f /\ r.key \in CandidateStorageKeys(f["exclude_storage_keys"])
ScopeAsked(f, r) == r.kind \in DOMAIN Scoped(f) => ScopeMatches(Scoped(f)[r.kind], r)

LEMMA MatchesParts ==
  ASSUME NEW f, NEW r
  PROVE  Matches(f, r) <=>
           /\ ScalarsMatch(f, r) /\ ~KeyExcluded(f, r) /\ ScopeAsked(f, r)
           /\ ProjectAsked(f, r) /\ ProjectExcluded(f, r)
           /\ PathAsked(f, r) /\ DocumentAsked(f, r) /\ MetadataMatches(f, r)
BY DEF Matches, KeyExcluded, ScopeAsked, ProjectAsked, ProjectExcluded, PathAsked, DocumentAsked,
       DocumentOf

LEMMA PgAgrees ==
  ASSUME NEW f, NEW r \in Corpus, ~PgDiffers(f, r)
  PROVE  PgAccepts(f, r) <=> Matches(f, r)
<1>1. ~Given(f, PathNames) /\ ~Given(f, ExcludedPathNames) /\ ~Given(f, ExcludedDocumentNames)
  BY DEF PgDiffers, PathTerms, Given
<1>2. ~DocumentsDiffer(f, r) /\ ~NoneAsked(f, r)
  BY DEF PgDiffers
<1>3. r.project.type \in {"absent", "null", "text", "number"} /\ r.doc.type \in {"absent", "null", "text"}
  BY FilterAssumption DEF FilterAssumption
<1>4. PgPathsAccept(f, r) <=> PathAsked(f, r) /\ DocumentAsked(f, r)
  <2>1. Given(f, DocumentNames) => DocumentExpression(r) = DocumentOf(r)
    BY <1>2, <1>3 DEF DocumentsDiffer, OddDocument, DocumentExpression, DocumentOf, AsString, Missing
  <2> QED BY <1>1, <2>1 DEF PgPathsAccept, PathAsked, DocumentAsked
<1>5. (ProjectsGiven(f) => ~Missing(r.project) /\ r.project.is \in Values(f, ProjectNames))
        <=> ProjectAsked(f, r)
  BY <1>2 DEF ProjectAsked, NoneAsked, AsString, ProjectsGiven
<1>6. (Given(f, ExcludedProjectNames) =>
         Missing(r.project) \/ r.project.is \notin Values(f, ExcludedProjectNames))
        <=> ProjectExcluded(f, r)
  BY DEF ProjectExcluded
<1>7. (/\ "metadata_equals" \in DOMAIN f => ~Missing(r.project) /\ r.project.is = f["metadata_equals"]
       /\ "metadata_in" \in DOMAIN f => ~Missing(r.project) /\ r.project.is \in f["metadata_in"])
        <=> MetadataMatches(f, r)
  BY <1>2 DEF MetadataMatches, NoneAsked, AsString
<1>8. ("exclude_storage_keys" \in DOMAIN f =>
         r.key \notin CandidateStorageKeys(f["exclude_storage_keys"])) <=> ~KeyExcluded(f, r)
  BY DEF KeyExcluded
<1> QED BY <1>4, <1>5, <1>6, <1>7, <1>8, ScopesAgree, MatchesParts DEF PgAccepts, ScopeAsked

\* The SQL of the local store refuses no record that matches, where no path is
\* asked for; and what it accepts matches, but for what it leaves to its callers.
LEMMA SqliteAgrees ==
  ASSUME NEW f, NEW r \in Corpus, ~SqliteDiffers(f, r)
  PROVE  /\ SqliteAccepts(f, r) =>
              /\ ScalarsMatch(f, r) /\ ScopeAsked(f, r)
              /\ ProjectAsked(f, r) /\ ProjectExcluded(f, r)
              /\ PathAsked(f, r) /\ DocumentAsked(f, r)
              /\ "metadata_equals" \in DOMAIN f => AsString(r.project, "None") = f["metadata_equals"]
         /\ (Matches(f, r) /\ ~Given(f, PathNames)) => SqliteAccepts(f, r)
<1>1. ~Given(f, ExcludedPathNames) /\ ~DocumentsDiffer(f, r) /\ ~NoneAsked(f, r)
  BY DEF SqliteDiffers
<1>2. r.project.type \in {"absent", "null", "text", "number"} /\ r.doc.type \in {"absent", "null", "text"}
  BY FilterAssumption DEF FilterAssumption
<1>3. (/\ Given(f, DocumentNames) => DocumentExpression(r) \in Values(f, DocumentNames)
       /\ Given(f, ExcludedDocumentNames) =>
            {DocumentExpression(r), r.sid} \cap Values(f, ExcludedDocumentNames) = {})
        <=> DocumentAsked(f, r)
  <2>1. Given(f, DocumentNames) \/ Given(f, ExcludedDocumentNames) =>
          DocumentExpression(r) = DocumentOf(r)
    BY <1>1, <1>2 DEF DocumentsDiffer, OddDocument, DocumentExpression, DocumentOf, AsString, Missing
  <2> QED BY <2>1 DEF DocumentAsked
<1>4. ("metadata_equals" \in DOMAIN f =>
         r.project.type = "text" /\ r.project.is = f["metadata_equals"])
        <=> ("metadata_equals" \in DOMAIN f => AsString(r.project, "None") = f["metadata_equals"])
  BY <1>1, <1>2 DEF SqliteDiffers, NoneAsked, AsString, Missing
<1>5. SqliteDocumentsAccept(f, r) <=>
        /\ DocumentAsked(f, r)
        /\ "metadata_equals" \in DOMAIN f => AsString(r.project, "None") = f["metadata_equals"]
  BY <1>3, <1>4 DEF SqliteDocumentsAccept
<1>6. SqliteProjectsAccept(f, r) <=> ProjectAsked(f, r) /\ ProjectExcluded(f, r)
  <2>1. (Given(f, ExcludedProjectNames) =>
           Missing(r.project) \/ r.project.is \notin Values(f, ExcludedProjectNames))
          <=> ProjectExcluded(f, r)
    BY DEF ProjectExcluded
  <2>2. CASE Given(f, ProjectNames) /\ Values(f, ProjectNames) = {}
    <3>1. "project_filter" \notin DOMAIN f
      BY <2>2 DEF SqliteDiffers
    <3>2. \E n \in {"project_ids", "project_id"} : n \in DOMAIN f
      BY <2>2, <3>1, NameLists DEF Given
    <3>3. ~ProjectAsked(f, r)
      BY <2>2, <3>1 DEF ProjectAsked, ProjectsGiven
    <3> QED BY <2>2, <3>2, <3>3 DEF SqliteProjectsAccept
  <2>3. CASE Given(f, ProjectNames) /\ Values(f, ProjectNames) # {}
    <3>1. (~Missing(r.project) /\ r.project.is \in Values(f, ProjectNames)) <=> ProjectAsked(f, r)
      BY <1>1, <2>3 DEF ProjectAsked, ProjectsGiven, NoneAsked, AsString
    <3> QED BY <2>1, <2>3, <3>1 DEF SqliteProjectsAccept
  <2>4. CASE ~Given(f, ProjectNames)
    BY <2>1, <2>4 DEF SqliteProjectsAccept, ProjectAsked, ProjectsGiven
  <2> QED BY <2>2, <2>3, <2>4
<1>7. SqlitePathsAccept(f, r) => PathAsked(f, r)
  <2>1. ASSUME NEW paths, RecordPath(r) # NoPath, SqlitePath(r, paths)
        PROVE  RecordPaths(r) \cap AllVariants(paths) # {}
    <3>1. PICK v \in AllVariants(paths) : LikePath(RecordPath(r), v)
      BY <2>1 DEF SqlitePath
    <3>2. v \in PathVariants(RecordPath(r))
      BY <3>1 DEF LikePath, PathVariants
    <3> QED BY <2>1, <3>2 DEF RecordPaths
  <2> QED BY <1>1, <2>1 DEF SqlitePathsAccept, PathAsked
<1>8. ~Given(f, PathNames) => SqlitePathsAccept(f, r)
  BY <1>1 DEF SqlitePathsAccept
<1>9. SqliteAccepts(f, r) <=>
        /\ ScalarsMatch(f, r) /\ ScopeAsked(f, r) /\ ProjectAsked(f, r) /\ ProjectExcluded(f, r)
        /\ SqlitePathsAccept(f, r) /\ DocumentAsked(f, r)
        /\ "metadata_equals" \in DOMAIN f => AsString(r.project, "None") = f["metadata_equals"]
  BY <1>5, <1>6, ScopesAgree DEF SqliteAccepts, ScopeAsked
<1> QED BY <1>7, <1>8, <1>9, MatchesParts DEF MetadataMatches

LEMMA KeywordAgrees ==
  ASSUME NEW f, NEW r \in Corpus, ~SqliteDiffers(f, r), ~Given(f, PathNames)
  PROVE  KeywordAccepts(f, r) <=> Matches(f, r)
<1>1. Matches(f, r) => SqliteAccepts(f, r)
  BY SqliteAgrees
<1>2. ASSUME DOMAIN f \subseteq KeywordSqlNames, SqliteAccepts(f, r) PROVE Matches(f, r)
  <2>1. {"exclude_storage_keys", "metadata_in"} \cap DOMAIN f = {}
    BY <1>2 DEF KeywordSqlNames
  <2>2. ~KeyExcluded(f, r)
    BY <2>1 DEF KeyExcluded
  <2>3. MetadataMatches(f, r)
    BY <1>2, <2>1, SqliteAgrees DEF MetadataMatches
  <2> QED BY <1>2, <2>2, <2>3, SqliteAgrees, MatchesParts
<1> QED BY <1>1, <1>2 DEF KeywordAccepts

\* What the columns of a snapshot hold of a record, the candidate keys aside.
ColumnsMatch(f, r) ==
  /\ r.status \in StatusValues(f)
  /\ "workspace_id" \in DOMAIN f => r.workspace = f["workspace_id"]
  /\ Given(f, SourceNames) => r.kind \in Values(f, SourceNames)

LEMMA ScalarsParts ==
  ASSUME NEW f, NEW r
  PROVE  ScalarsMatch(f, r) <=>
           /\ ColumnsMatch(f, r)
           /\ Given(f, CandidateNames) => r.key \in CandidateStorageKeys(Values(f, CandidateNames))
BY DEF ScalarsMatch, ColumnsMatch

\* Two filters that ask the same of the columns agree on them.
LEMMA ColumnsAlike ==
  ASSUME NEW f, NEW g, NEW r, Alike(f, g, StatusNames), Alike(f, g, SourceNames),
         Alike(f, g, <<"include_inactive">>), Alike(f, g, <<"workspace_id">>)
  PROVE  ColumnsMatch(g, r) <=> ColumnsMatch(f, r)
<1>1. /\ Given(g, StatusNames) <=> Given(f, StatusNames)
      /\ Given(f, StatusNames) => Values(g, StatusNames) = Values(f, StatusNames)
  BY AlikeValues, NameCounts
<1>2. /\ Given(g, SourceNames) <=> Given(f, SourceNames)
      /\ Given(f, SourceNames) => Values(g, SourceNames) = Values(f, SourceNames)
  BY AlikeValues, NameCounts
<1>3. /\ NamesOf(<<"include_inactive">>) = {"include_inactive"}
      /\ NamesOf(<<"workspace_id">>) = {"workspace_id"}
  BY DEF NamesOf
<1>4. /\ "include_inactive" \in DOMAIN g <=> "include_inactive" \in DOMAIN f
      /\ "workspace_id" \in DOMAIN g <=> "workspace_id" \in DOMAIN f
      /\ "workspace_id" \in DOMAIN f => g["workspace_id"] = f["workspace_id"]
  BY <1>3 DEF Alike
<1>5. StatusValues(g) = StatusValues(f)
  BY <1>1, <1>4 DEF StatusValues
<1> QED BY <1>2, <1>4, <1>5 DEF ColumnsMatch

\* The filter without some names keeps the others.
LEMMA WithoutAlike ==
  ASSUME NEW f, NEW gone, NEW names, NamesOf(names) \cap gone = {}
  PROVE  Alike(f, Without(f, gone), names)
BY DEF Alike, Without

MetadataNames == {"metadata_equals", "metadata_in"}

\* The filter handed to SQL for a typed search asks everything but the metadata.
LEMMA WithoutMetadata ==
  ASSUME NEW f, NEW r
  PROVE  LET w == Without(f, MetadataNames)
         IN /\ ScalarsMatch(w, r) <=> ScalarsMatch(f, r)
            /\ ScopeAsked(w, r) <=> ScopeAsked(f, r)
            /\ ProjectAsked(w, r) <=> ProjectAsked(f, r)
            /\ ProjectExcluded(w, r) <=> ProjectExcluded(f, r)
            /\ PathAsked(w, r) <=> PathAsked(f, r)
            /\ DocumentAsked(w, r) <=> DocumentAsked(f, r)
            /\ KeyExcluded(w, r) <=> KeyExcluded(f, r)
            /\ MetadataMatches(w, r)
            /\ Given(w, PathNames) <=> Given(f, PathNames)
            /\ ~SqliteDiffers(f, r) => ~SqliteDiffers(w, r)
<1> DEFINE w == Without(f, MetadataNames)
<1>1. \A names \in {SourceNames, ProjectNames, CandidateNames, StatusNames, PathNames,
                    ExcludedPathNames, DocumentNames, ExcludedDocumentNames,
                    ExcludedProjectNames} :
        NamesOf(names) \cap MetadataNames = {}
  BY NameLists DEF MetadataNames
<1>2. \A names \in {SourceNames, ProjectNames, CandidateNames, StatusNames, PathNames,
                    ExcludedPathNames, DocumentNames, ExcludedDocumentNames,
                    ExcludedProjectNames} :
        /\ Len(names) \in Nat
        /\ Alike(f, w, names)
  BY <1>1, NameCounts, WithoutAlike
<1>3. \A names \in {SourceNames, ProjectNames, CandidateNames, StatusNames, PathNames,
                    ExcludedPathNames, DocumentNames, ExcludedDocumentNames,
                    ExcludedProjectNames} :
        /\ Given(w, names) <=> Given(f, names)
        /\ Given(f, names) => Values(w, names) = Values(f, names)
  BY <1>2, AlikeValues
<1>4. \A n : n \in DOMAIN w <=> n \in DOMAIN f /\ n \notin MetadataNames
  BY DEF Without
<1>5. \A n \in DOMAIN w : w[n] = f[n]
  BY DEF Without
<1>6. /\ "metadata_equals" \notin DOMAIN w /\ "metadata_in" \notin DOMAIN w
      /\ \A n \in {"include_inactive", "workspace_id", "exclude_storage_keys", "project_filter",
                   "source_scoped_filters"} :
           (n \in DOMAIN w <=> n \in DOMAIN f) /\ (n \in DOMAIN f => w[n] = f[n])
  BY <1>4, <1>5 DEF MetadataNames
<1> HIDE DEF w
<1>7. ScalarsMatch(w, r) <=> ScalarsMatch(f, r)
  <2>1. Alike(f, w, <<"include_inactive">>) /\ Alike(f, w, <<"workspace_id">>)
    BY <1>6 DEF Alike, NamesOf
  <2>2. Alike(f, w, StatusNames) /\ Alike(f, w, SourceNames)
    BY <1>2
  <2>3. ColumnsMatch(w, r) <=> ColumnsMatch(f, r)
    BY <2>1, <2>2, ColumnsAlike
  <2> QED BY <1>3, <2>3, ScalarsParts
<1>8. Scoped(w) = Scoped(f)
  BY <1>6 DEF Scoped
<1>9. ProjectsGiven(w) <=> ProjectsGiven(f)
  BY <1>3, <1>6 DEF ProjectsGiven
<1>10. ScopeAsked(w, r) <=> ScopeAsked(f, r)
  BY <1>8 DEF ScopeAsked
<1>11. /\ ProjectAsked(w, r) <=> ProjectAsked(f, r)
       /\ ProjectExcluded(w, r) <=> ProjectExcluded(f, r)
  BY <1>3, <1>9 DEF ProjectAsked, ProjectExcluded, ProjectsGiven
<1>12. PathAsked(w, r) <=> PathAsked(f, r)
  BY <1>3 DEF PathAsked
<1>13. DocumentAsked(w, r) <=> DocumentAsked(f, r)
  BY <1>3 DEF DocumentAsked
<1>14. KeyExcluded(w, r) <=> KeyExcluded(f, r)
  BY <1>6 DEF KeyExcluded
<1>15. MetadataMatches(w, r)
  BY <1>6 DEF MetadataMatches
<1>16. ASSUME ~SqliteDiffers(f, r) PROVE ~SqliteDiffers(w, r)
  <2>1. ~DocumentsDiffer(w, r)
    BY <1>3, <1>16 DEF SqliteDiffers, DocumentsDiffer
  <2>2. ~NoneAsked(w, r)
    BY <1>3, <1>6, <1>16 DEF SqliteDiffers, NoneAsked
  <2> QED BY <1>3, <1>6, <1>16, <2>1, <2>2 DEF SqliteDiffers
<1> QED BY <1>3, <1>7, <1>10, <1>11, <1>12, <1>13, <1>14, <1>15, <1>16 DEF w

\* A filter of scalars and metadata asks nothing else.
LEMMA UntypedMatches ==
  ASSUME NEW f, NEW r, ~Typed(f)
  PROVE  Matches(f, r) <=> ScalarsMatch(f, r) /\ ~KeyExcluded(f, r) /\ MetadataMatches(f, r)
<1>1. /\ DOMAIN Scoped(f) = {} /\ ~ProjectsGiven(f) /\ ~Given(f, ExcludedProjectNames)
      /\ ~Given(f, PathNames) /\ ~Given(f, ExcludedPathNames) /\ ~Given(f, DocumentNames)
      /\ ~Given(f, ExcludedDocumentNames)
  BY DEF Typed
<1>2. ScopeAsked(f, r) /\ ProjectAsked(f, r) /\ ProjectExcluded(f, r) /\ PathAsked(f, r)
        /\ DocumentAsked(f, r)
  BY <1>1 DEF ScopeAsked, ProjectAsked, ProjectExcluded, PathAsked, DocumentAsked
<1> QED BY <1>2, MatchesParts

LEMMA SnapshotAgrees ==
  ASSUME NEW f, NEW r, ~Typed(f)
  PROVE  /\ ~ExclusionLost(f) => (SnapshotAccepts(f, r) <=> Matches(f, r))
         /\ SnapshotAccepts(f, r) => ScalarsMatch(f, r)
<1>1. CASE DOMAIN f \subseteq ScalarNames
  <2>1. DOMAIN f \cap {"exclude_storage_keys", "metadata_equals", "metadata_in"} = {}
    BY <1>1 DEF ScalarNames
  <2>2. ~KeyExcluded(f, r) /\ MetadataMatches(f, r)
    BY <2>1 DEF KeyExcluded, MetadataMatches
  <2> QED BY <1>1, <2>2, UntypedMatches DEF SnapshotAccepts
<1>2. CASE ~(DOMAIN f \subseteq ScalarNames) /\ MetadataOnly(f)
  <2>1. ~ExclusionLost(f) => ~KeyExcluded(f, r)
    BY <1>2 DEF ExclusionLost, MetadataOnly, KeyExcluded
  <2> QED BY <1>2, <2>1, UntypedMatches DEF SnapshotAccepts
<1>3. CASE ~(DOMAIN f \subseteq ScalarNames) /\ ~MetadataOnly(f)
  BY <1>3, UntypedMatches DEF SnapshotAccepts
<1> QED BY <1>1, <1>2, <1>3

\* What is pushed down asks of the record what SQL accepted, and the metadata.
LEMMA PushedParts ==
  ASSUME NEW f, NEW r \in Corpus
  PROVE  LET g == Pushed(f)
             w == Without(f, MetadataNames)
         IN /\ ~Typed(g)
            /\ ExclusionLost(g) <=> ExclusionLost(f)
            /\ KeyExcluded(g, r) <=> KeyExcluded(f, r)
            /\ MetadataMatches(g, r) <=> MetadataMatches(f, r)
            /\ ScalarsMatch(g, r) <=> SqliteAccepts(w, r)
<1> DEFINE g == Pushed(f)
           w == Without(f, MetadataNames)
           gone == TypedNames \cup NamesOf(CandidateNames)
           key == "candidate_storage_keys"
<1>1. /\ DOMAIN g = (DOMAIN f \ gone) \cup {key}
      /\ \A n \in DOMAIN f \ gone : n # key => g[n] = f[n]
      /\ g[key] = Eligible(f)
  BY DEF Pushed, Without
<1>2. TypedNames =
        NamesOf(ExcludedPathNames) \cup NamesOf(ExcludedProjectNames)
          \cup NamesOf(ExcludedDocumentNames) \cup NamesOf(DocumentNames) \cup NamesOf(PathNames)
          \cup NamesOf(ProjectNames) \cup {"source_scoped_filters"}
  <2> DEFINE lists == {ExcludedPathNames, ExcludedProjectNames, ExcludedDocumentNames,
                       DocumentNames, PathNames, ProjectNames}
  <2>1. \A n : n \in UNION {NamesOf(names) : names \in lists} <=> \E l \in lists : n \in NamesOf(l)
    <3> HIDE DEF lists
    <3> QED OBVIOUS
  <2>2. \A n : n \in TypedNames <=>
          n \in UNION {NamesOf(names) : names \in lists} \/ n = "source_scoped_filters"
    BY DEF TypedNames
  <2>3. \A n : (\E l \in lists : n \in NamesOf(l)) <=>
          \/ n \in NamesOf(ExcludedPathNames) \/ n \in NamesOf(ExcludedProjectNames)
          \/ n \in NamesOf(ExcludedDocumentNames) \/ n \in NamesOf(DocumentNames)
          \/ n \in NamesOf(PathNames) \/ n \in NamesOf(ProjectNames)
    OBVIOUS
  <2> HIDE DEF lists
  <2> QED BY <2>1, <2>2, <2>3
<1>3. key \notin TypedNames
  BY <1>2, NameLists
<1>4. \A n \in TypedNames : n \notin DOMAIN g
  BY <1>1, <1>3
<1>5. \A names \in {ExcludedPathNames, ExcludedProjectNames, ExcludedDocumentNames, DocumentNames,
                    PathNames, ProjectNames} : ~Given(g, names)
  BY <1>2, <1>4 DEF Given
<1>6. Scoped(g) = <<>> /\ DOMAIN Scoped(g) = {}
  <2>1. "source_scoped_filters" \notin DOMAIN g
    BY <1>2, <1>4
  <2> QED BY <2>1 DEF Scoped
<1>7. ~Typed(g)
  BY <1>5, <1>6 DEF Typed, ProjectsGiven
<1>8. \A n \in {"include_inactive", "workspace_id", "exclude_storage_keys", "metadata_equals",
                "metadata_in"} \cup NamesOf(StatusNames) \cup NamesOf(SourceNames) :
        n \notin gone /\ n # key
  BY <1>2, NameLists
<1>9. \A n \in {"include_inactive", "workspace_id", "exclude_storage_keys", "metadata_equals",
                "metadata_in"} \cup NamesOf(StatusNames) \cup NamesOf(SourceNames) :
        (n \in DOMAIN g <=> n \in DOMAIN f) /\ (n \in DOMAIN g => g[n] = f[n])
  <2> HIDE DEF gone, key, g
  <2> QED BY <1>1, <1>8
<1> HIDE DEF gone, key
<1>10. g["exclude_storage_keys"] = f["exclude_storage_keys"] \/ "exclude_storage_keys" \notin DOMAIN g
  BY <1>9
<1>11. KeyExcluded(g, r) <=> KeyExcluded(f, r)
  BY <1>9 DEF KeyExcluded
<1>12. MetadataMatches(g, r) <=> MetadataMatches(f, r)
  BY <1>9 DEF MetadataMatches
<1>13. ExclusionLost(g) <=> ExclusionLost(f)
  BY <1>9 DEF ExclusionLost
<1>14. ColumnsMatch(g, r) <=> ColumnsMatch(f, r)
  <2>1. Alike(f, g, StatusNames) /\ Alike(f, g, SourceNames)
    BY <1>9 DEF Alike
  <2>2. Alike(f, g, <<"include_inactive">>) /\ Alike(f, g, <<"workspace_id">>)
    BY <1>9 DEF Alike, NamesOf
  <2> QED BY <2>1, <2>2, ColumnsAlike
<1>15. Given(g, CandidateNames) /\ Values(g, CandidateNames) = Eligible(f)
  <2>1. Len(CandidateNames) = 2 /\ CandidateNames[1] = "candidate_ids"
          /\ CandidateNames[2] = "candidate_storage_keys"
    BY DEF CandidateNames
  <2>2. "candidate_ids" \notin DOMAIN g /\ key \in DOMAIN g
    BY <1>1, NameLists DEF gone, key
  <2>3. Given(g, CandidateNames)
    BY <2>2, NameLists DEF Given, key
  <2>4. First(g, CandidateNames) \in 1..2 /\ CandidateNames[First(g, CandidateNames)] \in DOMAIN g
    BY <2>1, <2>3, FirstGiven
  <2>5. First(g, CandidateNames) = 2
    BY <2>1, <2>2, <2>4
  <2> QED BY <1>1, <2>1, <2>3, <2>5 DEF Values, key
<1>16. r.key \in CandidateStorageKeys(Eligible(f)) <=> SqliteAccepts(w, r)
  <2>1. r.key \in CandidateStorageKeys(Eligible(f)) <=> r.key \in Eligible(f)
    BY DEF CandidateStorageKeys
  <2>2. r.key \in Eligible(f) <=> \E x \in Corpus : SqliteAccepts(w, x) /\ x.key = r.key
    BY DEF Eligible, MetadataNames
  <2>3. \A x \in Corpus : x.key = r.key => x = r
    BY FilterAssumption DEF FilterAssumption
  <2> QED BY <2>1, <2>2, <2>3
<1>17. SqliteAccepts(w, r) => ColumnsMatch(f, r)
  BY WithoutMetadata, ScalarsParts DEF SqliteAccepts
<1>18. ScalarsMatch(g, r) <=> SqliteAccepts(w, r)
  BY <1>14, <1>15, <1>16, <1>17, ScalarsParts
<1> QED BY <1>7, <1>11, <1>12, <1>13, <1>18

\* What SQL accepted of a typed search, and the rest of its filter, is what matches.
LEMMA PushedAgrees ==
  ASSUME NEW f, NEW r \in Corpus, ~SqliteDiffers(f, r)
  PROVE  /\ Matches(Pushed(f), r) => Matches(f, r)
         /\ (~Given(f, PathNames) /\ Matches(f, r)) => Matches(Pushed(f), r)
<1> DEFINE w == Without(f, MetadataNames)
<1>1. Matches(Pushed(f), r)
        <=> SqliteAccepts(w, r) /\ ~KeyExcluded(f, r) /\ MetadataMatches(f, r)
  BY PushedParts, UntypedMatches
<1>2. ~SqliteDiffers(w, r)
  BY WithoutMetadata
<1>3. ASSUME Matches(Pushed(f), r) PROVE Matches(f, r)
  BY <1>1, <1>2, <1>3, SqliteAgrees, WithoutMetadata, MatchesParts
<1>4. ASSUME ~Given(f, PathNames), Matches(f, r) PROVE Matches(Pushed(f), r)
  <2>1. Matches(w, r)
    BY <1>4, WithoutMetadata, MatchesParts
  <2>2. SqliteAccepts(w, r)
    BY <1>2, <1>4, <2>1, WithoutMetadata, SqliteAgrees
  <2> QED BY <1>1, <1>4, <2>2, MatchesParts
<1> QED BY <1>3, <1>4

\* What no SQL filter lets through.
LEMMA SqliteScoped ==
  ASSUME NEW f, NEW r, SqliteAccepts(f, r)
  PROVE  ScalarsMatch(f, r) /\ ScopeAsked(f, r)
BY ScopesAgree DEF SqliteAccepts, ScopeAsked

LEMMA PushedScoped ==
  ASSUME NEW f, NEW r \in Corpus, ScalarsMatch(Pushed(f), r)
  PROVE  ScalarsMatch(f, r) /\ ScopeAsked(f, r)
BY PushedParts, SqliteScoped, WithoutMetadata

LEMMA FaissAgrees ==
  ASSUME NEW f, NEW r, DOMAIN Scoped(f) = {}
  PROVE  FaissAccepts(f, r) <=> Matches(f, r)
<1>1. CASE IdOnly(f)
  <2>1. ~KeyExcluded(f, r) /\ MetadataMatches(f, r)
    BY <1>1 DEF IdOnly, KeyExcluded, MetadataMatches
  <2>2. ScalarsMatch(f, r) <=> r.status \in StatusValues(f)
    BY <1>1 DEF IdOnly, ScalarsMatch
  <2>3. ~Typed(f)
    BY <1>1 DEF IdOnly
  <2> QED BY <1>1, <2>1, <2>2, <2>3, UntypedMatches DEF FaissAccepts
<1>2. CASE ~IdOnly(f) /\ ScalarMask(f)
  <2>1. ~KeyExcluded(f, r) /\ MetadataMatches(f, r)
    BY <1>2 DEF ScalarMask, KeyExcluded, MetadataMatches
  <2>2. ScalarsMatch(f, r) <=>
          r.workspace = f["workspace_id"] /\ r.kind \in Values(f, SourceNames) /\ r.status = "active"
    BY <1>2 DEF ScalarMask, ScalarsMatch
  <2>3. ~Typed(f)
    BY <1>2 DEF ScalarMask
  <2> QED BY <1>2, <2>1, <2>2, <2>3, UntypedMatches DEF FaissAccepts
<1> QED BY <1>1, <1>2 DEF FaissAccepts

LEMMA FilterAgrees ==
  ASSUME NEW f, NEW r \in Corpus
  PROVE  /\ ~PgDiffers(f, r) => PgAccepts(f, r) = Matches(f, r)
         /\ (Typed(f) /\ ~SqliteDiffers(f, r)) => (BlockAccepts(f, r) => Matches(f, r))
         /\ (~SqliteDiffers(f, r) /\ ~Given(f, PathNames)) => KeywordAccepts(f, r) = Matches(f, r)
         /\ (Typed(f) => ~SqliteDiffers(f, r) /\ ~Given(f, PathNames)) =>
               /\ BlockAccepts(f, r) = Matches(f, r)
               /\ ~ExclusionLost(f) => VectorAccepts(f, r) = Matches(f, r)
         /\ DOMAIN Scoped(f) = {} => FaissAccepts(f, r) = Matches(f, r)
<1>1. /\ PgAccepts(f, r) \in BOOLEAN /\ KeywordAccepts(f, r) \in BOOLEAN
      /\ BlockAccepts(f, r) \in BOOLEAN /\ Matches(f, r) \in BOOLEAN
  BY DEF PgAccepts, KeywordAccepts, BlockAccepts, Matches
<1>2. VectorAccepts(f, r) \in BOOLEAN
  BY DEF VectorAccepts, SnapshotAccepts, Matches, ScalarsMatch
<1>3. FaissAccepts(f, r) \in BOOLEAN
  <2>1. CASE DOMAIN Scoped(f) # {}
    BY <1>2, <2>1 DEF FaissAccepts
  <2>2. CASE DOMAIN Scoped(f) = {} /\ IdOnly(f)
    <3>1. (r.status \in StatusValues(f)) \in BOOLEAN
      OBVIOUS
    <3> QED BY <2>2, <3>1 DEF FaissAccepts
  <2>3. CASE DOMAIN Scoped(f) = {} /\ ~IdOnly(f)
    BY <1>1, <2>3 DEF FaissAccepts
  <2> QED BY <2>1, <2>2, <2>3
<1>4. ASSUME ~PgDiffers(f, r) PROVE PgAccepts(f, r) = Matches(f, r)
  BY <1>1, <1>4, PgAgrees
<1>5. ASSUME Typed(f), ~SqliteDiffers(f, r), BlockAccepts(f, r) PROVE Matches(f, r)
  BY <1>5, PushedAgrees DEF BlockAccepts
<1>6. ASSUME ~SqliteDiffers(f, r), ~Given(f, PathNames)
      PROVE  KeywordAccepts(f, r) = Matches(f, r)
  BY <1>1, <1>6, KeywordAgrees
<1>7. ASSUME Typed(f) => ~SqliteDiffers(f, r) /\ ~Given(f, PathNames)
      PROVE  /\ BlockAccepts(f, r) = Matches(f, r)
             /\ ~ExclusionLost(f) => VectorAccepts(f, r) = Matches(f, r)
  <2>1. CASE Typed(f)
    <3>1. Matches(Pushed(f), r) <=> Matches(f, r)
      BY <1>7, <2>1, PushedAgrees
    <3>2. ~ExclusionLost(f) => (SnapshotAccepts(Pushed(f), r) <=> Matches(Pushed(f), r))
      BY PushedParts, SnapshotAgrees
    <3> QED BY <1>1, <1>2, <2>1, <3>1, <3>2 DEF BlockAccepts, VectorAccepts
  <2>2. CASE ~Typed(f)
    BY <1>1, <1>2, <2>2, SnapshotAgrees DEF BlockAccepts, VectorAccepts
  <2> QED BY <2>1, <2>2
<1>8. ASSUME DOMAIN Scoped(f) = {} PROVE FaissAccepts(f, r) = Matches(f, r)
  BY <1>1, <1>3, <1>8, FaissAgrees
<1> QED BY <1>4, <1>5, <1>6, <1>7, <1>8

LEMMA ScopeRefuses ==
  ASSUME NEW f, NEW r \in Corpus
  PROVE  /\ (~ScalarsMatch(f, r) \/ ~ScopeAsked(f, r) \/ KeyExcluded(f, r)) =>
              ~PgAccepts(f, r) /\ ~KeywordAccepts(f, r) /\ ~BlockAccepts(f, r)
         /\ (~ScalarsMatch(f, r) \/ ~ScopeAsked(f, r) \/ (KeyExcluded(f, r) /\ ~ExclusionLost(f))) =>
              ~VectorAccepts(f, r) /\ ~FaissAccepts(f, r)
<1>1. ASSUME PgAccepts(f, r)
      PROVE  ScalarsMatch(f, r) /\ ScopeAsked(f, r) /\ ~KeyExcluded(f, r)
  BY <1>1, ScopesAgree DEF PgAccepts, ScopeAsked, KeyExcluded
<1>2. ASSUME KeywordAccepts(f, r)
      PROVE  ScalarsMatch(f, r) /\ ScopeAsked(f, r) /\ ~KeyExcluded(f, r)
  <2>1. ScalarsMatch(f, r) /\ ScopeAsked(f, r)
    BY <1>2, SqliteScoped DEF KeywordAccepts
  <2>2. DOMAIN f \subseteq KeywordSqlNames => ~KeyExcluded(f, r)
    BY DEF KeywordSqlNames, KeyExcluded
  <2> QED BY <1>2, <2>1, <2>2, MatchesParts DEF KeywordAccepts
<1>3. ASSUME BlockAccepts(f, r)
      PROVE  ScalarsMatch(f, r) /\ ScopeAsked(f, r) /\ ~KeyExcluded(f, r)
  <2>1. CASE Typed(f)
    <3>1. ScalarsMatch(Pushed(f), r) /\ ~KeyExcluded(Pushed(f), r)
      BY <1>3, <2>1, MatchesParts DEF BlockAccepts
    <3> QED BY <3>1, PushedParts, PushedScoped
  <2>2. CASE ~Typed(f)
    BY <1>3, <2>2, MatchesParts DEF BlockAccepts
  <2> QED BY <2>1, <2>2
<1>4. ASSUME VectorAccepts(f, r)
      PROVE  /\ ScalarsMatch(f, r) /\ ScopeAsked(f, r)
             /\ ~ExclusionLost(f) => ~KeyExcluded(f, r)
  <2>1. CASE Typed(f)
    <3>1. SnapshotAccepts(Pushed(f), r)
      BY <1>4, <2>1 DEF VectorAccepts
    <3>2. ScalarsMatch(Pushed(f), r)
      BY <3>1, PushedParts, SnapshotAgrees
    <3>3. ~ExclusionLost(f) => ~KeyExcluded(f, r)
      BY <3>1, PushedParts, SnapshotAgrees, MatchesParts
    <3> QED BY <3>2, <3>3, PushedScoped
  <2>2. CASE ~Typed(f)
    <3>1. SnapshotAccepts(f, r)
      BY <1>4, <2>2 DEF VectorAccepts
    <3>2. ScopeAsked(f, r)
      BY <2>2 DEF Typed, ScopeAsked
    <3> QED BY <2>2, <3>1, <3>2, SnapshotAgrees, MatchesParts
  <2> QED BY <2>1, <2>2
<1>5. ASSUME FaissAccepts(f, r)
      PROVE  /\ ScalarsMatch(f, r) /\ ScopeAsked(f, r)
             /\ ~ExclusionLost(f) => ~KeyExcluded(f, r)
  <2>1. CASE DOMAIN Scoped(f) # {}
    BY <1>4, <1>5, <2>1 DEF FaissAccepts
  <2>2. CASE DOMAIN Scoped(f) = {}
    BY <1>5, <2>2, FaissAgrees, MatchesParts
  <2> QED BY <2>1, <2>2
<1> QED BY <1>1, <1>2, <1>3, <1>4, <1>5

FilterSpec == FilterInit /\ [][FilterNext]_filterVars

\* Whatever names a search gives, in whatever combination and with whatever
\* values: outside the listed differences the six translations of a filter accept
\* the same records, and none returns what the scope refuses.
THEOREM FiltersAgree == FilterSpec => []FiltersHold
<1>1. StoresAgree
  BY FilterAgrees DEF StoresAgree
<1>2. ScopeIsKept
  BY ScopeRefuses DEF ScopeIsKept, ScopeAsked, KeyExcluded
<1>3. FiltersHold
  BY <1>1, <1>2 DEF FiltersHold
<1> QED BY <1>3, PTL DEF FilterSpec

-----------------------------------------------------------------------------
(* The PostgreSQL stores                                                   *)


USE PgAssumption DEF PgAssumption

-----------------------------------------------------------------------------
(* The inductive invariant                                                 *)

PgSpec == PgInit /\ [][PgNext]_pgVars

Tables == Models \X Dims

\* A transaction on a model's table names a model and a dimension, and an
\* upsert the version it writes.
Named(p) ==
  /\ tx[p].call \in {"upsert", "delete_for_model"} =>
       tx[p].model \in Models /\ tx[p].dim \in Dims
  /\ tx[p].call = "upsert" => tx[p].version \in PgVersions

\* A deletion that has locked the vectors of its keys knows every vector of
\* them, but for those that were committed since.
DeleteKnows(p) ==
  tx[p].call = "delete" /\ tx[p].step = "records" =>
    \A t \in registry, k \in tx[p].keys :
      vectors[t][k] # 0 => VectorRow(t, k) \in tx[p].locks \cup tx[p].overtaken

\* A deletion for one model has chosen records whose vectors it deletes, and
\* of which no other model had one.
ModelKnows(p) ==
  tx[p].call = "delete_for_model" /\ tx[p].step = "wait" =>
    /\ tx[p].gone \subseteq tx[p].keys
    /\ \A t \in registry \ {Table(p)}, k \in tx[p].gone :
         vectors[t][k] # 0 => VectorRow(t, k) \in tx[p].overtaken

Knows(p) == Named(p) /\ DeleteKnows(p) /\ ModelKnows(p)

IInv ==
  /\ PgTypeOK
  /\ RememberedTablesExist
  /\ \A p \in Processes : Knows(p)

-----------------------------------------------------------------------------
LEMMA NoTxTyped == NoTx \in Transactions
  BY DEF NoTx, Transactions

LEMMA InitIInv == PgInit => IInv
<1> SUFFICES ASSUME PgInit PROVE IInv
  OBVIOUS
<1>1. PgTypeOK
  BY NoTxTyped DEF PgInit, PgTypeOK, Lanes
<1>2. RememberedTablesExist
  BY DEF PgInit, RememberedTablesExist, Present
<1>3. \A p \in Processes : tx[p].call = "none"
  BY DEF PgInit, NoTx
<1> QED BY <1>1, <1>2, <1>3 DEF IInv, Knows, Named, DeleteKnows, ModelKnows

\* The helpers on maps from keys, and on epochs.
LEMMA MapsTyped ==
  ASSUME NEW S, NEW t \in [PgKeys -> S \cup {0}], NEW keys, NEW v \in S
  PROVE  Put(t, keys, v) \in [PgKeys -> S \cup {0}] /\ Clear(t, keys) \in [PgKeys -> S \cup {0}]
  BY DEF Put, Clear

LEMMA BumpTyped ==
  ASSUME epochs \in [Lanes -> Nat], NEW a, NEW b, NEW c, Bump(a, b, c)
  PROVE  epochs' \in [Lanes -> Nat]
<1>1. \A l \in Lanes, x \in {0, 1} : epochs[l] + x \in Nat
  OBVIOUS
<1> QED BY <1>1 DEF Bump

-----------------------------------------------------------------------------
\* Steps of a transaction that commit nothing.
LEMMA QuietKeeps ==
  ASSUME IInv, NEW p \in Processes, NEW next \in Transactions,
         tx' = [tx EXCEPT ![p] = next],
         UNCHANGED <<pgData, tables>>, calls' \in 0..MaxCalls,
         Knows(p)'
  PROVE  IInv'
<1>1. PgTypeOK'
  BY DEF IInv, PgTypeOK, pgData
<1>2. RememberedTablesExist'
  BY DEF IInv, RememberedTablesExist, Present, pgData
<1>3. ASSUME NEW q \in Processes, q # p PROVE Knows(q)'
  <2>1. tx'[q] = tx[q]
    BY <1>3 DEF IInv, PgTypeOK
  <2> QED BY <1>3, <2>1 DEF IInv, Knows, Named, DeleteKnows, ModelKnows, Table, pgData
<1> QED BY <1>1, <1>2, <1>3 DEF IInv

\* Commits that end p's transaction and only take vectors away.
LEMMA EndKeeps ==
  ASSUME IInv, NEW p \in Processes, End(p),
         records' \in [PgKeys -> PgVersions \cup {0}],
         projection' \in [PgKeys -> PgVersions \cup {0}],
         vectors' \in [Tables -> [PgKeys -> PgVersions \cup {0}]],
         \A t \in Tables, k \in PgKeys : vectors'[t][k] # 0 => vectors'[t][k] = vectors[t][k],
         edges' \subseteq PgKeys \X PgKeys, epochs' \in [Lanes -> Nat],
         UNCHANGED <<registry, tables, calls>>
  PROVE  IInv'
<1>0. NoTx.call = "none"
  BY DEF NoTx
<1>1. PgTypeOK'
  BY NoTxTyped DEF IInv, PgTypeOK, End, Tables
<1>2. RememberedTablesExist'
  BY DEF IInv, RememberedTablesExist, Present, Tables
<1>3. ASSUME NEW q \in Processes PROVE Knows(q)'
  <2>1. tx'[q] = IF q = p THEN NoTx ELSE tx[q]
    BY DEF IInv, PgTypeOK, End
  <2>2. CASE q = p
    BY <1>0, <2>1, <2>2 DEF Knows, Named, DeleteKnows, ModelKnows
  <2>3. CASE q # p
    <3>1. tx[q] \in Transactions /\ registry \subseteq Tables
      BY DEF IInv, PgTypeOK, Tables
    <3>2. tx[q].keys \subseteq PgKeys /\ tx[q].gone \subseteq PgKeys
      BY <3>1 DEF Transactions
    <3>3. tx'[q] = tx[q] /\ Table(q)' = Table(q) /\ Knows(q)
      BY <2>1, <2>3 DEF IInv, Table
    <3>4. Named(q)'
      BY <3>3 DEF Knows, Named
    <3>5. DeleteKnows(q)'
      BY <3>1, <3>2, <3>3 DEF Knows, DeleteKnows
    <3>6. ModelKnows(q)'
      BY <3>1, <3>2, <3>3 DEF Knows, ModelKnows
    <3> QED BY <3>4, <3>5, <3>6 DEF Knows
  <2> QED BY <2>2, <2>3
<1> QED BY <1>1, <1>2, <1>3 DEF IInv

-----------------------------------------------------------------------------
LEMMA BeginKeeps ==
  ASSUME IInv, NEW p \in Processes,
         BeginUpsert(p) \/ BeginIndex(p) \/ BeginDelete(p) \/ BeginDeleteForModel(p)
  PROVE  IInv'
<1>0. calls' \in 0..MaxCalls
  <2>1. calls < MaxCalls /\ calls' = calls + 1
    BY DEF BeginUpsert, BeginIndex, BeginDelete, BeginDeleteForModel, Begin
  <2> QED BY <2>1 DEF IInv, PgTypeOK
<1>1. PICK call \in {"upsert", "index", "delete", "delete_for_model"}, keys \in SUBSET PgKeys,
           m \in Models \cup {""}, d \in Dims \cup {0}, v \in PgVersions \cup {0} :
        /\ Begin(p, call, keys, m, d, v)
        /\ call \in {"upsert", "delete_for_model"} => m \in Models /\ d \in Dims
        /\ call = "upsert" => v \in PgVersions
  BY DEF BeginUpsert, BeginIndex, BeginDelete, BeginDeleteForModel
<1> DEFINE next == [NoTx EXCEPT !.call = call, !.keys = keys, !.model = m, !.dim = d,
                                !.version = v]
<1>2. /\ next \in Transactions /\ next.call = call /\ next.step = "begin"
      /\ next.model = m /\ next.dim = d /\ next.version = v
  BY DEF NoTx, Transactions
<1>3. tx' = [tx EXCEPT ![p] = next] /\ UNCHANGED <<pgData, tables>>
  BY <1>1 DEF Begin
<1> HIDE DEF next
<1>4. Knows(p)'
  <2>1. tx'[p] = next
    BY <1>3 DEF IInv, PgTypeOK
  <2>2. tx'[p].step = "begin" /\ Named(p)'
    BY <1>1, <1>2, <2>1 DEF Named
  <2> QED BY <2>2 DEF Knows, DeleteKnows, ModelKnows
<1> QED BY <1>0, <1>2, <1>3, <1>4, QuietKeeps

\* A transaction that fails or has nothing to do leaves everything as it was.
LEMMA QuitKeeps ==
  ASSUME IInv, NEW p \in Processes, End(p), UNCHANGED <<pgData, tables, calls>>
  PROVE  IInv'
<1>1. tx'[p] = NoTx /\ calls' \in 0..MaxCalls /\ NoTx.call = "none"
  BY DEF IInv, PgTypeOK, End, NoTx
<1>2. Knows(p)'
  BY <1>1 DEF Knows, Named, DeleteKnows, ModelKnows
<1> QED BY <1>1, <1>2, NoTxTyped, QuietKeeps DEF End

\* The first statements of upsert.
LEMMA UpsertStepsKeep ==
  ASSUME IInv, NEW p \in Processes, EnsureTable(p) \/ UpsertRecords(p)
  PROVE  IInv'
<1>1. tx[p] \in Transactions /\ tx[p].call = "upsert" /\ Named(p)
      /\ UNCHANGED <<pgData, tables>> /\ calls' \in 0..MaxCalls
  BY DEF IInv, PgTypeOK, Knows, EnsureTable, UpsertRecords, Step
<1>2. PICK next \in Transactions :
        /\ tx' = [tx EXCEPT ![p] = next]
        /\ next.call = "upsert" /\ next.model = tx[p].model /\ next.dim = tx[p].dim
        /\ next.version = tx[p].version
  <2>1. CASE EnsureTable(p)
    <3> DEFINE next == [tx[p] EXCEPT !.step = "records"]
    <3>1. next \in Transactions /\ next.call = tx[p].call /\ next.model = tx[p].model
          /\ next.dim = tx[p].dim /\ next.version = tx[p].version
      BY <1>1 DEF Transactions
    <3>2. tx' = [tx EXCEPT ![p] = next]
      BY <2>1 DEF EnsureTable
    <3> HIDE DEF next
    <3> QED BY <1>1, <3>1, <3>2
  <2>2. CASE UpsertRecords(p)
    <3> DEFINE next == [tx[p] EXCEPT !.step = "vectors",
                          !.locks = @ \cup RecordRows(tx[p].keys),
                          !.changed = Changed(records, tx[p].keys, tx[p].version)]
    <3>1. tx[p].keys \subseteq PgKeys /\ tx[p].locks \subseteq Rows
      BY <1>1 DEF Transactions
    <3>2. RecordRows(tx[p].keys) \subseteq Rows
          /\ Changed(records, tx[p].keys, tx[p].version) \subseteq PgKeys
      BY <3>1 DEF RecordRows, Rows, Changed
    <3>3. next \in Transactions /\ next.call = tx[p].call /\ next.model = tx[p].model
          /\ next.dim = tx[p].dim /\ next.version = tx[p].version
      BY <1>1, <3>1, <3>2 DEF Transactions
    <3>4. tx' = [tx EXCEPT ![p] = next]
      BY <2>2 DEF UpsertRecords
    <3> HIDE DEF next
    <3> QED BY <1>1, <3>3, <3>4
  <2> QED BY <2>1, <2>2
<1>3. Knows(p)'
  <2>1. tx'[p] = next
    BY <1>2 DEF IInv, PgTypeOK
  <2> QED BY <1>1, <1>2, <2>1 DEF Knows, Named, DeleteKnows, ModelKnows
<1> QED BY <1>1, <1>2, <1>3, QuietKeeps

\* The commit of upsert: every deletion under way hears of its vectors.
LEMMA UpsertKeeps ==
  ASSUME IInv, NEW p \in Processes, UpsertVectors(p)
  PROVE  IInv'
<1> DEFINE keys == tx[p].keys
           heard(q) == [tx[q] EXCEPT !.overtaken = @ \cup VectorRows({Table(p)}, keys)]
<1>1. /\ tx[p] \in Transactions /\ tx[p].call = "upsert"
      /\ tx[p].model \in Models /\ tx[p].dim \in Dims /\ Table(p) \in Tables
  BY DEF IInv, PgTypeOK, Knows, Named, UpsertVectors, Step, Table, Tables
<1>2. keys \subseteq PgKeys /\ tx[p].version \in PgVersions \cup {0}
  BY <1>1 DEF Transactions
<1>3. VectorRows({Table(p)}, keys) \subseteq Rows
  BY <1>1, <1>2 DEF VectorRows, Rows, Tables
<1>4. ASSUME NEW q \in Processes
      PROVE  /\ heard(q) \in Transactions /\ heard(q).call = tx[q].call
             /\ heard(q).step = tx[q].step /\ heard(q).keys = tx[q].keys
             /\ heard(q).model = tx[q].model /\ heard(q).dim = tx[q].dim
             /\ heard(q).version = tx[q].version
             /\ heard(q).locks = tx[q].locks /\ heard(q).gone = tx[q].gone
             /\ heard(q).overtaken = tx[q].overtaken \cup VectorRows({Table(p)}, keys)
  <2>1. tx[q] \in Transactions
    BY DEF IInv, PgTypeOK
  <2> QED BY <1>3, <2>1 DEF Transactions
<1> HIDE DEF heard
<1>5. \A q \in Processes :
        tx'[q] = IF q = p THEN NoTx
                 ELSE IF tx[q].call \in {"delete", "delete_for_model"} THEN heard(q) ELSE tx[q]
  BY DEF UpsertVectors, heard
<1>6. PgTypeOK'
  <2>1. tx' \in [Processes -> Transactions]
    <3>1. \A q \in Processes : tx'[q] \in Transactions
      BY <1>4, <1>5, NoTxTyped DEF IInv, PgTypeOK
    <3>2. DOMAIN tx' = Processes /\ tx' = [q \in DOMAIN tx' |-> tx'[q]]
      BY DEF UpsertVectors
    <3> QED BY <3>1, <3>2
  <2>2. /\ records' \in [PgKeys -> PgVersions \cup {0}]
        /\ projection' \in [PgKeys -> PgVersions \cup {0}]
        /\ vectors' \in [Models \X Dims -> [PgKeys -> PgVersions \cup {0}]]
    BY <1>1, <1>2, ZenonT(60) DEF UpsertVectors, IInv, PgTypeOK, Put
  <2>3. registry' \subseteq Models \X Dims
    BY <1>1 DEF UpsertVectors, IInv, PgTypeOK, Tables
  <2>4. epochs' \in [Lanes -> Nat]
    BY BumpTyped DEF UpsertVectors, BumpUpsert, IInv, PgTypeOK
  <2>5. tables' \in [Processes -> [Models -> Dims \cup {0}]]
    BY <1>1 DEF UpsertVectors, IInv, PgTypeOK
  <2>6. edges' \subseteq PgKeys \X PgKeys /\ calls' \in 0..MaxCalls
    BY DEF UpsertVectors, IInv, PgTypeOK
  <2> QED BY <2>1, <2>2, <2>3, <2>4, <2>5, <2>6 DEF PgTypeOK
<1>7. /\ registry' = registry \cup {Table(p)}
      /\ \A t \in Tables, k \in PgKeys :
           vectors'[t][k] # 0 => vectors[t][k] # 0 \/ (t = Table(p) /\ k \in keys)
  BY <1>1 DEF UpsertVectors, IInv, PgTypeOK, Put, Tables
<1>8. RememberedTablesExist'
  <2>1. ASSUME NEW q \in Processes, NEW m \in Models, tables'[q][m] # 0
        PROVE  <<m, tables'[q][m]>> \in registry'
    BY <1>1, <1>7, <2>1 DEF UpsertVectors, IInv, PgTypeOK, RememberedTablesExist, Table
  <2>2. ASSUME NEW t \in Models \X Dims, t \notin registry'
        PROVE  Present(vectors'[t], PgKeys) = {}
    BY <1>7, <2>2 DEF IInv, RememberedTablesExist, Present, Tables
  <2> QED BY <2>1, <2>2 DEF RememberedTablesExist
<1>9. ASSUME NEW q \in Processes PROVE Knows(q)'
  <2>1. CASE q = p
    <3>1. tx'[q] = NoTx /\ NoTx.call = "none"
      BY <1>5, <2>1 DEF NoTx
    <3> QED BY <3>1 DEF Knows, Named, DeleteKnows, ModelKnows
  <2>2. CASE q # p /\ tx[q].call \notin {"delete", "delete_for_model"}
    <3>1. tx'[q] = tx[q]
      BY <1>5, <2>2
    <3> QED BY <2>2, <3>1 DEF IInv, Knows, Named, DeleteKnows, ModelKnows
  <2>3. CASE q # p /\ tx[q].call \in {"delete", "delete_for_model"}
    <3>1. tx'[q] = heard(q) /\ Table(q)' = Table(q)
      BY <1>4, <1>5, <2>3 DEF Table
    <3>2. tx[q].keys \subseteq PgKeys /\ tx[q].gone \subseteq PgKeys /\ registry' \subseteq Tables
      BY <1>6 DEF IInv, PgTypeOK, Transactions, Tables
    <3>3. ASSUME NEW t \in registry', NEW k \in PgKeys, vectors'[t][k] # 0
          PROVE  (t \in registry /\ vectors[t][k] # 0) \/ VectorRow(t, k) \in tx'[q].overtaken
      <4>1. CASE t = Table(p) /\ k \in keys
        BY <1>4, <3>1, <4>1 DEF VectorRows
      <4>2. CASE vectors[t][k] # 0
        BY <3>2, <3>3, <4>2 DEF IInv, RememberedTablesExist, Present, Tables
      <4> QED BY <1>7, <3>2, <3>3, <4>1, <4>2
    <3>4. Named(q)' /\ DeleteKnows(q)' /\ ModelKnows(q)'
      BY <1>4, <3>1, <3>2, <3>3 DEF IInv, Knows, Named, DeleteKnows, ModelKnows
    <3> QED BY <3>4 DEF Knows
  <2> QED BY <2>1, <2>2, <2>3
<1> QED BY <1>6, <1>8, <1>9 DEF IInv

LEMMA IndexKeeps ==
  ASSUME IInv, NEW p \in Processes, IndexKeywords(p)
  PROVE  IInv'
<1>1. tx[p].version \in PgVersions \cup {0}
  BY DEF IInv, PgTypeOK, Transactions
<1>2. projection' \in [PgKeys -> PgVersions \cup {0}]
  BY <1>1 DEF IndexKeywords, IInv, PgTypeOK, Put
<1>3. epochs' \in [Lanes -> Nat]
  BY BumpTyped DEF IndexKeywords, IInv, PgTypeOK
<1> QED BY <1>2, <1>3, EndKeeps DEF IndexKeywords, IInv, PgTypeOK, Tables

-----------------------------------------------------------------------------
(* delete                                                                  *)

LEMMA StillThereTyped ==
  ASSUME IInv, NEW p \in Processes
  PROVE  StillThere(p) \subseteq PgKeys \X PgKeys /\ EdgeRows(StillThere(p)) \subseteq Rows
<1>1. StillThere(p) \subseteq PgKeys \X PgKeys
  BY DEF StillThere, IInv, PgTypeOK
<1> QED BY <1>1 DEF EdgeRows, Rows

LEMMA CutEdgesKeeps ==
  ASSUME IInv, NEW p \in Processes, CutEdges(p)
  PROVE  IInv'
<1> DEFINE next == [tx[p] EXCEPT !.step = "vectors", !.cut = Incident(tx[p].keys)]
<1>1. tx[p] \in Transactions /\ calls \in 0..MaxCalls
      /\ Incident(tx[p].keys) \subseteq PgKeys \X PgKeys
  BY DEF IInv, PgTypeOK, Incident
<1>2. /\ tx[p].call = "delete" /\ tx' = [tx EXCEPT ![p] = next]
      /\ UNCHANGED <<pgData, tables, calls>>
  BY DEF CutEdges, Step
<1>3. next \in Transactions /\ next.call = "delete" /\ next.step = "vectors"
  BY <1>1, <1>2 DEF Transactions
<1> HIDE DEF next
<1>4. Knows(p)'
  <2>1. tx'[p] = next
    BY <1>2 DEF IInv, PgTypeOK
  <2> QED BY <1>3, <2>1 DEF Knows, Named, DeleteKnows, ModelKnows
<1> QED BY <1>1, <1>2, <1>3, <1>4, QuietKeeps

LEMMA DeleteVectorsKeeps ==
  ASSUME IInv, NEW p \in Processes, DeleteVectors(p)
  PROVE  IInv'
<1> DEFINE found == UNION {VectorRows({t}, Present(vectors[t], tx[p].keys)) : t \in registry}
           rows == EdgeRows(StillThere(p)) \cup found
           next == [tx[p] EXCEPT !.step = "records", !.cut = StillThere(p), !.locks = @ \cup rows]
<1>1. tx[p] \in Transactions /\ tx[p].keys \subseteq PgKeys /\ registry \subseteq Tables
      /\ calls \in 0..MaxCalls
  BY DEF IInv, PgTypeOK, Transactions, Tables
<1>2. rows \subseteq Rows /\ StillThere(p) \subseteq PgKeys \X PgKeys
  <2>1. found \subseteq Rows
    BY <1>1 DEF VectorRows, Present, Rows, Tables
  <2> QED BY <2>1, StillThereTyped
<1>3. /\ tx[p].call = "delete" /\ tx' = [tx EXCEPT ![p] = next]
      /\ UNCHANGED <<pgData, tables, calls>>
  BY DEF DeleteVectors, Step
<1>4. \A t \in registry, k \in tx[p].keys : vectors[t][k] # 0 => VectorRow(t, k) \in rows
  BY DEF VectorRows, Present
<1> HIDE DEF rows
<1>5. /\ next \in Transactions /\ next.call = "delete" /\ next.keys = tx[p].keys
      /\ next.locks = tx[p].locks \cup rows
  BY <1>1, <1>2, <1>3 DEF Transactions
<1> HIDE DEF next
<1>6. Knows(p)'
  <2>1. tx'[p] = next /\ UNCHANGED <<registry, vectors>>
    BY <1>3 DEF IInv, PgTypeOK, pgData
  <2> QED BY <1>4, <1>5, <2>1 DEF Knows, Named, DeleteKnows, ModelKnows
<1> QED BY <1>1, <1>3, <1>5, <1>6, QuietKeeps

LEMMA DeleteRecordsKeeps ==
  ASSUME IInv, NEW p \in Processes, DeleteRecords(p)
  PROVE  IInv'
<1>1. /\ records' \in [PgKeys -> PgVersions \cup {0}]
      /\ projection' \in [PgKeys -> PgVersions \cup {0}]
      /\ vectors' \in [Tables -> [PgKeys -> PgVersions \cup {0}]]
      /\ \A t \in Tables, k \in PgKeys : vectors'[t][k] # 0 => vectors'[t][k] = vectors[t][k]
  BY DEF DeleteRecords, IInv, PgTypeOK, Clear, Tables
<1>2. edges' \subseteq PgKeys \X PgKeys /\ epochs' \in [Lanes -> Nat]
  BY BumpTyped DEF DeleteRecords, BumpDelete, IInv, PgTypeOK
<1> QED BY <1>1, <1>2, EndKeeps DEF DeleteRecords

-----------------------------------------------------------------------------
(* delete_for_model                                                        *)

LEMMA ModelStepsKeep ==
  ASSUME IInv, NEW p \in Processes,
         DeleteModelVectors(p) \/ DeleteTheirEdges(p) \/ ChooseRecords(p)
  PROVE  IInv'
<1>1. /\ tx[p] \in Transactions /\ tx[p].keys \subseteq PgKeys /\ tx[p].locks \subseteq Rows
      /\ tx[p].call = "delete_for_model" /\ tx[p].model \in Models /\ tx[p].dim \in Dims
      /\ UNCHANGED <<pgData, tables>> /\ calls' \in 0..MaxCalls /\ calls' = calls
      /\ registry \subseteq Tables
  BY DEF IInv, PgTypeOK, Transactions, Knows, Named, DeleteModelVectors, DeleteTheirEdges,
         ChooseRecords, Step, Tables
<1>2. ASSUME NEW next \in Transactions, tx' = [tx EXCEPT ![p] = next],
             next.call = "delete_for_model", next.model = tx[p].model,
             next.dim = tx[p].dim,
             next.step = "wait" =>
               /\ next.gone \subseteq next.keys
               /\ \A t \in registry \ {Table(p)}, k \in next.gone : vectors[t][k] = 0
      PROVE  IInv'
  <2>1. tx'[p] = next /\ Table(p)' = Table(p) /\ UNCHANGED <<registry, vectors>>
    BY <1>1, <1>2 DEF IInv, PgTypeOK, pgData, Table
  <2>2. Knows(p)'
    BY <1>1, <1>2, <2>1 DEF Knows, Named, DeleteKnows, ModelKnows
  <2> QED BY <1>1, <1>2, <2>2, QuietKeeps
<1>3. CASE DeleteModelVectors(p)
  <2> DEFINE mine == Present(vectors[Table(p)], tx[p].keys)
             next == [tx[p] EXCEPT !.step = "edges", !.keys = mine,
                                   !.locks = @ \cup VectorRows({Table(p)}, mine)]
  <2>1. CASE End(p)
    BY <1>1, <2>1, QuitKeeps
  <2>2. CASE tx' = [tx EXCEPT ![p] = next]
    <3>1. mine \subseteq PgKeys /\ VectorRows({Table(p)}, mine) \subseteq Rows
      BY <1>1 DEF Present, VectorRows, Rows, Table
    <3> HIDE DEF mine
    <3>2. /\ next \in Transactions /\ next.call = tx[p].call /\ next.model = tx[p].model
          /\ next.dim = tx[p].dim /\ next.step = "edges"
      BY <1>1, <3>1 DEF Transactions
    <3> HIDE DEF next
    <3> QED BY <1>1, <1>2, <2>2, <3>2
  <2> QED BY <1>3, <2>1, <2>2 DEF DeleteModelVectors
<1>4. Unembedded(p) \subseteq tx[p].keys
      /\ \A t \in registry \ {Table(p)}, k \in Unembedded(p) : vectors[t][k] = 0
  BY DEF Unembedded, Present
<1>5. CASE DeleteTheirEdges(p)
  <2> DEFINE next == [tx[p] EXCEPT !.step = "records", !.cut = Incident(Unembedded(p))]
  <2>1. Incident(Unembedded(p)) \subseteq PgKeys \X PgKeys
    BY DEF Incident, IInv, PgTypeOK
  <2>2. /\ next \in Transactions /\ next.call = tx[p].call /\ next.model = tx[p].model
        /\ next.dim = tx[p].dim /\ next.step = "records"
    BY <1>1, <2>1 DEF Transactions
  <2>3. tx' = [tx EXCEPT ![p] = next]
    BY <1>5 DEF DeleteTheirEdges
  <2> HIDE DEF next
  <2> QED BY <1>1, <1>2, <2>2, <2>3
<1>6. CASE ChooseRecords(p)
  <2> DEFINE next == [tx[p] EXCEPT !.step = "wait", !.cut = StillThere(p),
                        !.locks = @ \cup EdgeRows(StillThere(p)), !.gone = Unembedded(p)]
  <2>1. /\ next \in Transactions /\ next.call = tx[p].call /\ next.model = tx[p].model
        /\ next.dim = tx[p].dim /\ next.gone = Unembedded(p) /\ next.keys = tx[p].keys
    BY <1>1, <1>4, StillThereTyped DEF Transactions
  <2>2. tx' = [tx EXCEPT ![p] = next]
    BY <1>6 DEF ChooseRecords
  <2> HIDE DEF next
  <2> QED BY <1>1, <1>2, <1>4, <2>1, <2>2
<1> QED BY <1>3, <1>5, <1>6

LEMMA DeleteUnembeddedKeeps ==
  ASSUME IInv, NEW p \in Processes, DeleteUnembedded(p)
  PROVE  IInv'
<1>0. Table(p) \in Tables
  BY DEF DeleteUnembedded, Step, IInv, Knows, Named, Table, Tables
<1>1. /\ records' \in [PgKeys -> PgVersions \cup {0}]
      /\ projection' \in [PgKeys -> PgVersions \cup {0}]
      /\ vectors' \in [Tables -> [PgKeys -> PgVersions \cup {0}]]
      /\ \A t \in Tables, k \in PgKeys : vectors'[t][k] # 0 => vectors'[t][k] = vectors[t][k]
  BY <1>0 DEF DeleteUnembedded, IInv, PgTypeOK, Clear, Tables
<1>2. edges' \subseteq PgKeys \X PgKeys /\ epochs' \in [Lanes -> Nat]
  BY BumpTyped DEF DeleteUnembedded, IInv, PgTypeOK
<1> QED BY <1>1, <1>2, EndKeeps DEF DeleteUnembedded

-----------------------------------------------------------------------------
(* The other steps                                                         *)

LEMMA EdgesKeep ==
  ASSUME IInv, NEW p \in Processes, NEW pair \in Pairs,
         UpsertEdges(p, pair) \/ DeleteEdges(p, pair)
  PROVE  IInv'
<1>1. /\ epochs' \in [Lanes -> Nat] /\ edges' \subseteq PgKeys \X PgKeys
      /\ calls' \in 0..MaxCalls
      /\ UNCHANGED <<records, projection, vectors, registry, tables, tx>>
  <2>1. /\ epochs \in [Lanes -> Nat] /\ edges \subseteq PgKeys \X PgKeys
        /\ calls \in 0..MaxCalls
    BY DEF IInv, PgTypeOK
  <2>2. CASE UpsertEdges(p, pair)
    <3>1. Bump(FALSE, FALSE, TRUE) /\ edges' = edges \cup {pair} /\ calls' = calls + 1
          /\ calls < MaxCalls
          /\ UNCHANGED <<records, projection, vectors, registry, tables, tx>>
      BY <2>2 DEF UpsertEdges
    <3>2. epochs' \in [Lanes -> Nat]
      BY <2>1, <3>1, BumpTyped
    <3> QED BY <2>1, <3>1, <3>2 DEF Pairs
  <2>3. CASE DeleteEdges(p, pair)
    <3>1. Bump(FALSE, FALSE, pair \in edges) /\ edges' = edges \ {pair} /\ calls' = calls + 1
          /\ calls < MaxCalls
          /\ UNCHANGED <<records, projection, vectors, registry, tables, tx>>
      BY <2>3 DEF DeleteEdges
    <3>2. epochs' \in [Lanes -> Nat]
      BY <2>1, <3>1, BumpTyped
    <3> QED BY <2>1, <3>1, <3>2
  <2> QED BY <2>2, <2>3
<1> QED BY <1>1 DEF IInv, PgTypeOK, RememberedTablesExist, Present, Knows, Named, DeleteKnows,
                    ModelKnows, Table

LEMMA RememberKeeps ==
  ASSUME IInv, NEW p \in Processes, NEW m \in Models, NEW d \in Dims,
         SearchVectors(p, m, d) \/ RememberTable(p, m, d)
  PROVE  IInv'
<1>0. tables' = [tables EXCEPT ![p][m] = d] /\ UNCHANGED <<pgData, tx, calls>>
      /\ <<m, d>> \in registry
  BY DEF SearchVectors, Searchable, RememberTable, IInv, RememberedTablesExist
<1>1. PgTypeOK'
  BY <1>0 DEF IInv, PgTypeOK, pgData
<1>2. RememberedTablesExist'
  BY <1>0 DEF IInv, PgTypeOK, RememberedTablesExist, Present, pgData
<1>3. \A q \in Processes : Knows(q)'
  BY <1>0 DEF IInv, Knows, Named, DeleteKnows, ModelKnows, Table, pgData
<1> QED BY <1>1, <1>2, <1>3 DEF IInv

LEMMA NextIInv == IInv /\ [PgNext]_pgVars => IInv'
<1> SUFFICES ASSUME IInv, [PgNext]_pgVars PROVE IInv'
  OBVIOUS
<1>1. CASE UNCHANGED pgVars
  BY <1>1 DEF pgVars, pgData, IInv, PgTypeOK, RememberedTablesExist, Present, Knows, Named,
              DeleteKnows, ModelKnows, Table
<1>2. ASSUME NEW p \in Processes, RefuseUpsert(p) \/ Fail(p) PROVE IInv'
  BY <1>2, QuitKeeps DEF RefuseUpsert, Fail
<1> QED BY <1>1, <1>2, BeginKeeps, UpsertStepsKeep, UpsertKeeps, IndexKeeps,
           CutEdgesKeeps, DeleteVectorsKeeps, DeleteRecordsKeeps, ModelStepsKeep, DeleteUnembeddedKeeps,
           EdgesKeep, RememberKeeps DEF PgNext

-----------------------------------------------------------------------------
\* A record only goes by one of two statements, which know its vectors.
LEMMA StepKeepsVectors ==
  ASSUME IInv, [PgNext]_pgVars, NEW k \in PgKeys, NEW t \in registry,
         records[k] # 0, records'[k] = 0, vectors'[t][k] # 0
  PROVE  \E p \in Processes : VectorRow(t, k) \in tx[p].overtaken
<1>0. t \in Tables /\ records \in [PgKeys -> PgVersions \cup {0}]
      /\ vectors \in [Tables -> [PgKeys -> PgVersions \cup {0}]]
  BY DEF IInv, PgTypeOK, Tables
<1>1. ASSUME NEW p \in Processes, DeleteRecords(p)
      PROVE  VectorRow(t, k) \in tx[p].overtaken
  <2>1. k \in tx[p].keys
    BY <1>0, <1>1 DEF DeleteRecords, Clear
  <2>2. vectors[t][k] # 0 /\ VectorRow(t, k) \notin tx[p].locks
    BY <1>0, <1>1, <2>1 DEF DeleteRecords, Clear, Tables, VectorRow
  <2> QED BY <1>1, <2>1, <2>2 DEF IInv, Knows, DeleteKnows, DeleteRecords, Step
<1>2. ASSUME NEW p \in Processes, DeleteUnembedded(p)
      PROVE  VectorRow(t, k) \in tx[p].overtaken
  <2>1. k \in tx[p].gone /\ k \in tx[p].keys
    BY <1>0, <1>2 DEF DeleteUnembedded, Clear, Present, IInv, Knows, ModelKnows, Step
  <2>2. Table(p) \in Tables
    BY <1>2 DEF DeleteUnembedded, Step, IInv, Knows, Named, Table, Tables
  <2>3. t # Table(p) /\ vectors[t][k] # 0
    BY <1>0, <1>2, <2>1, <2>2 DEF DeleteUnembedded, Clear
  <2> QED BY <1>2, <2>1, <2>3 DEF IInv, Knows, ModelKnows, DeleteUnembedded, Step
<1>3. ASSUME NEW p \in Processes, UpsertVectors(p) PROVE FALSE
  <2>1. tx[p].version \in PgVersions
    BY <1>3 DEF UpsertVectors, Step, IInv, Knows, Named
  <2> QED BY <1>0, <1>3, <2>1 DEF UpsertVectors, Put
<1>4. records' # records
  OBVIOUS
<1> QED
  BY <1>1, <1>2, <1>3, <1>4, ZenonT(60)
  DEF PgNext, pgVars, pgData, BeginUpsert, BeginIndex, BeginDelete, BeginDeleteForModel,
      Begin, RefuseUpsert, EnsureTable, UpsertRecords, IndexKeywords, CutEdges,
      DeleteVectors, DeleteModelVectors, DeleteTheirEdges, ChooseRecords, Fail, UpsertEdges, DeleteEdges,
      SearchVectors, RememberTable

-----------------------------------------------------------------------------
(* The epochs                                                              *)

\* No row is locked by two transactions.
Exclusive == \A p, q \in Processes : p # q => tx[p].locks \cap tx[q].locks = {}

\* While an upsert holds its rows nobody else changes their records, so that
\* those it found different still are.
Held(p) ==
  tx[p].call = "upsert" /\ tx[p].step = "vectors" =>
    /\ RecordRows(tx[p].keys) \subseteq tx[p].locks
    /\ tx[p].changed = Changed(records, tx[p].keys, tx[p].version)

LInv == Exclusive /\ \A p \in Processes : Held(p)

\* q's transaction keeps what LInv says of it.
Steady(q) ==
  /\ tx'[q].call = tx[q].call /\ tx'[q].step = tx[q].step /\ tx'[q].keys = tx[q].keys
  /\ tx'[q].version = tx[q].version /\ tx'[q].locks = tx[q].locks
  /\ tx'[q].changed = tx[q].changed

LEMMA LocksMove ==
  ASSUME Exclusive, NEW p \in Processes, NEW added, Free(p, added),
         tx'[p].locks \subseteq tx[p].locks \cup added,
         \A q \in Processes \ {p} : Steady(q)
  PROVE  Exclusive'
<1> SUFFICES ASSUME NEW a \in Processes, NEW b \in Processes, a # b
             PROVE  tx'[a].locks \cap tx'[b].locks = {}
  BY DEF Exclusive
<1>1. tx[a].locks \cap tx[b].locks = {}
  BY DEF Exclusive
<1>2. CASE a = p
  <2>1. tx'[b].locks = tx[b].locks /\ tx[b].locks \cap added = {}
    BY <1>2 DEF Steady, Free
  <2> QED BY <1>1, <1>2, <2>1
<1>3. CASE b = p
  <2>1. tx'[a].locks = tx[a].locks /\ tx[a].locks \cap added = {}
    BY <1>3 DEF Steady, Free
  <2> QED BY <1>1, <1>3, <2>1
<1>4. CASE a # p /\ b # p
  BY <1>1, <1>4 DEF Steady
<1> QED BY <1>2, <1>3, <1>4

\* A step of p that leaves every row alone that another transaction holds.
LEMMA StepHolds ==
  ASSUME IInv, LInv, NEW p \in Processes, NEW added, Free(p, added),
         tx'[p].locks \subseteq tx[p].locks \cup added,
         \A q \in Processes \ {p} : Steady(q),
         \A k \in PgKeys : records'[k] # records[k] =>
           <<"record", k>> \in tx[p].locks \cup added,
         Held(p)'
  PROVE  LInv'
<1>1. Exclusive'
  BY LocksMove DEF LInv
<1>2. ASSUME NEW q \in Processes, q # p PROVE Held(q)'
  <2>1. Steady(q) /\ Held(q) /\ tx[q].locks \cap (tx[p].locks \cup added) = {}
    BY <1>2 DEF LInv, Exclusive, Free
  <2>2. tx[q].keys \subseteq PgKeys
    BY DEF IInv, PgTypeOK, Transactions
  <2> SUFFICES ASSUME tx[q].call = "upsert", tx[q].step = "vectors"
               PROVE  /\ RecordRows(tx[q].keys) \subseteq tx[q].locks
                      /\ tx[q].changed = Changed(records', tx[q].keys, tx[q].version)
    <3>1. tx'[q].keys = tx[q].keys /\ tx'[q].version = tx[q].version
          /\ tx'[q].locks = tx[q].locks /\ tx'[q].changed = tx[q].changed
          /\ tx'[q].call = tx[q].call /\ tx'[q].step = tx[q].step
      BY <2>1 DEF Steady
    <3>2. Changed(records, tx[q].keys, tx[q].version)' =
            Changed(records', tx[q].keys, tx[q].version)
      BY <3>1 DEF Changed
    <3> QED BY <3>1, <3>2, Zenon DEF Held
  <2>3. RecordRows(tx[q].keys) \subseteq tx[q].locks
        /\ tx[q].changed = Changed(records, tx[q].keys, tx[q].version)
    BY <2>1 DEF Held
  <2>4. \A k \in tx[q].keys : records'[k] = records[k]
    <3> TAKE k \in tx[q].keys
    <3>1. <<"record", k>> \in tx[q].locks
      BY ONLY <2>3, k \in tx[q].keys DEF RecordRows
    <3>2. <<"record", k>> \notin tx[p].locks \cup added
      BY ONLY <2>1, <3>1
    <3>3. k \in PgKeys
      BY ONLY <2>2, k \in tx[q].keys
    <3> QED BY <3>2, <3>3
  <2> QED BY <2>3, <2>4 DEF Changed
<1> QED BY <1>1, <1>2 DEF LInv

\* A step of p that begins, ends or goes on without a lock or a write.
LEMMA LightStepHolds ==
  ASSUME IInv, LInv, NEW p \in Processes, NEW next, tx' = [tx EXCEPT ![p] = next],
         next.locks \subseteq tx[p].locks,
         next.call # "upsert" \/ next.step # "vectors",
         UNCHANGED records
  PROVE  LInv'
<1>1. tx'[p] = next /\ \A q \in Processes \ {p} : tx'[q] = tx[q]
  BY DEF IInv, PgTypeOK
<1>2. \A q \in Processes \ {p} : Steady(q)
  BY <1>1 DEF Steady
<1>3. Free(p, {})
  BY DEF Free
<1>4. Held(p)'
  BY <1>1 DEF Held
<1> QED BY <1>1, <1>2, <1>3, <1>4, StepHolds

LEMMA NoTxHoldsNothing == NoTx.locks = {} /\ NoTx.call = "none"
  BY DEF NoTx

\* The statements that write records hold their rows or wait for them.
LEMMA CommitHolds ==
  ASSUME IInv, LInv, NEW p \in Processes,
         UpsertVectors(p) \/ DeleteRecords(p) \/ DeleteUnembedded(p)
  PROVE  LInv'
<1>1. tx[p] \in Transactions /\ records \in [PgKeys -> PgVersions \cup {0}]
  BY DEF IInv, PgTypeOK
<1>2. tx'[p] = NoTx /\ \A q \in Processes \ {p} : Steady(q)
  <2>1. CASE UpsertVectors(p)
    <3>1. tx'[p] = NoTx
      BY <2>1 DEF UpsertVectors
    <3>2. ASSUME NEW q \in Processes, q # p PROVE Steady(q)
      <4>1. tx[q] \in Transactions
        BY DEF IInv, PgTypeOK
      <4>2. \/ tx'[q] = tx[q]
            \/ tx'[q] = [tx[q] EXCEPT !.overtaken = @ \cup VectorRows({Table(p)}, tx[p].keys)]
        BY <2>1, <3>2 DEF UpsertVectors
      <4> QED BY <4>1, <4>2 DEF Steady, Transactions
    <3> QED BY <3>1, <3>2
  <2>2. CASE End(p)
    BY <2>2 DEF End, Steady, IInv, PgTypeOK
  <2> QED BY <2>1, <2>2 DEF DeleteRecords, DeleteUnembedded
<1>3. Held(p)'
  BY <1>2, NoTxHoldsNothing DEF Held
<1>4. CASE UpsertVectors(p)
  <2>1. RecordRows(tx[p].keys) \subseteq tx[p].locks
    BY <1>4 DEF UpsertVectors, Step, LInv, Held
  <2>2. \A k \in PgKeys : records'[k] # records[k] => k \in tx[p].keys
    BY <1>1, <1>4 DEF UpsertVectors, Put
  <2>3. \A k \in PgKeys : records'[k] # records[k] => <<"record", k>> \in tx[p].locks \cup {}
    BY <2>1, <2>2 DEF RecordRows
  <2>4. Free(p, {}) /\ tx'[p].locks \subseteq tx[p].locks \cup {}
    BY <1>2, NoTxHoldsNothing DEF Free
  <2> QED BY <1>2, <1>3, <2>3, <2>4, StepHolds
<1>5. ASSUME NEW keys, Free(p, RecordRows(Present(records, keys))),
             records' = Clear(records, keys)
      PROVE  LInv'
  <2>1. \A k \in PgKeys : records'[k] # records[k] => k \in Present(records, keys)
    BY <1>1, <1>5 DEF Clear, Present
  <2>2. \A k \in PgKeys : records'[k] # records[k] =>
          <<"record", k>> \in tx[p].locks \cup RecordRows(Present(records, keys))
    BY <2>1 DEF RecordRows
  <2>3. tx'[p].locks \subseteq tx[p].locks \cup RecordRows(Present(records, keys))
    BY <1>2, NoTxHoldsNothing
  <2> QED BY <1>2, <1>3, <1>5, <2>2, <2>3, StepHolds
<1>6. CASE DeleteRecords(p)
  BY <1>5, <1>6 DEF DeleteRecords
<1>7. CASE DeleteUnembedded(p)
  <2>1. Present(records, Present(records, tx[p].gone)) = Present(records, tx[p].gone)
    BY DEF Present
  <2> QED BY <1>5, <1>7, <2>1 DEF DeleteUnembedded
<1> QED BY <1>4, <1>6, <1>7

\* The statements that lock rows wait until nobody else holds them.
LEMMA LockHolds ==
  ASSUME IInv, LInv, NEW p \in Processes,
         UpsertRecords(p) \/ DeleteVectors(p) \/ DeleteModelVectors(p) \/ ChooseRecords(p)
  PROVE  LInv'
<1>1. tx[p] \in Transactions
  BY DEF IInv, PgTypeOK
<1>2. ASSUME NEW added, Free(p, added), NEW next, tx' = [tx EXCEPT ![p] = next],
             next.locks = tx[p].locks \cup added, UNCHANGED records,
             next.call = "upsert" /\ next.step = "vectors" =>
               /\ added = RecordRows(next.keys)
               /\ next.changed = Changed(records, next.keys, next.version)
      PROVE  LInv'
  <2>1. tx'[p] = next /\ \A q \in Processes \ {p} : tx'[q] = tx[q]
    BY <1>2 DEF IInv, PgTypeOK
  <2>2. \A q \in Processes \ {p} : Steady(q)
    BY <2>1 DEF Steady
  <2>3. Held(p)'
    BY <1>2, <2>1 DEF Held, Changed
  <2> QED BY <1>2, <2>1, <2>2, <2>3, StepHolds
<1>3. CASE UpsertRecords(p)
  <2> DEFINE next == [tx[p] EXCEPT !.step = "vectors",
                        !.locks = @ \cup RecordRows(tx[p].keys),
                        !.changed = Changed(records, tx[p].keys, tx[p].version)]
  <2>1. /\ next.locks = tx[p].locks \cup RecordRows(tx[p].keys) /\ next.keys = tx[p].keys
        /\ next.version = tx[p].version
        /\ next.changed = Changed(records, tx[p].keys, tx[p].version)
    BY <1>1 DEF Transactions
  <2>2. tx' = [tx EXCEPT ![p] = next] /\ Free(p, RecordRows(tx[p].keys)) /\ UNCHANGED records
    BY <1>3 DEF UpsertRecords, pgData
  <2> HIDE DEF next
  <2> QED BY <1>2, <2>1, <2>2
<1>4. CASE DeleteVectors(p)
  <2> DEFINE rows == EdgeRows(StillThere(p))
                     \cup UNION {VectorRows({t}, Present(vectors[t], tx[p].keys)) : t \in registry}
             next == [tx[p] EXCEPT !.step = "records", !.cut = StillThere(p), !.locks = @ \cup rows]
  <2>1. next.locks = tx[p].locks \cup rows /\ next.step = "records"
    BY <1>1 DEF Transactions
  <2>2. tx' = [tx EXCEPT ![p] = next] /\ Free(p, rows) /\ UNCHANGED records
    BY <1>4 DEF DeleteVectors, pgData
  <2> HIDE DEF next, rows
  <2> QED BY <1>2, <2>1, <2>2
<1>5. CASE DeleteModelVectors(p)
  <2> DEFINE mine == Present(vectors[Table(p)], tx[p].keys)
             rows == VectorRows({Table(p)}, mine)
             next == [tx[p] EXCEPT !.step = "edges", !.keys = mine, !.locks = @ \cup rows]
  <2>1. next.locks = tx[p].locks \cup rows /\ next.step = "edges"
    BY <1>1 DEF Transactions
  <2>2. UNCHANGED records /\ Free(p, rows) /\ (End(p) \/ tx' = [tx EXCEPT ![p] = next])
    BY <1>5 DEF DeleteModelVectors, pgData
  <2> HIDE DEF next, rows
  <2>3. CASE End(p)
    BY <2>2, <2>3, LightStepHolds, NoTxHoldsNothing DEF End
  <2> QED BY <1>2, <2>1, <2>2, <2>3
<1>6. CASE ChooseRecords(p)
  <2> DEFINE rows == EdgeRows(StillThere(p))
             next == [tx[p] EXCEPT !.step = "wait", !.cut = StillThere(p), !.locks = @ \cup rows,
                                   !.gone = Unembedded(p)]
  <2>1. next.locks = tx[p].locks \cup rows /\ next.step = "wait"
    BY <1>1 DEF Transactions
  <2>2. tx' = [tx EXCEPT ![p] = next] /\ Free(p, rows) /\ UNCHANGED records
    BY <1>6 DEF ChooseRecords, pgData
  <2> HIDE DEF next, rows
  <2> QED BY <1>2, <2>1, <2>2
<1> QED BY <1>3, <1>4, <1>5, <1>6

LEMMA InitLInv == PgInit => LInv
  BY NoTxHoldsNothing DEF PgInit, LInv, Exclusive, Held

LEMMA NextLInv == IInv /\ LInv /\ [PgNext]_pgVars => LInv'
<1> SUFFICES ASSUME IInv, LInv, [PgNext]_pgVars PROVE LInv'
  OBVIOUS
<1>1. CASE UNCHANGED <<tx, records>>
  BY <1>1 DEF LInv, Exclusive, Held, Changed
<1>2. ASSUME NEW p \in Processes,
             BeginUpsert(p) \/ BeginIndex(p) \/ BeginDelete(p) \/ BeginDeleteForModel(p)
      PROVE  LInv'
  <2>1. PICK call, keys, m, d, v : Begin(p, call, keys, m, d, v)
    BY <1>2 DEF BeginUpsert, BeginIndex, BeginDelete, BeginDeleteForModel
  <2> DEFINE next == [NoTx EXCEPT !.call = call, !.keys = keys, !.model = m, !.dim = d,
                                  !.version = v]
  <2>2. next.locks = {} /\ next.step = "begin"
    BY DEF NoTx
  <2>3. tx' = [tx EXCEPT ![p] = next] /\ UNCHANGED records
    BY <2>1 DEF Begin, pgData
  <2> HIDE DEF next
  <2> QED BY <2>2, <2>3, LightStepHolds
<1>3. ASSUME NEW p \in Processes, End(p), UNCHANGED records PROVE LInv'
  BY <1>3, LightStepHolds, NoTxHoldsNothing DEF End
<1>4. ASSUME NEW p \in Processes, RefuseUpsert(p) \/ Fail(p) \/ IndexKeywords(p) PROVE LInv'
  BY <1>3, <1>4 DEF RefuseUpsert, Fail, IndexKeywords, pgData
<1>5. ASSUME NEW p \in Processes, EnsureTable(p) \/ CutEdges(p) \/ DeleteTheirEdges(p)
      PROVE  LInv'
  <2>1. tx[p] \in Transactions
    BY DEF IInv, PgTypeOK
  <2>2. PICK next : /\ tx' = [tx EXCEPT ![p] = next] /\ next.locks = tx[p].locks
                    /\ next.call # "upsert" \/ next.step # "vectors"
                    /\ UNCHANGED records
    <3>1. CASE EnsureTable(p)
      <4> WITNESS [tx[p] EXCEPT !.step = "records"]
      <4> QED BY <2>1, <3>1 DEF EnsureTable, Transactions, pgData
    <3>2. CASE DeleteTheirEdges(p)
      <4> WITNESS [tx[p] EXCEPT !.step = "records", !.cut = Incident(Unembedded(p))]
      <4> QED BY <2>1, <3>2 DEF DeleteTheirEdges, Transactions, pgData
    <3>3. CASE CutEdges(p)
      <4> WITNESS [tx[p] EXCEPT !.step = "vectors", !.cut = Incident(tx[p].keys)]
      <4> QED BY <2>1, <3>3 DEF CutEdges, Step, Transactions, pgData
    <3> QED BY <1>5, <3>1, <3>2, <3>3
  <2> QED BY <2>2, LightStepHolds
<1>6. ASSUME NEW p \in Processes,
             \/ \E pair \in Pairs : UpsertEdges(p, pair) \/ DeleteEdges(p, pair)
             \/ \E m \in Models, d \in Dims : SearchVectors(p, m, d) \/ RememberTable(p, m, d)
      PROVE  UNCHANGED <<tx, records>>
  BY <1>6 DEF UpsertEdges, DeleteEdges, SearchVectors, RememberTable, pgData
<1>7. CASE UNCHANGED pgVars
  BY <1>1, <1>7 DEF pgVars, pgData
<1>8. CASE PgNext
  BY <1>1, <1>2, <1>4, <1>5, <1>6, <1>8, CommitHolds, LockHolds DEF PgNext
<1> QED BY <1>7, <1>8

-----------------------------------------------------------------------------
(* What each commit does to the views and to the epochs.                   *)

\* A lane's epoch moves when the bump names the lane, and the total with it.
LEMMA BumpMoves ==
  ASSUME IInv, NEW a \in BOOLEAN, NEW b \in BOOLEAN, NEW c \in BOOLEAN, Bump(a, b, c)
  PROVE  /\ a => epochs'["keyword"] > epochs["keyword"]
         /\ b => epochs'["vector"] > epochs["vector"]
         /\ c => epochs'["graph"] > epochs["graph"]
         /\ epochs' # epochs => epochs'["total"] > epochs["total"]
<1>1. epochs \in [Lanes -> Nat] /\ epochs["total"] \in Nat /\ epochs["keyword"] \in Nat
      /\ epochs["vector"] \in Nat /\ epochs["graph"] \in Nat
  BY DEF IInv, PgTypeOK, Lanes
<1>2. /\ epochs'["keyword"] = epochs["keyword"] + IF a THEN 1 ELSE 0
      /\ epochs'["vector"] = epochs["vector"] + IF b THEN 1 ELSE 0
      /\ epochs'["graph"] = epochs["graph"] + IF c THEN 1 ELSE 0
      /\ epochs'["total"] = epochs["total"] + IF a \/ b \/ c THEN 1 ELSE 0
  BY DEF Bump, Lanes
<1>3. CASE a \/ b \/ c
  BY <1>1, <1>2, <1>3
<1>4. CASE ~(a \/ b \/ c)
  <2>1. epochs' = [l \in Lanes |-> epochs[l]]
    <3>1. \A l \in Lanes : epochs[l] \in Nat
      BY <1>1
    <3> QED BY <1>4, <3>1 DEF Bump
  <2> QED BY <1>1, <1>4, <2>1
<1> QED BY <1>3, <1>4

\* A vector search is answered from the vectors of records that are there.
LEMMA SameVectorView ==
  ASSUME \A t, k : (t \in registry /\ k \in PgKeys /\ records[k] # 0 /\ vectors[t][k] # 0)
                     <=> (t \in registry' /\ k \in PgKeys /\ records'[k] # 0
                            /\ vectors'[t][k] # 0),
         \A t \in registry, k \in PgKeys : records[k] # 0 /\ vectors[t][k] # 0 =>
           records'[k] = records[k] /\ vectors'[t][k] = vectors[t][k]
  PROVE  VectorView' = VectorView
<1>1. \A e : e \in VectorView <=>
        \E t \in registry, k \in PgKeys :
          records[k] # 0 /\ vectors[t][k] # 0 /\ e = <<t, k, records[k], vectors[t][k]>>
  BY DEF VectorView, Present
<1>2. \A e : e \in VectorView' <=>
        \E t \in registry', k \in PgKeys :
          records'[k] # 0 /\ vectors'[t][k] # 0 /\ e = <<t, k, records'[k], vectors'[t][k]>>
  BY DEF VectorView, Present
<1>3. ASSUME NEW e PROVE e \in VectorView <=> e \in VectorView'
  <2>1. ASSUME NEW t \in registry, NEW k \in PgKeys, records[k] # 0, vectors[t][k] # 0
        PROVE  /\ t \in registry' /\ records'[k] # 0 /\ vectors'[t][k] # 0
               /\ <<t, k, records'[k], vectors'[t][k]>> = <<t, k, records[k], vectors[t][k]>>
    BY <2>1
  <2>2. ASSUME NEW t \in registry', NEW k \in PgKeys, records'[k] # 0, vectors'[t][k] # 0
        PROVE  /\ t \in registry /\ records[k] # 0 /\ vectors[t][k] # 0
               /\ <<t, k, records'[k], vectors'[t][k]>> = <<t, k, records[k], vectors[t][k]>>
    <3>1. t \in registry /\ records[k] # 0 /\ vectors[t][k] # 0
      BY <2>2
    <3> QED BY <3>1
  <2> QED BY <1>1, <1>2, <2>1, <2>2
<1> QED BY <1>3

\* The epochs cover a step.
Covered ==
  /\ VectorView' # VectorView =>
       epochs'["vector"] > epochs["vector"] \/ LeavesOrphan
  /\ edges' # edges => epochs'["graph"] > epochs["graph"]
  /\ KeywordView' # KeywordView =>
       \/ epochs'["keyword"] > epochs["keyword"]
       \/ \E p \in Processes : tx[p].call = "upsert" /\ tx'[p] = NoTx
  /\ epochs' # epochs => epochs'["total"] > epochs["total"]

\* An upsert that changed neither a record nor a vector left both as they were.
LEMMA UpsertCovered ==
  ASSUME IInv, LInv, NEW p \in Processes, UpsertVectors(p)
  PROVE  Covered
<1> DEFINE keys == tx[p].keys
           v == tx[p].version
<1>1. /\ tx[p].call = "upsert" /\ tx[p].changed = Changed(records, keys, v)
      /\ tx[p].model \in Models /\ tx[p].dim \in Dims /\ Table(p) \in Tables
      /\ v \in PgVersions /\ v # 0
  BY DEF UpsertVectors, Step, IInv, Knows, Named, LInv, Held, Table, Tables
<1>2. /\ tx'[p] = NoTx /\ edges' = edges
      /\ BumpUpsert(tx[p].changed, Changed(vectors[Table(p)], keys, v))
  BY DEF UpsertVectors
<1>3. /\ tx[p].changed # {} \/ Changed(vectors[Table(p)], keys, v) # {} =>
           epochs'["vector"] > epochs["vector"]
      /\ epochs' # epochs => epochs'["total"] > epochs["total"]
  BY <1>2, BumpMoves DEF BumpUpsert
<1>4. CASE tx[p].changed = {} /\ Changed(vectors[Table(p)], keys, v) = {}
  <2>1. \A k \in keys : records[k] = v /\ vectors[Table(p)][k] = v
    BY <1>1, <1>4 DEF Changed
  <2>2. /\ records \in [PgKeys -> PgVersions \cup {0}] /\ keys \subseteq PgKeys
        /\ vectors \in [Tables -> [PgKeys -> PgVersions \cup {0}]]
        /\ registry \subseteq Tables
    BY DEF IInv, PgTypeOK, Transactions, Tables
  <2>3. \A k \in PgKeys : records'[k] = records[k]
    BY <2>1, <2>2 DEF UpsertVectors, Put
  <2>4. \A t \in Tables, k \in PgKeys : vectors'[t][k] = vectors[t][k]
    <3> TAKE t \in Tables, k \in PgKeys
    <3>1. vectors' = [vectors EXCEPT ![Table(p)] = Put(vectors[Table(p)], keys, v)]
      BY DEF UpsertVectors
    <3>2. CASE t # Table(p)
      BY <2>2, <3>1, <3>2
    <3>3. CASE t = Table(p)
      BY <1>1, <2>1, <2>2, <3>1, <3>3 DEF Put
    <3> QED BY <3>2, <3>3
  <2>5. registry' = registry \cup {Table(p)}
    BY DEF UpsertVectors
  <2>6. \A t \in Tables, k \in PgKeys : vectors[t][k] # 0 => t \in registry
    BY DEF IInv, RememberedTablesExist, Present, Tables
  <2>7. VectorView' = VectorView
    BY <1>1, <2>2, <2>3, <2>4, <2>5, <2>6, SameVectorView
  <2> QED BY <1>1, <1>2, <1>3, <2>7 DEF Covered
<1>5. CASE tx[p].changed # {} \/ Changed(vectors[Table(p)], keys, v) # {}
  BY <1>1, <1>2, <1>3, <1>5 DEF Covered
<1> QED BY <1>4, <1>5

LEMMA IndexCovered ==
  ASSUME IInv, NEW p \in Processes, IndexKeywords(p)
  PROVE  Covered
<1> DEFINE moved == Changed(projection, Present(records, tx[p].keys), tx[p].version)
<1>1. Bump(moved # {}, FALSE, FALSE) /\ projection' = Put(projection, moved, tx[p].version)
      /\ UNCHANGED <<records, vectors, registry, edges>>
  BY DEF IndexKeywords
<1>2. (moved # {} => epochs'["keyword"] > epochs["keyword"])
      /\ (epochs' # epochs => epochs'["total"] > epochs["total"])
  BY <1>1, BumpMoves
<1>3. VectorView' = VectorView
  BY <1>1 DEF VectorView
<1>4. moved = {} => KeywordView' = KeywordView
  <2> HAVE moved = {}
  <2>1. \A k \in PgKeys : projection'[k] = projection[k]
    BY <1>1 DEF Put
  <2> QED BY <1>1, <2>1 DEF KeywordView, Present
<1> QED BY <1>1, <1>2, <1>3, <1>4 DEF Covered

\* A deletion that found no vector to take leaves one that it overlooked, or
\* deletes nothing a vector search could have answered with.
LEMMA DeleteCovered ==
  ASSUME IInv, NEW p \in Processes, DeleteRecords(p)
  PROVE  Covered
<1> DEFINE keys == tx[p].keys
           gone == {row \in tx[p].locks : row[1] = "vector"}
<1>1. /\ records' = Clear(records, keys) /\ projection' = Clear(projection, keys)
      /\ vectors' = [t \in Models \X Dims |->
                       Clear(vectors[t], {k \in keys : VectorRow(t, k) \in gone})]
      /\ edges' = edges \ tx[p].cut /\ registry' = registry
      /\ Bump(Present(records, keys) # {}, gone # {}, tx[p].cut # {})
  BY DEF DeleteRecords, BumpDelete
<1> HIDE DEF gone
<1>2. /\ Present(records, keys) # {} => epochs'["keyword"] > epochs["keyword"]
      /\ gone # {} => epochs'["vector"] > epochs["vector"]
      /\ tx[p].cut # {} => epochs'["graph"] > epochs["graph"]
      /\ epochs' # epochs => epochs'["total"] > epochs["total"]
  BY <1>1, BumpMoves
<1>3. edges' # edges => tx[p].cut # {}
  BY <1>1
<1>4. /\ records \in [PgKeys -> PgVersions \cup {0}] /\ registry \subseteq Tables
      /\ vectors \in [Tables -> [PgKeys -> PgVersions \cup {0}]]
  BY DEF IInv, PgTypeOK, Tables
<1>5. Present(records, keys) = {} => KeywordView' = KeywordView
  <2> HAVE Present(records, keys) = {}
  <2>1. \A k \in PgKeys : /\ records'[k] = records[k]
                          /\ records[k] # 0 => projection'[k] = projection[k]
    BY <1>1 DEF Clear, Present
  <2> QED BY <2>1 DEF KeywordView, Present
<1>6. gone = {} => VectorView' = VectorView \/ LeavesOrphan
  <2> HAVE gone = {}
  <2>1. \A t \in Tables, k \in PgKeys : vectors'[t][k] = vectors[t][k]
    BY <1>1, <1>4 DEF Clear, Tables
  <2>2. \A k \in PgKeys : records'[k] = IF k \in keys THEN 0 ELSE records[k]
    BY <1>1 DEF Clear
  <2>3. CASE \E k \in PgKeys, t \in registry : k \in keys /\ records[k] # 0 /\ vectors[t][k] # 0
    BY <1>4, <2>1, <2>2, <2>3 DEF LeavesOrphan
  <2>4. CASE \A k \in PgKeys, t \in registry :
               records[k] # 0 /\ vectors[t][k] # 0 => k \notin keys
    <3>1. \A k \in PgKeys, t \in registry :
            records[k] # 0 /\ vectors[t][k] # 0 =>
              records'[k] = records[k] /\ vectors'[t][k] = vectors[t][k]
      BY <1>4, <2>1, <2>2, <2>4
    <3>2. \A k \in PgKeys, t \in registry :
            records'[k] # 0 /\ vectors'[t][k] # 0 => records[k] # 0 /\ vectors[t][k] # 0
      BY <1>4, <2>1, <2>2
    <3> QED BY <1>1, <3>1, <3>2, SameVectorView
  <2> QED BY <2>3, <2>4
<1> QED BY <1>2, <1>3, <1>5, <1>6 DEF Covered

LEMMA ModelDeleteCovered ==
  ASSUME IInv, NEW p \in Processes, DeleteUnembedded(p)
  PROVE  Covered
<1> DEFINE gone == Present(records, tx[p].gone)
<1>1. /\ records' = Clear(records, gone) /\ projection' = Clear(projection, gone)
      /\ edges' = edges \ tx[p].cut
      /\ Bump(gone # {}, TRUE, tx[p].cut # {})
  BY DEF DeleteUnembedded
<1>2. /\ gone # {} => epochs'["keyword"] > epochs["keyword"]
      /\ epochs'["vector"] > epochs["vector"]
      /\ tx[p].cut # {} => epochs'["graph"] > epochs["graph"]
      /\ epochs' # epochs => epochs'["total"] > epochs["total"]
  BY <1>1, BumpMoves
<1>3. gone = {} => KeywordView' = KeywordView
  <2> HAVE gone = {}
  <2>1. \A k \in PgKeys : records'[k] = records[k] /\ projection'[k] = projection[k]
    BY <1>1 DEF Clear
  <2> QED BY <2>1 DEF KeywordView, Present
<1> QED BY <1>1, <1>2, <1>3 DEF Covered

LEMMA StepCovered == IInv /\ LInv /\ [PgNext]_pgVars => Covered
<1> SUFFICES ASSUME IInv, LInv, [PgNext]_pgVars PROVE Covered
  OBVIOUS
<1>1. CASE UNCHANGED pgData
  BY <1>1 DEF Covered, pgData, VectorView, KeywordView, Present
<1>2. ASSUME NEW p \in Processes, NEW pair \in Pairs, UpsertEdges(p, pair) \/ DeleteEdges(p, pair)
      PROVE  Covered
  <2>1. VectorView' = VectorView /\ KeywordView' = KeywordView
    <3>1. UNCHANGED <<records, projection, vectors, registry>>
      BY <1>2 DEF UpsertEdges, DeleteEdges
    <3> QED BY <3>1 DEF VectorView, KeywordView, Present
  <2>2. CASE UpsertEdges(p, pair)
    BY <2>1, <2>2, BumpMoves DEF UpsertEdges, Covered
  <2>3. CASE DeleteEdges(p, pair)
    <3>1. edges' = edges \ {pair} /\ Bump(FALSE, FALSE, pair \in edges)
      BY <2>3 DEF DeleteEdges
    <3>2. CASE pair \in edges
      <4>1. Bump(FALSE, FALSE, TRUE)
        BY <3>1, <3>2
      <4> QED BY <2>1, <4>1, BumpMoves DEF Covered
    <3>3. CASE pair \notin edges
      <4>1. edges' = edges
        BY <3>1, <3>3
      <4>2. Bump(FALSE, FALSE, FALSE)
        BY <3>1, <3>3 DEF Bump
      <4> QED BY <2>1, <4>1, <4>2, BumpMoves DEF Covered
    <3> QED BY <3>2, <3>3
  <2> QED BY <1>2, <2>2, <2>3
<1>3. CASE UNCHANGED pgVars
  BY <1>1, <1>3, SMTT(40) DEF pgVars
<1>4. ASSUME NEW p \in Processes,
             \/ BeginUpsert(p) \/ BeginIndex(p) \/ BeginDelete(p) \/ BeginDeleteForModel(p)
             \/ RefuseUpsert(p) \/ EnsureTable(p) \/ UpsertRecords(p)
             \/ CutEdges(p) \/ DeleteVectors(p)
             \/ DeleteModelVectors(p) \/ DeleteTheirEdges(p) \/ ChooseRecords(p) \/ Fail(p)
             \/ \E m \in Models, d \in Dims : SearchVectors(p, m, d) \/ RememberTable(p, m, d)
      PROVE  UNCHANGED pgData
  BY <1>4 DEF BeginUpsert, BeginIndex, BeginDelete, BeginDeleteForModel, Begin, RefuseUpsert,
              EnsureTable, UpsertRecords, CutEdges, DeleteVectors, DeleteModelVectors,
              DeleteTheirEdges, ChooseRecords, Fail, SearchVectors, RememberTable
<1>5. CASE PgNext
  BY <1>1, <1>2, <1>4, <1>5, UpsertCovered, IndexCovered, DeleteCovered, ModelDeleteCovered
  DEF PgNext
<1> QED BY <1>3, <1>5

-----------------------------------------------------------------------------
(* The graph lane of the local store.                                      *)

GraphSpec == GraphInit /\ [][GraphNext]_graphVars

\* Every edge has both its ends among the records.
GInv == graphEpoch \in Nat /\ Dangling = {}

LEMMA InitGInv == GraphInit => GInv
  BY DEF GraphInit, GInv, Dangling

LEMMA EdgesStored ==
  ASSUME GInv, NEW new, StoreEdges(new)
  PROVE  graphEpoch' \in Nat /\ (stored' # stored <=> graphEpoch' # graphEpoch)
  BY DEF GInv, StoreEdges

LEMMA NextGInv ==
  ASSUME GInv, [GraphNext]_graphVars
  PROVE  GInv' /\ (stored' # stored <=> graphEpoch' # graphEpoch)
<1>0. graphEpoch \in Nat
  BY DEF GInv
<1>1. CASE UNCHANGED <<indexed, stored, graphEpoch>>
  BY <1>0, <1>1 DEF GInv, Dangling
<1>2. ASSUME NEW n, IndexNode(n)
      PROVE  GInv' /\ (stored' # stored <=> graphEpoch' # graphEpoch)
  BY <1>0, <1>2 DEF IndexNode, GInv, Dangling
<1>3. ASSUME NEW n, DeleteNode(n)
      PROVE  GInv' /\ (stored' # stored <=> graphEpoch' # graphEpoch)
  <2>1. StoreEdges([e \in DOMAIN stored \ Cascade(n) |-> stored[e]]) /\ indexed' = indexed \ {n}
    BY <1>3 DEF DeleteNode
  <2>2. DOMAIN stored' = DOMAIN stored \ Cascade(n)
    BY <2>1 DEF StoreEdges
  <2>3. Dangling' = {}
    BY <2>1, <2>2 DEF GInv, Dangling, Cascade
  <2> QED BY <2>1, <2>3, EdgesStored DEF GInv
<1>4. ASSUME NEW e, NEW c, UpsertEdge(e, c)
      PROVE  GInv' /\ (stored' # stored <=> graphEpoch' # graphEpoch)
  <2>1. /\ StoreEdges([x \in DOMAIN stored \cup {e} |-> IF x = e THEN c ELSE stored[x]])
        /\ indexed' = indexed /\ {Source(e), Target(e)} \subseteq indexed
    BY <1>4 DEF UpsertEdge
  <2>2. DOMAIN stored' = DOMAIN stored \cup {e}
    BY <2>1 DEF StoreEdges
  <2>3. Dangling' = {}
    <3>1. \A x \in DOMAIN stored' : x = e \/ x \in DOMAIN stored
      BY <2>2
    <3>2. \A x \in DOMAIN stored : {Source(x), Target(x)} \subseteq indexed
      BY DEF GInv, Dangling
    <3> QED BY <2>1, <3>1, <3>2 DEF Dangling
  <2> QED BY <2>1, <2>3, EdgesStored DEF GInv
<1>5. ASSUME NEW e, DeleteEdge(e)
      PROVE  GInv' /\ (stored' # stored <=> graphEpoch' # graphEpoch)
  <2>1. StoreEdges([x \in DOMAIN stored \ {e} |-> stored[x]]) /\ indexed' = indexed
    BY <1>5 DEF DeleteEdge
  <2>2. DOMAIN stored' = DOMAIN stored \ {e}
    BY <2>1 DEF StoreEdges
  <2>3. Dangling' = {}
    <3>1. \A x \in DOMAIN stored' : x \in DOMAIN stored
      BY <2>2, Zenon
    <3>2. \A x \in DOMAIN stored : {Source(x), Target(x)} \subseteq indexed
      BY DEF GInv, Dangling
    <3> QED BY <2>1, <3>1, <3>2 DEF Dangling
  <2> QED BY <2>1, <2>3, EdgesStored DEF GInv
<1>6. ASSUME \/ \E q \in Questions : BeginWalk(q)
             \/ \E e \in GraphEdges : ReadRow(e)
             \/ NextHop \/ FinishWalk \/ ReleaseLock \/ UNCHANGED graphVars
      PROVE  UNCHANGED <<indexed, stored, graphEpoch>>
  BY <1>6 DEF BeginWalk, ReadRow, NextHop, FinishWalk, ReleaseLock, graphVars
<1> QED BY <1>1, <1>2, <1>3, <1>4, <1>5, <1>6 DEF GraphNext

-----------------------------------------------------------------------------
(* The walks over the graph.                                               *)

LEMMA LeastExists ==
  ASSUME NEW Q \in SUBSET Nat, Q # {}
  PROVE  \E m \in Q : \A k \in Q : m <= k
<1>1. IsWellFoundedOn(OpToRel(<, Nat), Nat)
  BY NatLessThanWellFounded
<1>2. PICK m \in Q : \A k \in Q : ~(<<k, m>> \in OpToRel(<, Nat))
  BY <1>1, WFMin, ZenonT(60)
<1>3. \A k \in Q : ~(k < m)
  BY <1>2 DEF OpToRel
<1> QED BY <1>3

LEMMA IntervalInduction ==
  ASSUME NEW L \in Nat, NEW T, 0 \in T, \A n \in 1..L : n - 1 \in T => n \in T
  PROVE  \A n \in 0..L : n \in T
<1> DEFINE Q == {n \in 0..L : n \notin T}
<1> SUFFICES ASSUME Q # {} PROVE FALSE
  OBVIOUS
<1>1. Q \in SUBSET Nat
  OBVIOUS
<1>2. PICK m \in Q : \A k \in Q : m <= k
  BY <1>1, LeastExists
<1>3. m # 0 /\ m \in 1..L
  OBVIOUS
<1>4. m - 1 \in T
  BY <1>1, <1>2, <1>3
<1> QED BY <1>3, <1>4

\* f starts with v and takes each of its values, of the sets V, from the one
\* before by the steps of G.
Runs(f, L, V, G, v) ==
  /\ f \in [0..L -> UNION {V[n] : n \in 0..L}]
  /\ f[0] = v
  /\ \A n \in 0..L : f[n] \in V[n]
  /\ \A n \in 1..L : f[n] = G[<<n, f[n - 1]>>]

\* A function defined by recursion over an interval exists.
LEMMA RecursionExists ==
  ASSUME NEW L \in Nat, NEW V, NEW G, NEW v \in V[0],
         \A n \in 1..L : \A x \in V[n - 1] : G[<<n, x>>] \in V[n]
  PROVE  \E f : Runs(f, L, V, G, v)
<1> DEFINE All == UNION {V[n] : n \in 0..L}
           Upto(k, f) == /\ f[0] = v
                         /\ \A n \in 0..k : f[n] \in V[n]
                         /\ \A n \in 1..k : f[n] = G[<<n, f[n - 1]>>]
           T == {k \in 0..L : \E f \in [0..k -> All] : Upto(k, f)}
<1>1. 0 \in T
  <2> DEFINE f == [n \in 0..0 |-> v]
  <2>1. f \in [0..0 -> All] /\ Upto(0, f)
    OBVIOUS
  <2>2. 0 \in 0..L
    OBVIOUS
  <2> HIDE DEF f, All, Upto
  <2> QED BY <2>1, <2>2
<1>2. ASSUME NEW k \in 1..L, k - 1 \in T PROVE k \in T
  <2>1. PICK f \in [0..(k - 1) -> All] : Upto(k - 1, f)
    BY <1>2
  <2> DEFINE g == [n \in 0..k |-> IF n = k THEN G[<<k, f[k - 1]>>] ELSE f[n]]
  <2>2. G[<<k, f[k - 1]>>] \in V[k]
    BY <2>1
  <2>g. /\ g = [n \in 0..k |-> g[n]]
        /\ \A n \in 0..k : g[n] = IF n = k THEN G[<<k, f[k - 1]>>] ELSE f[n]
    OBVIOUS
  <2> HIDE DEF g
  <2>3. \A n \in 0..k : g[n] \in V[n]
    BY <2>1, <2>2, <2>g
  <2>4. g \in [0..k -> All]
    <3>1. \A n \in 0..k : V[n] \subseteq All
      OBVIOUS
    <3> HIDE DEF All
    <3>2. \A n \in 0..k : g[n] \in All
      BY <2>3, <3>1
    <3> QED BY <2>g, <3>2
  <2>5. \A n \in 1..k : g[n] = G[<<n, g[n - 1]>>]
    <3> SUFFICES ASSUME NEW n \in 1..k PROVE g[n] = G[<<n, g[n - 1]>>]
      OBVIOUS
    <3>1. n - 1 \in 0..k /\ n - 1 # k /\ n \in 0..k /\ (n # k => n \in 1..(k - 1))
      OBVIOUS
    <3>2. g[n - 1] = f[n - 1]
      BY <2>g, <3>1
    <3>3. CASE n = k
      BY <2>g, <3>1, <3>2, <3>3
    <3>4. CASE n # k
      BY <2>1, <2>g, <3>1, <3>2, <3>4
    <3> QED BY <3>3, <3>4
  <2>6. g[0] = v
    BY <2>1, <2>g
  <2>7. Upto(k, g)
    BY <2>3, <2>5, <2>6
  <2> HIDE DEF All, Upto
  <2> QED BY <2>4, <2>7
<1> HIDE DEF T
<1>3. \A n \in 0..L : n \in T
  BY <1>1, <1>2, IntervalInduction
<1>4. L \in T
  BY <1>3
<1> QED BY <1>4 DEF T, Runs

-----------------------------------------------------------------------------
(* The walks of PostgreSQL, level by level.                                 *)

\* The rows of the query, and the tables of edges.
WalkRows == [at : GraphNodes, cost : Nat, type : EdgeTypes, path : SUBSET GraphNodes]
EdgeTables == UNION {[E -> Nat] : E \in SUBSET GraphEdges}

LEMMA AreTables ==
  ASSUME NEW E \in SUBSET GraphEdges, NEW f \in [E -> Nat]
  PROVE  f \in EdgeTables
BY DEF EdgeTables

\* The rows of a table that leave a node of a walk by an edge asked for.
Leaving(st, q, n) == {e \in DOMAIN st : From(q, e) = n /\ Type(e) \in q.types}

\* FirstHop and ManyStep over the table st.
FirstRows(st, q, s) ==
  {[at |-> To(q, e), cost |-> st[e], type |-> Type(e), path |-> {Source(e), Target(e)}] :
     e \in {x \in DOMAIN st : From(q, x) = s /\ Type(x) \in q.types}}

Onward(st, q, rows) ==
  {x \in rows \X DOMAIN st :
     From(q, x[2]) = x[1].at /\ To(q, x[2]) \notin x[1].path /\ Type(x[2]) \in q.types}

StepRows(st, q, rows) ==
  {[at |-> To(q, x[2]), cost |-> x[1].cost + st[x[2]], type |-> Type(x[2]),
    path |-> x[1].path \cup {Source(x[2]), Target(x[2])}] : x \in Onward(st, q, rows)}

\* lev is the first L levels of the walks from s.
Levels(lev, L, st, q, s) ==
  /\ lev \in [1..L -> SUBSET WalkRows]
  /\ lev[1] = FirstRows(st, q, s)
  /\ \A h \in 2..L : lev[h] = StepRows(st, q, lev[h - 1])

\* The walks of the first d levels.
UpTo(lev, d) == UNION {lev[h] : h \in 1..d}

LEMMA EdgeShape ==
  ASSUME NEW q, NEW e \in GraphEdges
  PROVE  /\ From(q, e) \in GraphNodes /\ To(q, e) \in GraphNodes
         /\ {Source(e), Target(e)} = {From(q, e), To(q, e)}
         /\ Type(e) \in EdgeTypes
BY GraphAssumption DEF GraphAssumption, From, To, Source, Target, Type

LEMMA FirstShape ==
  ASSUME NEW st \in EdgeTables, NEW q, NEW s
  PROVE  /\ FirstRows(st, q, s) \subseteq WalkRows
         /\ \A r \in FirstRows(st, q, s) : \E e \in Leaving(st, q, s) :
              r.at = To(q, e) /\ r.cost = st[e] /\ r.path = {s, To(q, e)}
         /\ \A e \in Leaving(st, q, s) : \E r \in FirstRows(st, q, s) :
              r.at = To(q, e) /\ r.cost = st[e] /\ r.path = {s, To(q, e)}
<1> DEFINE row(e) == [at |-> To(q, e), cost |-> st[e], type |-> Type(e),
                      path |-> {Source(e), Target(e)}]
<1>1. DOMAIN st \subseteq GraphEdges /\ \A e \in DOMAIN st : st[e] \in Nat
  BY DEF EdgeTables
<1>2. \A e \in Leaving(st, q, s) :
        row(e) \in WalkRows /\ row(e).at = To(q, e) /\ row(e).cost = st[e] /\ row(e).path = {s, To(q, e)}
  BY <1>1, EdgeShape DEF Leaving, WalkRows
<1>3. FirstRows(st, q, s) = {row(e) : e \in Leaving(st, q, s)}
  BY DEF FirstRows, Leaving
<1> HIDE DEF row
<1> QED BY <1>2, <1>3

LEMMA StepShape ==
  ASSUME NEW st \in EdgeTables, NEW q, NEW rows \in SUBSET WalkRows,
         \A r \in rows : r.at \in r.path
  PROVE  /\ StepRows(st, q, rows) \subseteq WalkRows
         /\ \A r \in StepRows(st, q, rows) : \E x \in rows : \E e \in Leaving(st, q, x.at) :
              /\ To(q, e) \notin x.path
              /\ r.at = To(q, e) /\ r.cost = x.cost + st[e] /\ r.path = x.path \cup {To(q, e)}
         /\ \A x \in rows : \A e \in Leaving(st, q, x.at) : To(q, e) \notin x.path =>
              \E r \in StepRows(st, q, rows) :
                r.at = To(q, e) /\ r.cost = x.cost + st[e] /\ r.path = x.path \cup {To(q, e)}
<1> DEFINE row(x, e) == [at |-> To(q, e), cost |-> x.cost + st[e], type |-> Type(e),
                         path |-> x.path \cup {Source(e), Target(e)}]
<1>1. DOMAIN st \subseteq GraphEdges /\ \A e \in DOMAIN st : st[e] \in Nat
  BY DEF EdgeTables
<1>2. ASSUME NEW x \in rows, NEW e \in Leaving(st, q, x.at)
      PROVE  row(x, e) \in WalkRows /\ row(x, e).at = To(q, e) /\ row(x, e).cost = x.cost + st[e]
             /\ row(x, e).path = x.path \cup {To(q, e)}
  <2>1. x.at \in x.path /\ x.cost \in Nat /\ x.path \in SUBSET GraphNodes
    BY DEF WalkRows
  <2>2. e \in DOMAIN st /\ From(q, e) = x.at
    BY DEF Leaving
  <2>3. x.path \cup {Source(e), Target(e)} = x.path \cup {To(q, e)}
    BY <1>1, <2>1, <2>2, EdgeShape
  <2> QED BY <1>1, <2>1, <2>2, <2>3, EdgeShape DEF WalkRows
<1>3. StepRows(st, q, rows) = {row(x[1], x[2]) : x \in Onward(st, q, rows)}
  BY DEF StepRows
<1>4. \A x \in Onward(st, q, rows) :
        x[1] \in rows /\ x[2] \in Leaving(st, q, x[1].at) /\ To(q, x[2]) \notin x[1].path
  BY DEF Onward, Leaving
<1>5. ASSUME NEW x \in rows, NEW e \in Leaving(st, q, x.at), To(q, e) \notin x.path
      PROVE  row(x, e) \in StepRows(st, q, rows)
  <2>1. <<x, e>> \in Onward(st, q, rows)
    BY <1>5 DEF Onward, Leaving
  <2> HIDE DEF row
  <2> QED BY <1>3, <2>1
<1> HIDE DEF row
<1>6. ASSUME NEW r \in StepRows(st, q, rows)
      PROVE  \E x \in rows : \E e \in Leaving(st, q, x.at) : r = row(x, e) /\ To(q, e) \notin x.path
  <2>1. PICK x \in Onward(st, q, rows) : r = row(x[1], x[2])
    BY <1>3
  <2> QED BY <1>4, <2>1
<1> QED BY <1>2, <1>5, <1>6

\* Some walk of the first h levels is at y at no higher cost.
Visits(lev, h, y, cost) == \E g \in 1..h : \E x \in lev[g] : x.at = y /\ x.cost <= cost

\* What holds of the rows of every level: they are at the end of their path,
\* which began at the seed and grew with each level.
Shaped(lev, s, h, r) ==
  /\ r \in WalkRows /\ r.at \in r.path /\ s \in r.path
  /\ Cardinality(r.path) >= h
  /\ h > 1 => r.at # s
  /\ \A y \in r.path : y # s => Visits(lev, h, y, r.cost)

LEMMA LevelShape ==
  ASSUME NEW st \in EdgeTables, NEW q, NEW s \in GraphNodes, NEW L \in Nat \ {0}, NEW lev,
         Levels(lev, L, st, q, s)
  PROVE  \A h \in 1..L : \A r \in lev[h] : Shaped(lev, s, h, r)
<1> DEFINE Good(h) == \A r \in lev[h] :
             /\ r \in WalkRows /\ r.at \in r.path /\ s \in r.path
             /\ Cardinality(r.path) >= h
             /\ h > 1 => r.at # s
             /\ \A y \in r.path : y # s =>
                  \E g \in 1..h : \E x \in lev[g] : x.at = y /\ x.cost <= r.cost
           T == {n \in 0..(L - 1) : Good(n + 1)}
<1>0. \A h \in 1..L : lev[h] \in SUBSET WalkRows
  BY DEF Levels
<1>f. \A r \in WalkRows : IsFiniteSet(r.path) /\ r.cost \in Nat
  BY GraphAssumption, FS_Subset DEF GraphAssumption, WalkRows
<1>1. 0 \in T
  <2> SUFFICES Good(1)
    OBVIOUS
  <2> SUFFICES ASSUME NEW r \in lev[1]
               PROVE  /\ r \in WalkRows /\ r.at \in r.path /\ s \in r.path
                      /\ Cardinality(r.path) >= 1
                      /\ \A y \in r.path : y # s =>
                           \E g \in 1..1 : \E x \in lev[g] : x.at = y /\ x.cost <= r.cost
    OBVIOUS
  <2>1. r \in WalkRows
    BY <1>0
  <2>2. PICK e \in Leaving(st, q, s) : r.at = To(q, e) /\ r.path = {s, To(q, e)}
    BY FirstShape DEF Levels
  <2>3. Cardinality(r.path) >= 1
    <3>1. IsFiniteSet(r.path) /\ r.path # {}
      BY <1>f, <2>1, <2>2
    <3>2. Cardinality(r.path) \in Nat /\ Cardinality(r.path) # 0
      BY <3>1, FS_CardinalityType, FS_EmptySet
    <3> QED BY <3>2
  <2> QED BY <1>f, <2>1, <2>2, <2>3
<1>2. ASSUME NEW n \in 1..(L - 1), n - 1 \in T PROVE n \in T
  <2>1. Good(n) /\ n \in 1..L /\ n + 1 \in 2..L
    BY <1>2
  <2>2. lev[n + 1] = StepRows(st, q, lev[n])
    BY <2>1 DEF Levels
  <2> SUFFICES Good(n + 1)
    OBVIOUS
  <2> SUFFICES ASSUME NEW r \in lev[n + 1]
               PROVE  /\ r \in WalkRows /\ r.at \in r.path /\ s \in r.path
                      /\ Cardinality(r.path) >= n + 1
                      /\ r.at # s
                      /\ \A y \in r.path : y # s =>
                           \E g \in 1..(n + 1) : \E x \in lev[g] : x.at = y /\ x.cost <= r.cost
    OBVIOUS
  <2>a. PICK x \in lev[n] : \E e \in Leaving(st, q, x.at) :
          /\ To(q, e) \notin x.path
          /\ r.at = To(q, e) /\ r.cost = x.cost + st[e] /\ r.path = x.path \cup {To(q, e)}
    BY <1>0, <2>1, <2>2, StepShape
  <2>3. PICK e \in Leaving(st, q, x.at) :
          /\ To(q, e) \notin x.path
          /\ r.at = To(q, e) /\ r.cost = x.cost + st[e] /\ r.path = x.path \cup {To(q, e)}
    BY <2>a
  <2>4. r \in WalkRows /\ x \in WalkRows
    BY <1>0, <2>1
  <2>5. st[e] \in Nat
    BY DEF EdgeTables, Leaving
  <2>6. Cardinality(r.path) >= n + 1
    <3>1. Cardinality(x.path) \in Nat /\ Cardinality(r.path) = Cardinality(x.path) + 1
      BY <1>f, <2>3, <2>4, FS_AddElement, FS_CardinalityType
    <3> QED BY <2>1, <3>1
  <2>7. s \in x.path
    BY <2>1
  <2>8. ASSUME NEW y \in r.path, y # s
        PROVE  \E g \in 1..(n + 1) : \E z \in lev[g] : z.at = y /\ z.cost <= r.cost
    <3>1. CASE y = To(q, e)
      <4>1. r.at = y /\ r.cost <= r.cost /\ n + 1 \in 1..(n + 1)
        BY <1>f, <2>3, <2>4, <3>1
      <4> QED BY <4>1
    <3>2. CASE y \in x.path
      <4>1. PICK g \in 1..n : \E z \in lev[g] : z.at = y /\ z.cost <= x.cost
        BY <2>1, <2>8, <3>2
      <4>2. PICK z \in lev[g] : z.at = y /\ z.cost <= x.cost
        BY <4>1
      <4>3. z \in WalkRows
        BY <1>0, <2>1, <4>2
      <4>4. z.cost <= r.cost
        BY <1>f, <2>3, <2>4, <2>5, <4>2, <4>3
      <4>5. g \in 1..(n + 1)
        OBVIOUS
      <4> QED BY <4>2, <4>4, <4>5
    <3> QED BY <2>3, <2>8, <3>1, <3>2
  <2> QED BY <2>3, <2>4, <2>6, <2>7, <2>8
<1> HIDE DEF T
<1>3. \A n \in 0..(L - 1) : n \in T
  BY <1>1, <1>2, IntervalInduction
<1>4. ASSUME NEW h \in 1..L PROVE Good(h)
  <2>1. h - 1 \in T
    BY <1>3
  <2> QED BY <2>1 DEF T
<1> QED BY <1>4 DEF Shaped, Visits

LEMMA LevelEnds ==
  ASSUME NEW st \in EdgeTables, NEW q, NEW s \in GraphNodes, NEW L \in Nat \ {0}, NEW lev,
         Levels(lev, L, st, q, s),
         NEW h \in 1..L, NEW r \in lev[h]
  PROVE  /\ r \in WalkRows /\ r.at \in r.path /\ (h > 1 => r.at # s)
         /\ Cardinality(r.path) >= h
<1>1. Shaped(lev, s, h, r)
  BY LevelShape
<1> QED BY <1>1 DEF Shaped

LEMMA LevelVisits ==
  ASSUME NEW st \in EdgeTables, NEW q, NEW s \in GraphNodes, NEW L \in Nat \ {0}, NEW lev,
         Levels(lev, L, st, q, s),
         NEW h \in 1..L, NEW r \in lev[h], NEW y \in r.path, y # s
  PROVE  Visits(lev, h, y, r.cost)
<1>1. Shaped(lev, s, h, r)
  BY LevelShape
<1> QED BY <1>1 DEF Shaped

\* A walk can be continued by any edge that does not lead back to the seed,
\* at no higher cost, if need be by way of an earlier visit.
LEMMA WalkGoesOn ==
  ASSUME NEW st \in EdgeTables, NEW q, NEW s \in GraphNodes, NEW L \in Nat \ {0}, NEW lev,
         Levels(lev, L, st, q, s),
         NEW h \in 1..(L - 1), NEW r \in lev[h], NEW e \in Leaving(st, q, r.at), To(q, e) # s
  PROVE  Visits(lev, h + 1, To(q, e), r.cost + st[e])
<1>1. /\ r \in WalkRows /\ h \in 1..L /\ h + 1 \in 2..L
      /\ \A x \in lev[h] : x.at \in x.path
      /\ lev[h] \in SUBSET WalkRows /\ lev[h + 1] \in SUBSET WalkRows
      /\ lev[h + 1] = StepRows(st, q, lev[h])
      /\ \A g \in 1..h : lev[g] \in SUBSET WalkRows
  <2>1. h \in 1..L /\ h + 1 \in 2..L
    OBVIOUS
  <2>2. r \in WalkRows /\ \A x \in lev[h] : x.at \in x.path
    BY <2>1, LevelEnds
  <2> QED BY <2>1, <2>2 DEF Levels
<1>2. st[e] \in Nat /\ r.cost \in Nat
  BY <1>1 DEF EdgeTables, Leaving, WalkRows
<1>3. CASE To(q, e) \notin r.path
  <2>1. PICK x \in StepRows(st, q, lev[h]) : x.at = To(q, e) /\ x.cost = r.cost + st[e]
    BY <1>1, <1>3, StepShape
  <2>2. x \in lev[h + 1] /\ h + 1 \in 1..(h + 1) /\ x.cost <= r.cost + st[e]
    BY <1>1, <1>2, <2>1
  <2> QED BY <2>1, <2>2 DEF Visits
<1>4. CASE To(q, e) \in r.path
  <2>v. Visits(lev, h, To(q, e), r.cost)
    BY <1>1, <1>4, LevelVisits
  <2>1. PICK g \in 1..h : \E x \in lev[g] : x.at = To(q, e) /\ x.cost <= r.cost
    BY <2>v DEF Visits
  <2>2. PICK x \in lev[g] : x.at = To(q, e) /\ x.cost <= r.cost
    BY <2>1
  <2>3. x \in WalkRows
    BY <1>1
  <2>4. x.cost <= r.cost + st[e]
    BY <1>2, <2>2, <2>3 DEF WalkRows
  <2>5. g \in 1..(h + 1)
    OBVIOUS
  <2> QED BY <2>2, <2>4, <2>5 DEF Visits
<1> QED BY <1>3, <1>4

\* No walk is longer than there are nodes.
LEMMA WalksEnd ==
  ASSUME NEW st \in EdgeTables, NEW q, NEW s \in GraphNodes, NEW L \in Nat \ {0}, NEW lev,
         Levels(lev, L, st, q, s),
         NEW h \in 1..L, NEW r \in lev[h]
  PROVE  h <= Cardinality(GraphNodes)
<1>0. r \in WalkRows /\ Cardinality(r.path) >= h
  BY LevelEnds
<1>1. r.path \in SUBSET GraphNodes /\ Cardinality(r.path) >= h
  BY <1>0 DEF WalkRows
<1>2. IsFiniteSet(GraphNodes)
  BY GraphAssumption DEF GraphAssumption
<1>3. Cardinality(r.path) <= Cardinality(GraphNodes) /\ Cardinality(r.path) \in Nat
      /\ Cardinality(GraphNodes) \in Nat
  BY <1>1, <1>2, FS_Subset, FS_CardinalityType
<1> QED BY <1>1, <1>3

LEMMA LevelsExist ==
  ASSUME NEW st \in EdgeTables, NEW q, NEW s \in GraphNodes, NEW L \in Nat \ {0}
  PROVE  \E lev : Levels(lev, L, st, q, s)
<1> DEFINE W == {r \in WalkRows : r.at \in r.path}
           V == [n \in 0..(L - 1) |-> SUBSET W]
           G == [x \in Nat \X SUBSET W |-> StepRows(st, q, x[2])]
           v == FirstRows(st, q, s)
<1>1. v \in V[0]
  <2>1. \A r \in v : r.at \in r.path /\ r \in WalkRows
    BY FirstShape
  <2> QED BY <2>1
<1>2. ASSUME NEW n \in 1..(L - 1), NEW x \in V[n - 1] PROVE G[<<n, x>>] = StepRows(st, q, x) /\ G[<<n, x>>] \in V[n]
  <2>1. x \in SUBSET W
    BY <1>2
  <2>2. G[<<n, x>>] = StepRows(st, q, x)
    BY <2>1
  <2>3. x \in SUBSET WalkRows /\ \A r \in x : r.at \in r.path
    BY <2>1
  <2>4. \A r \in StepRows(st, q, x) : r \in WalkRows /\ r.at \in r.path
    <3>1. StepRows(st, q, x) \subseteq WalkRows
      BY <2>3, StepShape
    <3>2. ASSUME NEW r \in StepRows(st, q, x) PROVE r.at \in r.path
      <4>1. PICK z \in x : \E e \in Leaving(st, q, z.at) :
              r.at = To(q, e) /\ r.path = z.path \cup {To(q, e)}
        BY <2>3, StepShape
      <4> QED BY <4>1
    <3> QED BY <3>1, <3>2
  <2>5. StepRows(st, q, x) \in SUBSET W
    BY <2>4
  <2> QED BY <2>2, <2>5
<1> HIDE DEF V, G, v
<1>3. L - 1 \in Nat
  OBVIOUS
<1>4. PICK f : Runs(f, L - 1, V, G, v)
  BY <1>1, <1>2, <1>3, RecursionExists
<1> DEFINE lev == [h \in 1..L |-> f[h - 1]]
<1>5. \A n \in 0..(L - 1) : f[n] \in SUBSET W
  BY <1>4 DEF Runs, V
<1>6. lev \in [1..L -> SUBSET WalkRows]
  BY <1>5
<1>7. lev[1] = FirstRows(st, q, s)
  BY <1>4 DEF Runs, v
<1>8. ASSUME NEW h \in 2..L PROVE lev[h] = StepRows(st, q, lev[h - 1])
  <2>1. h - 1 \in 1..(L - 1) /\ h - 2 \in 0..(L - 1) /\ h - 1 - 1 = h - 2
    OBVIOUS
  <2>2. f[h - 1] = G[<<h - 1, f[h - 1 - 1]>>]
    BY <1>4, <2>1 DEF Runs
  <2>3. f[h - 1 - 1] \in V[h - 1 - 1]
    BY <1>4, <2>1 DEF Runs
  <2>4. f[h - 1] = StepRows(st, q, f[h - 1 - 1])
    BY <1>2, <2>1, <2>2, <2>3
  <2>5. lev[h] = f[h - 1] /\ lev[h - 1] = f[h - 1 - 1]
    BY <2>1
  <2> QED BY <2>4, <2>5
<1> HIDE DEF lev
<1> QED BY <1>6, <1>7, <1>8 DEF Levels

LEMMA LevelsAgree ==
  ASSUME NEW st \in EdgeTables, NEW q, NEW s \in GraphNodes, NEW L \in Nat \ {0}, NEW lev,
         Levels(lev, L, st, q, s),
         NEW d \in 1..L, NEW g,
         \A h \in 1..d : g[h] = IF h = 1 THEN FirstRows(st, q, s) ELSE StepRows(st, q, g[h - 1])
  PROVE  \A h \in 1..d : g[h] = lev[h]
<1> DEFINE T == {n \in 0..(d - 1) : g[n + 1] = lev[n + 1]}
<1>1. 0 \in T
  BY DEF Levels
<1>2. ASSUME NEW n \in 1..(d - 1), n - 1 \in T PROVE n \in T
  <2>1. n + 1 \in 2..L /\ n + 1 \in 1..d /\ n + 1 # 1 /\ n + 1 - 1 = n /\ n - 1 + 1 = n
    OBVIOUS
  <2>2. g[n] = lev[n]
    BY <1>2, <2>1
  <2>3. g[n + 1] = StepRows(st, q, g[n]) /\ lev[n + 1] = StepRows(st, q, lev[n])
    BY <2>1 DEF Levels
  <2> QED BY <2>2, <2>3
<1> HIDE DEF T
<1>3. \A n \in 0..(d - 1) : n \in T
  BY <1>1, <1>2, IntervalInduction
<1>4. ASSUME NEW h \in 1..d PROVE g[h] = lev[h]
  <2>1. h - 1 \in T /\ h - 1 + 1 = h
    BY <1>3
  <2> QED BY <2>1 DEF T
<1> QED BY <1>4

\* The walks the query returns are those levels.
LEMMA ManyAreLevels ==
  ASSUME stored \in EdgeTables, NEW q, NEW s \in GraphNodes, NEW L \in Nat \ {0}, NEW lev,
         Levels(lev, L, stored, q, s), NEW d \in 1..L
  PROVE  ManyWalks(q, s, d) = UpTo(lev, d)
<1> DEFINE level[h \in 1..d] == IF h = 1 THEN FirstHop(q, s) ELSE ManyStep(q, level[h - 1])
           f == [h \in 1..d |-> lev[h]]
<1>0. FirstHop(q, s) = FirstRows(stored, q, s) /\ \A rows : ManyStep(q, rows) = StepRows(stored, q, rows)
  BY DEF FirstHop, FirstRows, ManyStep, StepRows, Extensions, Onward
<1>1. f = [h \in 1..d |-> IF h = 1 THEN FirstHop(q, s) ELSE ManyStep(q, f[h - 1])]
  <2>1. ASSUME NEW h \in 1..d
        PROVE  lev[h] = IF h = 1 THEN FirstHop(q, s) ELSE ManyStep(q, f[h - 1])
    <3>1. CASE h = 1
      BY <1>0, <3>1 DEF Levels
    <3>2. CASE h # 1
      <4>1. h \in 2..L /\ h - 1 \in 1..d
        BY <3>2
      <4>2. lev[h] = StepRows(stored, q, lev[h - 1]) /\ f[h - 1] = lev[h - 1]
        BY <4>1 DEF Levels
      <4> QED BY <1>0, <3>2, <4>2
    <3> QED BY <3>1, <3>2
  <2> QED BY <2>1
<1>2. level = [h \in 1..d |-> IF h = 1 THEN FirstHop(q, s) ELSE ManyStep(q, level[h - 1])]
  <2> HIDE DEF f
  <2> DEFINE Fixed(g) == g = [h \in 1..d |-> IF h = 1 THEN FirstHop(q, s) ELSE ManyStep(q, g[h - 1])]
  <2>1. Fixed(f)
    BY <1>1
  <2>2. level = CHOOSE g : Fixed(g)
    OBVIOUS
  <2> HIDE DEF level
  <2>3. Fixed(level)
    BY <2>1, <2>2
  <2> QED BY <2>3
<1>3. ManyWalks(q, s, d) = UNION {level[h] : h \in 1..d}
  BY DEF ManyWalks
<1> HIDE DEF level
<1>4. ASSUME NEW h \in 1..d
      PROVE  level[h] = IF h = 1 THEN FirstRows(stored, q, s) ELSE StepRows(stored, q, level[h - 1])
  <2>1. level[h] = IF h = 1 THEN FirstHop(q, s) ELSE ManyStep(q, level[h - 1])
    BY <1>2
  <2> QED BY <1>0, <2>1
<1>5. \A h \in 1..d : level[h] = lev[h]
  BY <1>4, LevelsAgree
<1> QED BY <1>3, <1>5 DEF UpTo

\* Outgoing, the query for one seed takes the same steps.
LEMMA SingleAreLevels ==
  ASSUME stored \in EdgeTables, NEW q, ~q.incoming, q.depth \in Nat \ {0},
         NEW s \in GraphNodes, NEW L \in Nat \ {0}, NEW lev,
         Levels(lev, L, stored, q, s), q.depth \in 1..L
  PROVE  SingleWalks(q, s) = UpTo(lev, q.depth)
<1> DEFINE d == q.depth
           level[h \in 1..d] == IF h = 1 THEN FirstHop(q, s) ELSE SingleStep(q, level[h - 1])
           f == [h \in 1..d |-> lev[h]]
<1>0. FirstHop(q, s) = FirstRows(stored, q, s)
  BY DEF FirstHop, FirstRows
<1>a. ASSUME NEW rows, \A r \in rows : r.at \in r.path
      PROVE  SingleStep(q, rows) = StepRows(stored, q, rows)
  <2>1. \A x \in Onward(stored, q, rows) :
          /\ x[1].path \cup {Source(x[2]), Target(x[2])} = x[1].path \cup {To(q, x[2])}
          /\ To(q, x[2]) = Target(x[2])
    BY <1>a DEF Onward, From, To
  <2>2. SingleStep(q, rows)
          = {[at |-> Target(x[2]), cost |-> x[1].cost + stored[x[2]], type |-> Type(x[2]),
              path |-> x[1].path \cup {To(q, x[2])}] : x \in Onward(stored, q, rows)}
    BY DEF SingleStep, Extensions, Onward
  <2> DEFINE row(x) == [at |-> To(q, x[2]), cost |-> x[1].cost + stored[x[2]], type |-> Type(x[2]),
                        path |-> x[1].path \cup {Source(x[2]), Target(x[2])}]
             other(x) == [at |-> Target(x[2]), cost |-> x[1].cost + stored[x[2]], type |-> Type(x[2]),
                          path |-> x[1].path \cup {To(q, x[2])}]
  <2>3. \A x \in Onward(stored, q, rows) : row(x) = other(x)
    BY <2>1
  <2>4. StepRows(stored, q, rows) = {row(x) : x \in Onward(stored, q, rows)}
    BY DEF StepRows
  <2>5. SingleStep(q, rows) = {other(x) : x \in Onward(stored, q, rows)}
    BY <2>2
  <2> HIDE DEF row, other
  <2> QED BY <2>3, <2>4, <2>5
<1>b. \A h \in 1..L : \A r \in lev[h] : r.at \in r.path
  BY LevelEnds
<1>1. f = [h \in 1..d |-> IF h = 1 THEN FirstHop(q, s) ELSE SingleStep(q, f[h - 1])]
  <2>1. ASSUME NEW h \in 1..d
        PROVE  lev[h] = IF h = 1 THEN FirstHop(q, s) ELSE SingleStep(q, f[h - 1])
    <3>1. CASE h = 1
      BY <1>0, <3>1 DEF Levels
    <3>2. CASE h # 1
      <4>1. h \in 2..L /\ h - 1 \in 1..d /\ h - 1 \in 1..L
        BY <3>2
      <4>2. lev[h] = StepRows(stored, q, lev[h - 1]) /\ f[h - 1] = lev[h - 1]
        BY <4>1 DEF Levels
      <4> QED BY <1>a, <1>b, <3>2, <4>1, <4>2
    <3> QED BY <3>1, <3>2
  <2> QED BY <2>1
<1>2. level = [h \in 1..d |-> IF h = 1 THEN FirstHop(q, s) ELSE SingleStep(q, level[h - 1])]
  <2> HIDE DEF f
  <2> DEFINE Fixed(g) == g = [h \in 1..d |-> IF h = 1 THEN FirstHop(q, s) ELSE SingleStep(q, g[h - 1])]
  <2>1. Fixed(f)
    BY <1>1
  <2>2. level = CHOOSE g : Fixed(g)
    OBVIOUS
  <2> HIDE DEF level
  <2>3. Fixed(level)
    BY <2>1, <2>2
  <2> QED BY <2>3
<1>3. SingleWalks(q, s) = UNION {level[h] : h \in 1..d}
  BY DEF SingleWalks
<1> HIDE DEF level
<1> DEFINE T == {n \in 0..(d - 1) : level[n + 1] = lev[n + 1]}
<1>4. 0 \in T
  BY <1>0, <1>2 DEF Levels
<1>5. ASSUME NEW n \in 1..(d - 1), n - 1 \in T PROVE n \in T
  <2>1. n + 1 \in 2..L /\ n + 1 \in 1..d /\ n + 1 # 1 /\ n + 1 - 1 = n /\ n - 1 + 1 = n /\ n \in 1..L
    OBVIOUS
  <2>2. level[n] = lev[n]
    BY <1>5, <2>1
  <2>3. level[n + 1] = SingleStep(q, level[n]) /\ lev[n + 1] = StepRows(stored, q, lev[n])
    BY <1>2, <2>1 DEF Levels
  <2>4. level[n + 1] = lev[n + 1]
    BY <1>a, <1>b, <2>1, <2>2, <2>3
  <2> QED BY <2>4
<1> HIDE DEF T
<1>6. \A n \in 0..(d - 1) : n \in T
  BY <1>4, <1>5, IntervalInduction
<1>7. ASSUME NEW h \in 1..d PROVE level[h] = lev[h]
  <2>1. h - 1 \in T /\ h - 1 + 1 = h
    BY <1>6
  <2> QED BY <2>1 DEF T
<1> QED BY <1>3, <1>7 DEF UpTo

\* Per neighbour the cost of some row, and of none a lower one.
LEMMA CheapestIsLeast ==
  ASSUME NEW rows \in SUBSET WalkRows
  PROVE  /\ DOMAIN Cheapest(rows) = {r.at : r \in rows}
         /\ \A n \in {r.at : r \in rows} :
              /\ Cheapest(rows)[n] \in Nat
              /\ \E r \in rows : r.at = n /\ r.cost = Cheapest(rows)[n]
              /\ \A r \in rows : r.at = n => Cheapest(rows)[n] <= r.cost
<1>0. \A r \in rows : r.cost \in Nat
  BY DEF WalkRows
<1>1. DOMAIN Cheapest(rows) = {r.at : r \in rows}
  BY DEF Cheapest
<1>2. ASSUME NEW n \in {r.at : r \in rows}
      PROVE  /\ Cheapest(rows)[n] \in Nat
             /\ \E r \in rows : r.at = n /\ r.cost = Cheapest(rows)[n]
             /\ \A r \in rows : r.at = n => Cheapest(rows)[n] <= r.cost
  <2> DEFINE Q == {r.cost : r \in {x \in rows : x.at = n}}
             Least(c) == /\ \E r \in rows : r.at = n /\ r.cost = c
                         /\ \A r \in rows : r.at = n => c <= r.cost
  <2>1. Q \in SUBSET Nat /\ Q # {}
    BY <1>0, <1>2
  <2>2. PICK c \in Q : \A k \in Q : c <= k
    BY <2>1, LeastExists
  <2>3. c \in {r.cost : r \in rows} /\ Least(c)
    BY <2>2
  <2>4. Cheapest(rows)[n] = CHOOSE x \in {r.cost : r \in rows} : Least(x)
    BY <1>2 DEF Cheapest
  <2>5. Cheapest(rows)[n] \in {r.cost : r \in rows} /\ Least(Cheapest(rows)[n])
    <3> HIDE DEF Least
    <3> QED BY <2>3, <2>4
  <2> QED BY <1>0, <2>5
<1> QED BY <1>1, <1>2

-----------------------------------------------------------------------------
(* The walk of the local store, hop by hop.                                 *)

\* Levels enough for any question: one more than the longest walk.
Far(q) == q.depth + Cardinality(GraphNodes)

\* What a walk can know of the nodes.
Bests == UNION {[N -> EdgeTypes \X Nat] : N \in SUBSET GraphNodes}

\* What the walk from seed s knows in hop H, with rows still to be read.  All
\* it names is reached by a walk as short and by one as cheap; what walks of
\* the hops before reach, it has at no higher cost; they end in the frontier,
\* or a shorter one with the same path does; and each row read of this hop has
\* told what it leads to.
SeedOk(q, H, frontier, next, rows, best, st, s, lev) ==
  /\ H = 0 => frontier = {s}
  /\ H > 0 => \A n \in frontier : /\ n # s /\ n \in DOMAIN best
                                  /\ \E h \in 1..H : \E r \in lev[h] : r.at = n
  /\ next \subseteq DOMAIN best
  /\ \A n \in DOMAIN best :
       /\ n # s
       /\ \E h \in 1..(H + 1) : \E r \in lev[h] : r.at = n
       /\ \E h \in 1..Cardinality(GraphNodes) : \E r \in lev[h] : r.at = n /\ r.cost <= best[n][2]
       /\ H = 0 => \E r \in lev[1] : r.at = n /\ r.cost = best[n][2]
  /\ \A h \in 1..H : \A r \in lev[h] :
       r.at # s => r.at \in DOMAIN best /\ best[r.at][2] <= r.cost
  /\ H > 0 => \A r \in lev[H] :
       \/ r.at = s \/ r.at \in frontier
       \/ H > 1 /\ \E x \in lev[H - 1] : x.at = r.at /\ x.path = r.path /\ x.cost <= r.cost
  /\ \A e \in DOMAIN st \ rows :
       (From(q, e) \in frontier /\ To(q, e) # s /\ Type(e) \in q.types) =>
         /\ To(q, e) \in next /\ To(q, e) \in DOMAIN best
         /\ H = 0 => best[To(q, e)][2] <= st[e]
         /\ H > 0 => \A x \in lev[H] : x.at = From(q, e) => best[To(q, e)][2] <= x.cost + st[e]

LEMMA AreBests ==
  ASSUME NEW N \in SUBSET GraphNodes, NEW f \in [N -> EdgeTypes \X Nat]
  PROVE  f \in Bests
BY DEF Bests

LEMMA FarEnough ==
  ASSUME NEW q, q.depth \in Nat \ {0}
  PROVE  /\ Cardinality(GraphNodes) \in Nat /\ Far(q) \in Nat \ {0}
         /\ q.depth <= Far(q) /\ Cardinality(GraphNodes) <= Far(q) - 1
BY GraphAssumption, FS_CardinalityType DEF GraphAssumption, Far

\* What a row tells the answer of a seed whose frontier it leaves.
ReadCost(q, H, st, best, e) ==
  st[e] + IF H > 0 /\ From(q, e) \in DOMAIN best THEN best[From(q, e)][2] ELSE 0

Told(q, H, st, best, e) ==
  IF To(q, e) \notin DOMAIN best \/ ReadCost(q, H, st, best, e) < best[To(q, e)][2]
  THEN [n \in DOMAIN best \cup {To(q, e)} |->
          IF n = To(q, e) THEN <<Type(e), ReadCost(q, H, st, best, e)>> ELSE best[n]]
  ELSE best

LEMMA SeedReads ==
  ASSUME NEW st \in EdgeTables, NEW q, q.depth \in Nat \ {0}, NEW s \in GraphNodes, NEW lev,
         Levels(lev, Far(q), st, q, s),
         NEW H \in 0..(q.depth - 1), NEW frontier, NEW next, NEW rows \in SUBSET DOMAIN st,
         NEW best \in Bests, NEW e \in rows,
         SeedOk(q, H, frontier, next, rows, best, st, s, lev),
         From(q, e) \in frontier, To(q, e) # s, Type(e) \in q.types
  PROVE  /\ Told(q, H, st, best, e) \in Bests
         /\ SeedOk(q, H, frontier, next \cup {To(q, e)}, rows \ {e}, Told(q, H, st, best, e), st, s, lev)
<1> DEFINE target == To(q, e)
           parent == From(q, e)
           L == Far(q)
           V == Cardinality(GraphNodes)
           cost == ReadCost(q, H, st, best, e)
           best2 == Told(q, H, st, best, e)
<1>c. cost = st[e] + (IF H > 0 /\ From(q, e) \in DOMAIN best THEN best[From(q, e)][2] ELSE 0)
  BY DEF ReadCost
<1>t. best2 = IF To(q, e) \notin DOMAIN best \/ cost < best[To(q, e)][2]
              THEN [n \in DOMAIN best \cup {To(q, e)} |->
                      IF n = To(q, e) THEN <<Type(e), cost>> ELSE best[n]]
              ELSE best
  BY DEF Told
<1> HIDE DEF cost, best2
<1>0. /\ V \in Nat /\ L \in Nat \ {0} /\ q.depth <= L /\ V <= L - 1 /\ H + 1 <= L /\ H \in Nat
  BY FarEnough
<1>1. /\ e \in GraphEdges /\ st[e] \in Nat /\ e \in DOMAIN st
      /\ target \in GraphNodes /\ parent \in GraphNodes /\ Type(e) \in EdgeTypes
  BY EdgeShape DEF EdgeTables
<1>2. /\ DOMAIN best \subseteq GraphNodes
      /\ \A n \in DOMAIN best : best[n] \in EdgeTypes \X Nat /\ best[n][2] \in Nat
      /\ best = [n \in DOMAIN best |-> best[n]]
  BY DEF Bests
<1>3. e \in Leaving(st, q, parent)
  BY <1>1 DEF Leaving
<1>4. cost \in Nat
  BY <1>1, <1>2, <1>c
<1>5. /\ best2 \in Bests
      /\ DOMAIN best2 = DOMAIN best \cup {target}
      /\ \A n \in DOMAIN best2 : best2[n][2] \in Nat
      /\ \A n \in DOMAIN best : best2[n][2] <= best[n][2]
      /\ best2[target][2] <= cost
      /\ \A n \in DOMAIN best2 : (n \in DOMAIN best /\ best2[n] = best[n]) \/ (n = target /\ best2[n][2] = cost)
  <2>1. CASE target \notin DOMAIN best \/ cost < best[target][2]
    <3>1. best2 = [n \in DOMAIN best \cup {target} |-> IF n = target THEN <<Type(e), cost>> ELSE best[n]]
      BY <1>t, <2>1
    <3>2. DOMAIN best2 = DOMAIN best \cup {target}
      BY <3>1
    <3>3. best2[target] = <<Type(e), cost>> /\ \A n \in DOMAIN best : n # target => best2[n] = best[n]
      BY <3>1
    <3>4. best2 \in [DOMAIN best \cup {target} -> EdgeTypes \X Nat]
      BY <1>1, <1>2, <1>4, <3>1
    <3>5. best2 \in Bests
      <4>1. DOMAIN best \cup {target} \in SUBSET GraphNodes
        BY <1>1, <1>2
      <4> HIDE DEF target
      <4> QED BY <3>4, <4>1, AreBests
    <3>6. best2[target][2] = cost
      BY <3>3
    <3>7. \A n \in DOMAIN best : best2[n][2] <= best[n][2]
      BY <1>2, <1>4, <2>1, <3>3, <3>6
    <3> QED BY <1>2, <1>4, <3>2, <3>3, <3>5, <3>6, <3>7
  <2>2. CASE ~(target \notin DOMAIN best \/ cost < best[target][2])
    <3>1. best2 = best
      BY <1>t, <2>2
    <3>2. target \in DOMAIN best /\ best[target][2] \in Nat /\ ~(cost < best[target][2])
      BY <1>2, <2>2
    <3>3. best2[target][2] <= cost
      BY <1>4, <3>1, <3>2
    <3>4. DOMAIN best = DOMAIN best \cup {target}
      BY <3>2
    <3>5. \A n \in DOMAIN best : best[n][2] <= best[n][2]
      BY <1>2
    <3> HIDE DEF target
    <3> QED BY <1>2, <3>1, <3>3, <3>4, <3>5
  <2> QED BY <2>1, <2>2
<1>6. /\ H = 0 => frontier = {s}
      /\ H > 0 => \A n \in frontier : /\ n # s /\ n \in DOMAIN best
                                      /\ \E h \in 1..H : \E r \in lev[h] : r.at = n
      /\ next \subseteq DOMAIN best
  BY DEF SeedOk
<1>7. \A n \in DOMAIN best :
        /\ n # s
        /\ \E h \in 1..(H + 1) : \E r \in lev[h] : r.at = n
        /\ \E h \in 1..V : \E r \in lev[h] : r.at = n /\ r.cost <= best[n][2]
        /\ H = 0 => \E r \in lev[1] : r.at = n /\ r.cost = best[n][2]
  BY DEF SeedOk
<1>8. \A h \in 1..H : \A r \in lev[h] : r.at # s => r.at \in DOMAIN best /\ best[r.at][2] <= r.cost
  BY DEF SeedOk
<1>9. \A h \in 1..L : \A r \in lev[h] : r.cost \in Nat /\ r \in WalkRows
  <2>1. \A h \in 1..L : \A r \in lev[h] : r \in WalkRows
    BY <1>0, LevelEnds
  <2> QED BY <2>1 DEF WalkRows
<1>10. H > 0 => parent \in DOMAIN best /\ parent # s /\ cost = st[e] + best[parent][2]
  BY <1>6, <1>c
<1>11. H = 0 => parent = s /\ cost = st[e]
  BY <1>1, <1>6, <1>c
<1>12. /\ \E h \in 1..(H + 1) : \E r \in lev[h] : r.at = target
       /\ \E h \in 1..V : \E r \in lev[h] : r.at = target /\ r.cost <= cost
       /\ H = 0 => \E r \in lev[1] : r.at = target /\ r.cost = cost
  <2>1. CASE H = 0
    <3>1. PICK r \in lev[1] : r.at = target /\ r.cost = st[e]
      BY <1>3, <1>11, <2>1, FirstShape DEF Levels
    <3>2. 1 \in 1..L /\ 1 \in 1..(H + 1)
      BY <1>0
    <3>3. 1 <= V
      BY <1>0, <3>1, <3>2, WalksEnd
    <3>4. 1 \in 1..V /\ r.cost <= cost /\ r.cost = cost
      BY <1>0, <1>4, <1>11, <2>1, <3>1, <3>3
    <3> QED BY <3>1, <3>2, <3>4
  <2>2. CASE H > 0
    <3>1. PICK h \in 1..H : \E r \in lev[h] : r.at = parent
      BY <1>6, <2>2
    <3>2. PICK r \in lev[h] : r.at = parent
      BY <3>1
    <3>3. h \in 1..(L - 1)
      BY <1>0
    <3>a. Visits(lev, h + 1, target, r.cost + st[e])
      BY <1>0, <1>3, <3>2, <3>3, WalkGoesOn
    <3>4. PICK g \in 1..(h + 1) : \E x \in lev[g] : x.at = target /\ x.cost <= r.cost + st[e]
      BY <3>a DEF Visits
    <3>5. g \in 1..(H + 1)
      OBVIOUS
    <3>6. PICK k \in 1..V : \E x \in lev[k] : x.at = parent /\ x.cost <= best[parent][2]
      BY <1>7, <1>10, <2>2
    <3>7. PICK x \in lev[k] : x.at = parent /\ x.cost <= best[parent][2]
      BY <3>6
    <3>8. k \in 1..(L - 1) /\ k \in 1..L
      BY <1>0
    <3>b. Visits(lev, k + 1, target, x.cost + st[e])
      BY <1>0, <1>3, <3>7, <3>8, WalkGoesOn
    <3>9. PICK j \in 1..(k + 1) : \E z \in lev[j] : z.at = target /\ z.cost <= x.cost + st[e]
      BY <3>b DEF Visits
    <3>10. PICK z \in lev[j] : z.at = target /\ z.cost <= x.cost + st[e]
      BY <3>9
    <3>11. j \in 1..L
      BY <1>0, <3>8
    <3>12. j <= V
      BY <1>0, <3>10, <3>11, WalksEnd
    <3>13. z.cost <= cost
      <4>1. z.cost \in Nat /\ x.cost \in Nat /\ best[parent][2] \in Nat
        BY <1>2, <1>9, <1>10, <2>2, <3>7, <3>8, <3>10, <3>11
      <4> QED BY <1>1, <1>10, <2>2, <3>7, <3>10, <4>1
    <3>14. j \in 1..V
      BY <1>0, <3>12
    <3> QED BY <2>2, <3>4, <3>5, <3>10, <3>13, <3>14
  <2> QED BY <1>0, <2>1, <2>2
<1>13. \A n \in DOMAIN best2 :
         /\ n # s
         /\ \E h \in 1..(H + 1) : \E r \in lev[h] : r.at = n
         /\ \E h \in 1..V : \E r \in lev[h] : r.at = n /\ r.cost <= best2[n][2]
         /\ H = 0 => \E r \in lev[1] : r.at = n /\ r.cost = best2[n][2]
  <2> SUFFICES ASSUME NEW n \in DOMAIN best2
               PROVE  /\ n # s
                      /\ \E h \in 1..(H + 1) : \E r \in lev[h] : r.at = n
                      /\ \E h \in 1..V : \E r \in lev[h] : r.at = n /\ r.cost <= best2[n][2]
                      /\ H = 0 => \E r \in lev[1] : r.at = n /\ r.cost = best2[n][2]
    OBVIOUS
  <2>1. CASE n \in DOMAIN best /\ best2[n] = best[n]
    BY <1>7, <2>1
  <2>2. CASE n = target /\ best2[n][2] = cost
    BY <1>12, <2>2
  <2> QED BY <1>5, <2>1, <2>2
<1>14. ASSUME NEW h \in 1..H, NEW r \in lev[h], r.at # s
       PROVE  r.at \in DOMAIN best2 /\ best2[r.at][2] <= r.cost
  <2>1. r.at \in DOMAIN best /\ best[r.at][2] <= r.cost
    BY <1>8, <1>14
  <2>2. h \in 1..L
    BY <1>0
  <2>3. r.cost \in Nat /\ best[r.at][2] \in Nat /\ best2[r.at][2] \in Nat /\ best2[r.at][2] <= best[r.at][2]
    BY <1>2, <1>5, <1>9, <2>1, <2>2
  <2> QED BY <1>5, <2>1, <2>3
<1>15. ASSUME NEW d \in DOMAIN st \ (rows \ {e}),
              From(q, d) \in frontier, To(q, d) # s, Type(d) \in q.types
       PROVE  /\ To(q, d) \in next \cup {target} /\ To(q, d) \in DOMAIN best2
              /\ H = 0 => best2[To(q, d)][2] <= st[d]
              /\ H > 0 => \A x \in lev[H] : x.at = From(q, d) => best2[To(q, d)][2] <= x.cost + st[d]
  <2>1. CASE d = e
    <3>1. ASSUME H > 0, NEW x \in lev[H], x.at = parent PROVE best2[target][2] <= x.cost + st[e]
      <4>1. H \in 1..H /\ H \in 1..L
        BY <1>0, <3>1
      <4>2. best[parent][2] <= x.cost /\ x.cost \in Nat /\ best[parent][2] \in Nat
        BY <1>2, <1>8, <1>9, <1>10, <3>1, <4>1
      <4>3. best2[target][2] \in Nat /\ best2[target][2] <= cost
        BY <1>5
      <4> QED BY <1>1, <1>10, <3>1, <4>2, <4>3
    <3> QED BY <1>5, <1>11, <2>1, <3>1
  <2>2. CASE d # e
    <3>1. d \in DOMAIN st \ rows /\ st[d] \in Nat
      BY <2>2 DEF EdgeTables
    <3>2. /\ To(q, d) \in next /\ To(q, d) \in DOMAIN best
          /\ H = 0 => best[To(q, d)][2] <= st[d]
          /\ H > 0 => \A x \in lev[H] : x.at = From(q, d) => best[To(q, d)][2] <= x.cost + st[d]
      BY <1>15, <3>1 DEF SeedOk
    <3>3. /\ best[To(q, d)][2] \in Nat /\ best2[To(q, d)][2] \in Nat
          /\ best2[To(q, d)][2] <= best[To(q, d)][2] /\ To(q, d) \in DOMAIN best2
      BY <1>2, <1>5, <3>2
    <3>4. ASSUME H > 0, NEW x \in lev[H], x.at = From(q, d) PROVE best2[To(q, d)][2] <= x.cost + st[d]
      <4>1. H \in 1..L
        BY <1>0, <3>4
      <4>2. x.cost \in Nat /\ best[To(q, d)][2] <= x.cost + st[d]
        BY <1>9, <3>2, <3>4, <4>1
      <4> QED BY <3>1, <3>3, <4>2
    <3> QED BY <3>1, <3>2, <3>3, <3>4
  <2> QED BY <2>1, <2>2
<1>16. H > 0 => \A n \in frontier : n # s /\ n \in DOMAIN best2 /\ \E h \in 1..H : \E r \in lev[h] : r.at = n
  BY <1>5, <1>6
<1>17. next \cup {target} \subseteq DOMAIN best2
  BY <1>5, <1>6
<1>18. H > 0 => \A r \in lev[H] :
         \/ r.at = s \/ r.at \in frontier
         \/ H > 1 /\ \E x \in lev[H - 1] : x.at = r.at /\ x.path = r.path /\ x.cost <= r.cost
  BY DEF SeedOk
<1> HIDE DEF target, parent, L, V
<1> QED BY ONLY <1>5, <1>6, <1>13, <1>14, <1>15, <1>16, <1>17, <1>18 DEF SeedOk, target, V, best2

\* Once its rows are read, a hop has found what the walks one longer find.
LEMMA HopEnds ==
  ASSUME NEW st \in EdgeTables, NEW q, q.depth \in Nat \ {0}, NEW s \in GraphNodes, NEW lev,
         Levels(lev, Far(q), st, q, s),
         NEW H \in 0..(q.depth - 1), NEW frontier, NEW next, NEW best \in Bests,
         SeedOk(q, H, frontier, next, {}, best, st, s, lev)
  PROVE  /\ \A h \in 1..(H + 1) : \A r \in lev[h] :
              r.at # s => r.at \in DOMAIN best /\ best[r.at][2] <= r.cost
         /\ \A r \in lev[H + 1] :
              \/ r.at = s \/ r.at \in next
              \/ H + 1 > 1 /\ \E x \in lev[H] : x.at = r.at /\ x.path = r.path /\ x.cost <= r.cost
<1> DEFINE L == Far(q)
<1>0. L \in Nat \ {0} /\ H + 1 <= L /\ H \in Nat
  BY FarEnough
<1>1. \A n \in DOMAIN best : best[n][2] \in Nat
  BY DEF Bests
<1>l. \A h \in 1..L : lev[h] \in SUBSET WalkRows
  BY DEF Levels
<1>r. \A h \in 1..L : \A r \in lev[h] : r \in WalkRows /\ r.at \in r.path /\ (h > 1 => r.at # s)
  <2>1. Levels(lev, L, st, q, s) /\ L \in Nat \ {0}
    BY <1>0
  <2> HIDE DEF L
  <2> QED BY ONLY st \in EdgeTables, s \in GraphNodes, <2>1, LevelEnds
<1>2. \A h \in 1..L : lev[h] \in SUBSET WalkRows /\ \A r \in lev[h] : r \in WalkRows /\ r.at \in r.path
  BY <1>l, <1>r
<1>c. \A h \in 1..L : \A r \in lev[h] : r.cost \in Nat
  BY <1>2 DEF WalkRows
<1>3. \A h \in 1..H : \A r \in lev[h] : r.at # s => r.at \in DOMAIN best /\ best[r.at][2] <= r.cost
  BY DEF SeedOk
<1>4. \A e \in DOMAIN st :
        (From(q, e) \in frontier /\ To(q, e) # s /\ Type(e) \in q.types) =>
          /\ To(q, e) \in next /\ To(q, e) \in DOMAIN best
          /\ H = 0 => best[To(q, e)][2] <= st[e]
          /\ H > 0 => \A x \in lev[H] : x.at = From(q, e) => best[To(q, e)][2] <= x.cost + st[e]
  BY DEF SeedOk
<1> DEFINE Found(r) == r.at \in DOMAIN best /\ best[r.at][2] <= r.cost
           Ends(r) == \/ r.at \in next
                      \/ H + 1 > 1 /\ \E x \in lev[H] : x.at = r.at /\ x.path = r.path /\ x.cost <= r.cost
<1>5. ASSUME NEW r \in lev[H + 1], r.at # s PROVE Found(r) /\ Ends(r)
  <2>1. CASE H = 0
    <3>1. PICK e \in Leaving(st, q, s) : r.at = To(q, e) /\ r.cost = st[e]
      BY <2>1, FirstShape DEF Levels
    <3>2. e \in DOMAIN st /\ From(q, e) \in frontier /\ Type(e) \in q.types
      BY <2>1, <3>1 DEF Leaving, SeedOk
    <3> QED BY <1>4, <1>5, <2>1, <3>1, <3>2
  <2>2. CASE H > 0
    <3>1. lev[H + 1] = StepRows(st, q, lev[H]) /\ H \in 1..L /\ H \in 1..H
      <4>1. H + 1 \in 2..L /\ H + 1 - 1 = H
        BY <1>0, <2>2
      <4> QED BY <1>0, <2>2, <4>1 DEF Levels
    <3>2. PICK x \in lev[H] : \E e \in Leaving(st, q, x.at) :
            /\ To(q, e) \notin x.path
            /\ r.at = To(q, e) /\ r.cost = x.cost + st[e] /\ r.path = x.path \cup {To(q, e)}
      BY <1>2, <3>1, StepShape
    <3>3. PICK e \in Leaving(st, q, x.at) :
            /\ To(q, e) \notin x.path
            /\ r.at = To(q, e) /\ r.cost = x.cost + st[e] /\ r.path = x.path \cup {To(q, e)}
      BY <3>2
    <3>4. /\ e \in DOMAIN st /\ From(q, e) = x.at /\ Type(e) \in q.types
          /\ st[e] \in Nat /\ x.cost \in Nat /\ r.cost \in Nat
      BY <1>c, <3>1, <3>3 DEF Leaving, EdgeTables
    <3>5. CASE x.at \in frontier
      BY <1>4, <1>5, <2>2, <3>3, <3>4, <3>5
    <3>6. ASSUME NEW z \in lev[H], z.at = r.at, z.path = r.path, z.cost <= r.cost
          PROVE  Found(r) /\ Ends(r)
      <4>1. r.at \in DOMAIN best /\ best[r.at][2] <= z.cost
        BY <1>3, <1>5, <3>1, <3>6
      <4>2. z.cost \in Nat /\ best[r.at][2] \in Nat
        BY <1>1, <1>c, <3>1, <4>1
      <4>3. best[r.at][2] <= r.cost
        BY <3>4, <3>6, <4>1, <4>2
      <4> QED BY <1>0, <2>2, <3>6, <4>1, <4>3
    <3>7. CASE x.at = s
      <4>1. H = 1
        BY <1>0, <1>r, <3>1, <3>7
      <4>2. PICK d \in Leaving(st, q, s) : x.at = To(q, d) /\ x.path = {s, To(q, d)}
        BY <4>1, FirstShape DEF Levels
      <4>3. x.path = {s}
        BY <3>7, <4>2
      <4>4. PICK z \in FirstRows(st, q, s) : z.at = To(q, e) /\ z.cost = st[e] /\ z.path = {s, To(q, e)}
        BY <3>7, FirstShape
      <4>5. z \in lev[H]
        BY <4>1, <4>4 DEF Levels
      <4>6. z.at = r.at /\ z.path = r.path /\ z.cost <= r.cost
        BY <3>3, <3>4, <4>3, <4>4
      <4> QED BY <3>6, <4>5, <4>6
    <3>8. CASE H > 1 /\ \E y \in lev[H - 1] : y.at = x.at /\ y.path = x.path /\ y.cost <= x.cost
      <4>1. PICK y \in lev[H - 1] : y.at = x.at /\ y.path = x.path /\ y.cost <= x.cost
        BY <3>8
      <4>2. H - 1 \in 1..L /\ H \in 2..L
        BY <1>0, <3>8
      <4>3. lev[H] = StepRows(st, q, lev[H - 1])
        BY <4>2 DEF Levels
      <4>4. e \in Leaving(st, q, y.at) /\ To(q, e) \notin y.path
        BY <3>3, <4>1
      <4>5. PICK z \in lev[H] : z.at = To(q, e) /\ z.cost = y.cost + st[e] /\ z.path = y.path \cup {To(q, e)}
        BY <1>2, <4>2, <4>3, <4>4, StepShape
      <4>6. y.cost \in Nat
        BY <1>c, <4>2
      <4>7. z.at = r.at /\ z.path = r.path /\ z.cost <= r.cost
        BY <3>3, <3>4, <4>1, <4>5, <4>6
      <4> QED BY <3>6, <4>7
    <3>9. x.at = s \/ x.at \in frontier
          \/ (H > 1 /\ \E y \in lev[H - 1] : y.at = x.at /\ y.path = x.path /\ y.cost <= x.cost)
      BY <2>2 DEF SeedOk
    <3> QED BY <3>5, <3>7, <3>8, <3>9
  <2> QED BY <1>0, <2>1, <2>2
<1>6. \A h \in 1..(H + 1) : h = H + 1 \/ h \in 1..H
  BY <1>0
<1> QED BY <1>3, <1>5, <1>6

LEMMA SeedHops ==
  ASSUME NEW st \in EdgeTables, NEW q, q.depth \in Nat \ {0}, NEW s \in GraphNodes, NEW lev,
         Levels(lev, Far(q), st, q, s),
         NEW H \in 0..(q.depth - 1), NEW frontier, NEW next, NEW best \in Bests,
         SeedOk(q, H, frontier, next, {}, best, st, s, lev),
         NEW rows, \A e \in DOMAIN st : From(q, e) \in next => e \in rows
  PROVE  SeedOk(q, H + 1, next, {}, rows, best, st, s, lev)
<1>1. H \in Nat /\ H + 1 # 0 /\ H + 1 > 0 /\ H + 1 - 1 = H
  OBVIOUS
<1>2. /\ \A h \in 1..(H + 1) : \A r \in lev[h] :
           r.at # s => r.at \in DOMAIN best /\ best[r.at][2] <= r.cost
      /\ \A r \in lev[H + 1] :
           \/ r.at = s \/ r.at \in next
           \/ H + 1 > 1 /\ \E x \in lev[H] : x.at = r.at /\ x.path = r.path /\ x.cost <= r.cost
  BY HopEnds
<1>3. /\ next \subseteq DOMAIN best
      /\ \A n \in DOMAIN best :
           /\ n # s
           /\ \E h \in 1..(H + 1) : \E r \in lev[h] : r.at = n
           /\ \E h \in 1..Cardinality(GraphNodes) : \E r \in lev[h] : r.at = n /\ r.cost <= best[n][2]
  BY DEF SeedOk
<1>4. \A h \in 1..(H + 1) : h \in 1..(H + 1 + 1)
  OBVIOUS
<1>5. \A n \in DOMAIN best : \E h \in 1..(H + 1 + 1) : \E r \in lev[h] : r.at = n
  BY <1>3, <1>4
<1>6. \A n \in next : n # s /\ n \in DOMAIN best /\ \E h \in 1..(H + 1) : \E r \in lev[h] : r.at = n
  BY <1>3
<1> QED BY ONLY <1>1, <1>2, <1>3, <1>5, <1>6, \A e \in DOMAIN st : From(q, e) \in next => e \in rows
        DEF SeedOk

LEMMA SeedBegins ==
  ASSUME NEW st \in EdgeTables, NEW q, NEW s \in GraphNodes, NEW lev,
         NEW rows, \A e \in DOMAIN st : From(q, e) = s => e \in rows
  PROVE  SeedOk(q, 0, {s}, {}, rows, [n \in {} |-> <<>>], st, s, lev)
BY DEF SeedOk

-----------------------------------------------------------------------------
(* A walk in progress.                                                      *)

WalkShape(w, st) ==
  LET q == w.question IN
  /\ w = [phase |-> w.phase, question |-> q, hop |-> w.hop, frontier |-> w.frontier,
          next |-> w.next, rows |-> w.rows, best |-> w.best]
  /\ w.phase \in {"walking", "done"} /\ q \in Questions
  /\ w.hop \in 0..(q.depth - 1)
  /\ DOMAIN w.frontier = q.seeds /\ DOMAIN w.next = q.seeds
  /\ w.best \in [q.seeds -> Bests]
  /\ w.rows \in SUBSET DOMAIN st
  /\ w.phase = "done" => w.rows = {} /\ w.hop + 1 = q.depth

\* The walk knows for each of its seeds what it should by now.
SeedsOk(w, st) ==
  LET q == w.question IN
  \A s \in q.seeds : \A lev : Levels(lev, Far(q), st, q, s) =>
    SeedOk(q, w.hop, w.frontier[s], w.next[s], w.rows, w.best[s], st, s, lev)

WalkInv ==
  /\ stored \in EdgeTables
  /\ walk = NoWalk \/ (WalkShape(walk, stored) /\ SeedsOk(walk, stored))

\* The record of a walk, and what a row and a hop change of it.
Progress(p, q, h, f, n, r, b) ==
  [phase |-> p, question |-> q, hop |-> h, frontier |-> f, next |-> n, rows |-> r, best |-> b]

Reads(w, n, r, b) == [w EXCEPT !.rows = r, !.next = n, !.best = b]
Hops(w, h, f, n, r) == [w EXCEPT !.hop = h, !.frontier = f, !.next = n, !.rows = r]

LEMMA ProgressReads ==
  ASSUME NEW p, NEW q, NEW h, NEW f, NEW n, NEW r, NEW b, NEW n2, NEW r2, NEW b2
  PROVE  Reads(Progress(p, q, h, f, n, r, b), n2, r2, b2) = Progress(p, q, h, f, n2, r2, b2)
<1> DEFINE w1 == [Progress(p, q, h, f, n, r, b) EXCEPT !.rows = r2]
           w2 == [w1 EXCEPT !.next = n2]
           w3 == [w2 EXCEPT !.best = b2]
<1>1. w1 = Progress(p, q, h, f, n, r2, b)
  BY DEF Progress
<1> HIDE DEF w1
<1>2. w2 = Progress(p, q, h, f, n2, r2, b)
  BY <1>1 DEF Progress
<1> HIDE DEF w2
<1>3. w3 = Progress(p, q, h, f, n2, r2, b2)
  BY <1>2 DEF Progress
<1> QED BY <1>3 DEF w1, w2, Reads

LEMMA ProgressHops ==
  ASSUME NEW p, NEW q, NEW h, NEW f, NEW n, NEW r, NEW b, NEW h2, NEW f2, NEW n2, NEW r2
  PROVE  Hops(Progress(p, q, h, f, n, r, b), h2, f2, n2, r2) = Progress(p, q, h2, f2, n2, r2, b)
<1> DEFINE w1 == [Progress(p, q, h, f, n, r, b) EXCEPT !.hop = h2]
           w2 == [w1 EXCEPT !.frontier = f2]
           w3 == [w2 EXCEPT !.next = n2]
           w4 == [w3 EXCEPT !.rows = r2]
<1>1. w1 = Progress(p, q, h2, f, n, r, b)
  BY DEF Progress
<1> HIDE DEF w1
<1>2. w2 = Progress(p, q, h2, f2, n, r, b)
  BY <1>1 DEF Progress
<1> HIDE DEF w2
<1>3. w3 = Progress(p, q, h2, f2, n2, r, b)
  BY <1>2 DEF Progress
<1> HIDE DEF w3
<1>4. w4 = Progress(p, q, h2, f2, n2, r2, b)
  BY <1>3 DEF Progress
<1> QED BY <1>4 DEF w1, w2, w3, Hops

LEMMA QuestionShape ==
  ASSUME NEW q \in Questions
  PROVE  q.depth \in Nat \ {0} /\ \A s \in q.seeds : s \in GraphNodes
BY GraphAssumption DEF GraphAssumption

LEMMA IdleIsNoWalk ==
  ASSUME WalkInv, walk.phase = "idle"
  PROVE  walk = NoWalk
BY DEF WalkInv, WalkShape

\* Every edge that leaves the frontier is among the rows of the hop.
LEMMA RowsOfHop ==
  ASSUME Dangling = {}, NEW q \in Questions, NEW frontier, NEW s \in q.seeds,
         NEW e \in DOMAIN stored, From(q, e) \in frontier[s]
  PROVE  e \in HopRows(q, frontier)
<1>1. {Source(e), Target(e)} \subseteq indexed
  BY DEF Dangling
<1>2. To(q, e) \in indexed
  BY <1>1 DEF To
<1> QED BY <1>2 DEF HopRows

LEMMA BeginWalkKeeps ==
  ASSUME WalkInv, Dangling = {}, NEW q \in Questions, BeginWalk(q)
  PROVE  WalkInv'
<1> DEFINE frontier == [s \in q.seeds |-> {s}]
<1>1. /\ walk' = [phase |-> "walking", question |-> q, hop |-> 0, frontier |-> frontier,
                  next |-> [s \in q.seeds |-> {}], rows |-> HopRows(q, frontier),
                  best |-> [s \in q.seeds |-> [n \in {} |-> <<>>]]]
      /\ stored' = stored
  BY DEF BeginWalk
<1> DEFINE rows == HopRows(q, frontier)
<1>2. q.depth \in Nat \ {0} /\ \A s \in q.seeds : s \in GraphNodes
  BY QuestionShape
<1>3. [n \in {} |-> <<>>] \in Bests
  <2>1. [n \in {} |-> <<>>] \in [{} -> EdgeTypes \X Nat]
    OBVIOUS
  <2> QED BY <2>1, AreBests
<1>4. rows \in SUBSET DOMAIN stored
  BY DEF HopRows
<1>5. \A s \in q.seeds : \A e \in DOMAIN stored : From(q, e) = s => e \in rows
  <2>1. \A s \in q.seeds : frontier[s] = {s}
    OBVIOUS
  <2> HIDE DEF frontier
  <2> QED BY <2>1, RowsOfHop
<1> HIDE DEF rows
<1>w. walk' = [phase |-> "walking", question |-> q, hop |-> 0, frontier |-> frontier,
               next |-> [s \in q.seeds |-> {}], rows |-> rows,
               best |-> [s \in q.seeds |-> [n \in {} |-> <<>>]]]
  BY <1>1 DEF rows
<1>6. WalkShape(walk', stored)
  BY <1>2, <1>3, <1>4, <1>w DEF WalkShape
<1>7. SeedsOk(walk', stored)
  <2> SUFFICES ASSUME NEW s \in q.seeds, NEW lev
               PROVE  SeedOk(q, walk'.hop, walk'.frontier[s], walk'.next[s], walk'.rows,
                             walk'.best[s], stored, s, lev)
    BY <1>w DEF SeedsOk
  <2>1. SeedOk(q, 0, {s}, {}, rows, [n \in {} |-> <<>>], stored, s, lev)
    BY <1>2, <1>5, SeedBegins DEF WalkInv
  <2>2. /\ walk'.hop = 0 /\ walk'.frontier[s] = {s} /\ walk'.next[s] = {} /\ walk'.rows = rows
        /\ walk'.best[s] = [n \in {} |-> <<>>]
    BY <1>w
  <2> QED BY <2>1, <2>2
<1> QED BY <1>1, <1>6, <1>7 DEF WalkInv

LEMMA ReadRowKeeps ==
  ASSUME WalkInv, NEW e \in GraphEdges, walk.phase = "walking", ReadRow(e)
  PROVE  WalkInv'
<1> DEFINE q == walk.question
           target == To(q, e)
           owners == {s \in q.seeds : From(q, e) \in walk.frontier[s] /\ target # s}
           improved(s) == \/ target \notin DOMAIN walk.best[s]
                          \/ RowCost(s, e) < walk.best[s][target][2]
           next == [s \in q.seeds |->
                      IF s \in owners /\ Type(e) \in q.types THEN walk.next[s] \cup {target}
                      ELSE walk.next[s]]
           best == [s \in q.seeds |->
                      IF s \in owners /\ Type(e) \in q.types /\ improved(s)
                      THEN [n \in DOMAIN walk.best[s] \cup {target} |->
                              IF n = target THEN <<Type(e), RowCost(s, e)>> ELSE walk.best[s][n]]
                      ELSE walk.best[s]]
<1>0. walk # NoWalk
  BY DEF NoWalk
<1>1. WalkShape(walk, stored) /\ SeedsOk(walk, stored)
  BY <1>0 DEF WalkInv
<1>2. /\ walk' = [walk EXCEPT !.rows = walk.rows \ {e}, !.next = next, !.best = best]
      /\ e \in walk.rows /\ stored' = stored
  BY DEF ReadRow
<1>3. /\ q \in Questions /\ walk.hop \in 0..(q.depth - 1) /\ walk.rows \in SUBSET DOMAIN stored
      /\ walk.best \in [q.seeds -> Bests]
  BY <1>1 DEF WalkShape
<1>4. q.depth \in Nat \ {0} /\ \A s \in q.seeds : s \in GraphNodes
  BY <1>3, QuestionShape
<1>5. walk' = [phase |-> walk.phase, question |-> q, hop |-> walk.hop, frontier |-> walk.frontier,
               next |-> next, rows |-> walk.rows \ {e}, best |-> best]
  <2>1. walk = Progress(walk.phase, q, walk.hop, walk.frontier, walk.next, walk.rows, walk.best)
    BY <1>1 DEF WalkShape, Progress
  <2> HIDE DEF q, next, best
  <2>2. walk' = Reads(walk, next, walk.rows \ {e}, best)
    BY ONLY <1>2 DEF Reads
  <2>3. walk' = Progress(walk.phase, q, walk.hop, walk.frontier, next, walk.rows \ {e}, best)
    BY ONLY <2>1, <2>2, ProgressReads
  <2> QED BY <2>3 DEF Progress
<1>6. ASSUME NEW s \in q.seeds, NEW lev, Levels(lev, Far(q), stored, q, s)
      PROVE  /\ best[s] \in Bests
             /\ SeedOk(q, walk.hop, walk.frontier[s], next[s], walk.rows \ {e}, best[s], stored, s, lev)
  <2>1. SeedOk(q, walk.hop, walk.frontier[s], walk.next[s], walk.rows, walk.best[s], stored, s, lev)
    BY <1>1, <1>6 DEF SeedsOk
  <2>2. CASE s \in owners /\ Type(e) \in q.types
    <3>1. next[s] = walk.next[s] \cup {target}
      BY <2>2
    <3>3. RowCost(s, e) = ReadCost(q, walk.hop, stored, walk.best[s], e)
      BY DEF RowCost, ReadCost
    <3>2. best[s] = Told(q, walk.hop, stored, walk.best[s], e)
      BY <2>2, <3>3 DEF Told
    <3>4. From(q, e) \in walk.frontier[s] /\ target # s
      BY <2>2
    <3>5. walk.best[s] \in Bests /\ s \in GraphNodes /\ stored \in EdgeTables
      BY <1>3, <1>4 DEF WalkInv
    <3> HIDE DEF q, owners, improved, next, best
    <3>6. /\ Told(q, walk.hop, stored, walk.best[s], e) \in Bests
          /\ SeedOk(q, walk.hop, walk.frontier[s], walk.next[s] \cup {To(q, e)}, walk.rows \ {e},
                    Told(q, walk.hop, stored, walk.best[s], e), stored, s, lev)
      BY <1>2, <1>3, <1>4, <1>6, <2>1, <2>2, <3>4, <3>5, SeedReads
    <3> QED BY <3>1, <3>2, <3>6
  <2>3. CASE ~(s \in owners /\ Type(e) \in q.types)
    <3>1. next[s] = walk.next[s] /\ best[s] = walk.best[s] /\ best[s] \in Bests
      BY <1>3, <2>3
    <3>2. ~(From(q, e) \in walk.frontier[s] /\ target # s /\ Type(e) \in q.types)
      BY <2>3
    <3>3. \A d \in DOMAIN stored \ (walk.rows \ {e}) : d = e \/ d \in DOMAIN stored \ walk.rows
      OBVIOUS
    <3> HIDE DEF q, owners, improved, next, best
    <3> QED BY <2>1, <3>1, <3>2, <3>3 DEF SeedOk, target
  <2> QED BY <2>2, <2>3
<1>7. \A s \in q.seeds : best[s] \in Bests
  <2> SUFFICES ASSUME NEW s \in q.seeds PROVE best[s] \in Bests
    OBVIOUS
  <2>1. \E lev : Levels(lev, Far(q), stored, q, s)
    BY <1>4, FarEnough, LevelsExist DEF WalkInv
  <2> QED BY <1>6, <2>1
<1>8. best \in [q.seeds -> Bests] /\ DOMAIN next = q.seeds
  <2>1. DOMAIN best = q.seeds /\ best = [s \in q.seeds |-> best[s]]
    OBVIOUS
  <2>2. DOMAIN next = q.seeds
    OBVIOUS
  <2> HIDE DEF best, next
  <2> QED BY <1>7, <2>1, <2>2
<1> HIDE DEF q, target, owners, improved, next, best
<1>9. WalkShape(walk', stored)
  <2>1. /\ walk'.question = q /\ walk'.phase = walk.phase /\ walk'.hop = walk.hop
        /\ walk'.frontier = walk.frontier /\ walk'.next = next /\ walk'.best = best
        /\ walk'.rows = walk.rows \ {e}
    BY <1>5
  <2>2. DOMAIN walk.frontier = q.seeds
    BY <1>1 DEF WalkShape, q
  <2> QED BY <1>3, <1>5, <1>8, <2>1, <2>2 DEF WalkShape
<1>10. SeedsOk(walk', stored)
  <2>1. /\ walk'.question = q /\ walk'.hop = walk.hop /\ walk'.frontier = walk.frontier
        /\ walk'.next = next /\ walk'.best = best /\ walk'.rows = walk.rows \ {e}
    BY <1>5
  <2> QED BY <1>6, <2>1 DEF SeedsOk
<1> QED BY <1>2, <1>9, <1>10 DEF WalkInv

LEMMA NextHopKeeps ==
  ASSUME WalkInv, Dangling = {}, NextHop
  PROVE  WalkInv'
<1> DEFINE q == walk.question
           next == [s \in q.seeds |-> {}]
           rows == HopRows(q, walk.next)
<1>0. walk # NoWalk
  BY DEF NextHop, NoWalk
<1>1. WalkShape(walk, stored) /\ SeedsOk(walk, stored)
  BY <1>0 DEF WalkInv
<1>2. /\ walk' = [walk EXCEPT !.hop = walk.hop + 1, !.frontier = walk.next, !.next = next, !.rows = rows]
      /\ walk.phase = "walking" /\ walk.rows = {} /\ walk.hop + 1 < q.depth /\ stored' = stored
  BY DEF NextHop
<1>3. /\ q \in Questions /\ walk.hop \in 0..(q.depth - 1)
      /\ walk.best \in [q.seeds -> Bests] /\ DOMAIN walk.next = q.seeds
  BY <1>1 DEF WalkShape
<1>4. q.depth \in Nat \ {0} /\ \A s \in q.seeds : s \in GraphNodes
  BY <1>3, QuestionShape
<1>5. walk' = [phase |-> walk.phase, question |-> q, hop |-> walk.hop + 1, frontier |-> walk.next,
               next |-> next, rows |-> rows, best |-> walk.best]
  <2>1. walk = Progress(walk.phase, q, walk.hop, walk.frontier, walk.next, walk.rows, walk.best)
    BY <1>1 DEF WalkShape, Progress
  <2> HIDE DEF q, next, rows
  <2>2. walk' = Hops(walk, walk.hop + 1, walk.next, next, rows)
    BY ONLY <1>2 DEF Hops
  <2>3. walk' = Progress(walk.phase, q, walk.hop + 1, walk.next, next, rows, walk.best)
    BY ONLY <2>1, <2>2, ProgressHops
  <2> QED BY <2>3 DEF Progress
<1>6. rows \in SUBSET DOMAIN stored
  BY DEF HopRows
<1>7. ASSUME NEW s \in q.seeds, NEW lev, Levels(lev, Far(q), stored, q, s)
      PROVE  SeedOk(q, walk.hop + 1, walk.next[s], {}, rows, walk.best[s], stored, s, lev)
  <2>1. SeedOk(q, walk.hop, walk.frontier[s], walk.next[s], {}, walk.best[s], stored, s, lev)
    BY <1>1, <1>2, <1>7 DEF SeedsOk
  <2>2. \A e \in DOMAIN stored : From(q, e) \in walk.next[s] => e \in rows
    BY <1>3, RowsOfHop
  <2>3. walk.best[s] \in Bests /\ stored \in EdgeTables /\ s \in GraphNodes
    BY <1>3, <1>4 DEF WalkInv
  <2> HIDE DEF q, rows
  <2> QED BY <1>3, <1>4, <1>7, <2>1, <2>2, <2>3, SeedHops
<1>8. next = [s \in q.seeds |-> {}] /\ DOMAIN next = q.seeds /\ \A s \in q.seeds : next[s] = {}
  OBVIOUS
<1> HIDE DEF q, next, rows
<1>9. /\ walk'.question = q /\ walk'.hop = walk.hop + 1 /\ walk'.frontier = walk.next
      /\ walk'.next = next /\ walk'.best = walk.best /\ walk'.rows = rows /\ walk'.phase = "walking"
  <2>1. walk.phase = "walking"
    BY DEF NextHop
  <2> QED BY ONLY <1>5, <2>1
<1>10. walk.hop + 1 \in 0..(q.depth - 1)
  BY <1>2, <1>3, <1>4
<1>11. WalkShape(walk', stored)
  BY <1>3, <1>5, <1>6, <1>8, <1>9, <1>10 DEF WalkShape
<1>12. SeedsOk(walk', stored)
  BY <1>7, <1>8, <1>9 DEF SeedsOk
<1> QED BY <1>2, <1>11, <1>12 DEF WalkInv

LEMMA FinishWalkKeeps ==
  ASSUME WalkInv, FinishWalk
  PROVE  WalkInv'
<1>0. walk # NoWalk
  BY DEF FinishWalk, NoWalk
<1>1. WalkShape(walk, stored) /\ SeedsOk(walk, stored)
  BY <1>0 DEF WalkInv
<1>2. /\ walk' = [walk EXCEPT !.phase = "done"]
      /\ walk.rows = {} /\ walk.hop + 1 = walk.question.depth /\ stored' = stored
  BY DEF FinishWalk
<1>3. walk = [phase |-> walk.phase, question |-> walk.question, hop |-> walk.hop,
              frontier |-> walk.frontier, next |-> walk.next, rows |-> walk.rows, best |-> walk.best]
  BY <1>1 DEF WalkShape
<1>4. walk' = [phase |-> "done", question |-> walk.question, hop |-> walk.hop,
               frontier |-> walk.frontier, next |-> walk.next, rows |-> walk.rows, best |-> walk.best]
  BY <1>2, <1>3
<1>5. /\ walk'.phase = "done" /\ walk'.question = walk.question /\ walk'.hop = walk.hop
      /\ walk'.frontier = walk.frontier /\ walk'.next = walk.next /\ walk'.rows = walk.rows
      /\ walk'.best = walk.best
  BY <1>4
<1>6. WalkShape(walk', stored)
  BY <1>1, <1>2, <1>4, <1>5 DEF WalkShape
<1>7. SeedsOk(walk', stored)
  BY <1>1, <1>5 DEF SeedsOk
<1> QED BY <1>2, <1>6, <1>7 DEF WalkInv

LEMMA WriteKeeps ==
  ASSUME WalkInv, Writes, stored' \in EdgeTables
  PROVE  WalkInv'
<1>1. walk = NoWalk /\ walk' = walk
  BY IdleIsNoWalk DEF Writes
<1> QED BY <1>1 DEF WalkInv

LEMMA InitWalkInv == GraphInit => WalkInv
<1> SUFFICES ASSUME GraphInit PROVE WalkInv
  OBVIOUS
<1>1. [e \in {} |-> 0] \in [{} -> Nat] /\ {} \in SUBSET GraphEdges
  OBVIOUS
<1>2. stored \in EdgeTables
  BY <1>1, AreTables DEF GraphInit
<1> QED BY <1>2 DEF GraphInit, WalkInv

LEMMA NextWalkInv ==
  ASSUME WalkInv, Dangling = {}, [GraphNext]_graphVars
  PROVE  WalkInv'
<1>0. /\ stored \in [DOMAIN stored -> Nat] /\ DOMAIN stored \in SUBSET GraphEdges
  BY DEF WalkInv, EdgeTables
<1>1. ASSUME NEW n, IndexNode(n) PROVE WalkInv'
  BY <1>1, WriteKeeps DEF IndexNode, WalkInv
<1>2. ASSUME NEW n, DeleteNode(n) PROVE WalkInv'
  <2>1. stored' = [e \in DOMAIN stored \ Cascade(n) |-> stored[e]]
    BY <1>2 DEF DeleteNode, StoreEdges
  <2>2. stored' \in [DOMAIN stored \ Cascade(n) -> Nat] /\ DOMAIN stored \ Cascade(n) \in SUBSET GraphEdges
    BY <1>0, <2>1
  <2>3. stored' \in EdgeTables
    BY <2>2, AreTables
  <2> QED BY <1>2, <2>3, WriteKeeps DEF DeleteNode
<1>3. ASSUME NEW e \in GraphEdges, NEW c \in Costs, UpsertEdge(e, c) PROVE WalkInv'
  <2>1. stored' = [x \in DOMAIN stored \cup {e} |-> IF x = e THEN c ELSE stored[x]]
    BY <1>3 DEF UpsertEdge, StoreEdges
  <2>2. c \in Nat
    BY GraphAssumption DEF GraphAssumption
  <2>3. stored' \in [DOMAIN stored \cup {e} -> Nat] /\ DOMAIN stored \cup {e} \in SUBSET GraphEdges
    BY <1>0, <2>1, <2>2
  <2>4. stored' \in EdgeTables
    BY <2>3, AreTables
  <2> QED BY <1>3, <2>4, WriteKeeps DEF UpsertEdge
<1>4. ASSUME NEW e, DeleteEdge(e) PROVE WalkInv'
  <2>1. stored' = [x \in DOMAIN stored \ {e} |-> stored[x]]
    BY <1>4 DEF DeleteEdge, StoreEdges
  <2>2. stored' \in [DOMAIN stored \ {e} -> Nat] /\ DOMAIN stored \ {e} \in SUBSET GraphEdges
    BY <1>0, <2>1
  <2>3. stored' \in EdgeTables
    BY <2>2, AreTables
  <2> QED BY <1>4, <2>3, WriteKeeps DEF DeleteEdge
<1>5. ASSUME ReleaseLock PROVE WalkInv'
  BY <1>5 DEF ReleaseLock, WalkInv
<1>6. ASSUME UNCHANGED graphVars PROVE WalkInv'
  BY <1>6 DEF graphVars, WalkInv
<1> QED BY <1>1, <1>2, <1>3, <1>4, <1>5, <1>6, BeginWalkKeeps, ReadRowKeeps, NextHopKeeps,
           FinishWalkKeeps DEF GraphNext

-----------------------------------------------------------------------------
\* What a walk that is done has found is what the queries find.
LEMMA InvAgrees == WalkInv /\ Dangling = {} => WalksAgree
<1> SUFFICES ASSUME WalkInv, Dangling = {}, walk.phase = "done", NEW s \in walk.question.seeds
             PROVE  LET q == walk.question
                        local == walk.best[s]
                        many == Cheapest(ManyWalks(q, s, q.depth))
                        any == Cheapest(ManyWalks(q, s, Cardinality(GraphNodes)))
                    IN /\ DOMAIN local = DOMAIN many \ {s}
                       /\ \A n \in DOMAIN local :
                            local[n][2] <= many[n] /\ any[n] <= local[n][2]
                       /\ q.depth = 1 => \A n \in DOMAIN local : local[n][2] = many[n]
                       /\ ~q.incoming => Cheapest(SingleWalks(q, s)) = many
  BY DEF WalksAgree
<1> DEFINE q == walk.question
           local == walk.best[s]
           near == ManyWalks(q, s, q.depth)
           all == ManyWalks(q, s, Cardinality(GraphNodes))
           many == Cheapest(near)
           any == Cheapest(all)
           L == Far(q)
           H == walk.hop
<1>0. walk # NoWalk
  BY DEF NoWalk
<1>1. WalkShape(walk, stored) /\ SeedsOk(walk, stored) /\ stored \in EdgeTables
  BY <1>0 DEF WalkInv
<1>2. /\ q \in Questions /\ H \in 0..(q.depth - 1) /\ walk.rows = {} /\ H + 1 = q.depth
      /\ local \in Bests
  BY <1>1 DEF WalkShape
<1>3. q.depth \in Nat \ {0} /\ s \in GraphNodes
  BY <1>2, QuestionShape
<1>4. /\ L \in Nat \ {0} /\ q.depth \in 1..L /\ Cardinality(GraphNodes) \in Nat
      /\ Cardinality(GraphNodes) <= L
  BY <1>3, FarEnough
<1>5. PICK lev : Levels(lev, L, stored, q, s)
  BY <1>1, <1>3, <1>4, LevelsExist
<1>6. SeedOk(q, H, walk.frontier[s], walk.next[s], {}, local, stored, s, lev)
  BY <1>1, <1>2, <1>5 DEF SeedsOk
<1>7. Cardinality(GraphNodes) # 0
  BY <1>3, FS_EmptySet, GraphAssumption DEF GraphAssumption
<1>8. near = UpTo(lev, q.depth)
  <2> HIDE DEF q, L
  <2> QED BY <1>1, <1>3, <1>4, <1>5, ManyAreLevels
<1>9. all = UpTo(lev, Cardinality(GraphNodes))
  <2>1. Cardinality(GraphNodes) \in 1..L
    BY <1>4, <1>7
  <2> HIDE DEF q, L
  <2> QED BY <1>1, <1>3, <1>4, <1>5, <2>1, ManyAreLevels
<1>10. /\ \A h \in 1..L : lev[h] \in SUBSET WalkRows
       /\ near \in SUBSET WalkRows /\ all \in SUBSET WalkRows
  <2>1. \A h \in 1..L : lev[h] \in SUBSET WalkRows
    BY <1>5 DEF Levels
  <2>2. \A h \in 1..q.depth : h \in 1..L
    BY <1>4
  <2>3. \A h \in 1..Cardinality(GraphNodes) : h \in 1..L
    BY <1>4
  <2> QED BY <1>8, <1>9, <2>1, <2>2, <2>3 DEF UpTo
<1>11. \A r \in near : r.at # s => r.at \in DOMAIN local /\ local[r.at][2] <= r.cost
  <2>1. \A h \in 1..(H + 1) : \A r \in lev[h] :
          r.at # s => r.at \in DOMAIN local /\ local[r.at][2] <= r.cost
    BY <1>1, <1>2, <1>3, <1>5, <1>6, HopEnds
  <2> QED BY <1>2, <1>8, <2>1 DEF UpTo
<1>12. \A n \in DOMAIN local :
         /\ n # s
         /\ \E r \in near : r.at = n
         /\ \E r \in all : r.at = n /\ r.cost <= local[n][2]
         /\ H = 0 => \E r \in near : r.at = n /\ r.cost = local[n][2]
  <2>1. \A n \in DOMAIN local :
          /\ n # s
          /\ \E h \in 1..(H + 1) : \E r \in lev[h] : r.at = n
          /\ \E h \in 1..Cardinality(GraphNodes) : \E r \in lev[h] : r.at = n /\ r.cost <= local[n][2]
          /\ H = 0 => \E r \in lev[1] : r.at = n /\ r.cost = local[n][2]
    BY <1>6 DEF SeedOk
  <2>2. 1 \in 1..q.depth
    BY <1>4
  <2> HIDE DEF local, near, all, H, q
  <2> QED BY <1>2, <1>8, <1>9, <2>1, <2>2 DEF UpTo
<1>13. \A n \in DOMAIN local : local[n][2] \in Nat
  BY <1>2 DEF Bests
<1>14. /\ DOMAIN many = {r.at : r \in near}
       /\ \A n \in {r.at : r \in near} :
            /\ many[n] \in Nat
            /\ \E r \in near : r.at = n /\ r.cost = many[n]
            /\ \A r \in near : r.at = n => many[n] <= r.cost
  BY <1>10, CheapestIsLeast
<1>15. \A n \in {r.at : r \in all} : any[n] \in Nat /\ \A r \in all : r.at = n => any[n] <= r.cost
  BY <1>10, CheapestIsLeast
<1>16. \A r \in all : r.cost \in Nat
  BY <1>10 DEF WalkRows
<1>17. ~q.incoming => Cheapest(SingleWalks(q, s)) = many
  <2>1. ~q.incoming => SingleWalks(q, s) = near
    BY <1>1, <1>3, <1>4, <1>5, <1>8, SingleAreLevels
  <2> QED BY <2>1
<1> HIDE DEF q, local, near, all, many, any, L, H
<1>18. DOMAIN local = DOMAIN many \ {s}
  <2>1. \A n \in DOMAIN local : n \in DOMAIN many /\ n # s
    BY <1>12, <1>14
  <2>2. \A n \in DOMAIN many : n # s => n \in DOMAIN local
    BY <1>11, <1>14
  <2> QED BY ONLY <2>1, <2>2
<1>19. \A n \in DOMAIN local : local[n][2] <= many[n] /\ any[n] <= local[n][2]
  <2> SUFFICES ASSUME NEW n \in DOMAIN local PROVE local[n][2] <= many[n] /\ any[n] <= local[n][2]
    OBVIOUS
  <2>1. PICK r \in near : r.at = n /\ r.cost = many[n]
    BY <1>14, <1>18
  <2>2. local[n][2] <= many[n]
    BY <1>11, <1>12, <2>1
  <2>3. PICK x \in all : x.at = n /\ x.cost <= local[n][2]
    BY <1>12
  <2>4. any[n] \in Nat /\ any[n] <= x.cost /\ x.cost \in Nat
    BY <1>15, <1>16, <2>3
  <2> QED BY <1>13, <2>2, <2>3, <2>4
<1>20. q.depth = 1 => \A n \in DOMAIN local : local[n][2] = many[n]
  <2> SUFFICES ASSUME q.depth = 1, NEW n \in DOMAIN local PROVE local[n][2] = many[n]
    OBVIOUS
  <2>1. H = 0
    BY <1>2
  <2>2. PICK r \in near : r.at = n /\ r.cost = local[n][2]
    BY <1>12, <2>1
  <2>3. many[n] <= local[n][2] /\ many[n] \in Nat
    BY <1>14, <2>2
  <2> QED BY <1>13, <1>19, <2>3
<1> QED BY <1>17, <1>18, <1>19, <1>20 DEF q, local, many, any, near, all

-----------------------------------------------------------------------------
(* The types and the invariant above hold in every state.                  *)
THEOREM PgSoundAlways == PgSpec => []IInv
<1> QED BY InitIInv, NextIInv, PTL DEF PgSpec

(* No process remembers the name of a table that is not registered, and no  *)
(* vector is in such a table (PGVectorStore.upsert, search, get_many).      *)
THEOREM TablesAlwaysExist == PgSpec => []RememberedTablesExist
<1>1. IInv => RememberedTablesExist
  BY DEF IInv
<1> QED BY <1>1, PgSoundAlways, PTL

(* A record that is deleted leaves no vector in any model's table, but one  *)
(* committed while the deletion was under way (PGVectorStore.delete,        *)
(* delete_for_model).                                                      *)
THEOREM VectorsAlwaysKeepRecords == PgSpec => VectorsKeepRecords
<1>1. IInv /\ [PgNext]_pgVars =>
        \A k \in PgKeys, t \in registry :
          (records[k] # 0 /\ records'[k] = 0 /\ vectors'[t][k] # 0) =>
            \E p \in Processes : VectorRow(t, k) \in tx[p].overtaken
  BY StepKeepsVectors
<1> QED BY <1>1, PgSoundAlways, PTL DEF PgSpec, VectorsKeepRecords

(* No row is locked by two transactions, and the records an upsert found    *)
(* different when it locked them are the ones it changes when it commits.  *)
THEOREM LocksAlwaysHold == PgSpec => []LInv
<1> QED BY InitLInv, NextLInv, PgSoundAlways, PTL DEF PgSpec

(* An edge of the local graph never outlives a record at one of its ends    *)
(* (the cascade of local_records, graph_integrity_errors).                 *)
THEOREM EdgesNeverDangle == GraphSpec => [](Dangling = {})
<1>1. GInv => Dangling = {}
  BY DEF GInv
<1> QED BY <1>1, InitGInv, NextGInv, PTL DEF GraphSpec

(* A walk of the local store finds the neighbours PostgreSQL finds for the  *)
(* same question, at PostgreSQL's weight over one hop and between it and    *)
(* that of some walk over more, whatever the order of the rows; outgoing,   *)
(* PostgreSQL answers one seed as it answers many                           *)
(* (_GraphEngine._neighbors_many_direction, PGGraphStore).                  *)
THEOREM WalksAlwaysAgree == GraphSpec => []WalksAgree
<1>1. GInv => Dangling = {}
  BY DEF GInv
<1>2. GraphSpec => []GInv
  BY InitGInv, NextGInv, PTL DEF GraphSpec
<1>3. GraphSpec => []WalkInv
  BY <1>1, <1>2, InitWalkInv, NextWalkInv, PTL DEF GraphSpec
<1> QED BY <1>1, <1>2, <1>3, InvAgrees, PTL

(* No commit changes what a lane of the stores answers from without moving  *)
(* the lane's epoch (_PostgresEpochLane.bump, _GraphEngine).               *)
THEOREM EpochsAlwaysCover == PgSpec /\ GraphSpec => StoreEpochsCover
<1>1. PgSpec => PgEpochsCover
  <2>1. IInv /\ LInv /\ [PgNext]_pgVars =>
          /\ VectorView' # VectorView =>
               epochs'["vector"] > epochs["vector"] \/ LeavesOrphan
          /\ edges' # edges => epochs'["graph"] > epochs["graph"]
          /\ KeywordView' # KeywordView =>
               \/ epochs'["keyword"] > epochs["keyword"]
               \/ \E p \in Processes : tx[p].call = "upsert" /\ tx'[p] = NoTx
          /\ epochs' # epochs => epochs'["total"] > epochs["total"]
    BY StepCovered DEF Covered
  <2> QED BY <2>1, PgSoundAlways, LocksAlwaysHold, PTL DEF PgSpec, PgEpochsCover
<1>2. GraphSpec => GraphEpochCovers
  <2>1. GInv /\ [GraphNext]_graphVars => (stored' # stored <=> graphEpoch' # graphEpoch)
    BY NextGInv
  <2> QED BY <2>1, InitGInv, NextGInv, PTL DEF GraphSpec, GraphEpochCovers
<1> QED BY <1>1, <1>2 DEF StoreEpochsCover

-----------------------------------------------------------------------------
(* Sums over finite sets.                                                   *)

Pick(S) == CHOOSE y \in S : TRUE
PartSums(g, f, n) ==
  \A S \in SUBSET DOMAIN f : Cardinality(S) <= n =>
    g[S] = IF S = {} THEN 0 ELSE f[Pick(S)] + g[S \ {Pick(S)}]

LEMMA PickShape ==
  ASSUME NEW D, IsFiniteSet(D), NEW S \in SUBSET D, S # {}
  PROVE  /\ Pick(S) \in S /\ S \ {Pick(S)} \in SUBSET D
         /\ Cardinality(S) \in Nat \ {0}
         /\ Cardinality(S \ {Pick(S)}) = Cardinality(S) - 1
<1>1. Pick(S) \in S
  BY DEF Pick
<1>2. IsFiniteSet(S)
  BY FS_Subset
<1>3. Cardinality(S) \in Nat /\ Cardinality(S) # 0
  BY <1>2, FS_CardinalityType, FS_EmptySet
<1>4. Cardinality(S \ {Pick(S)}) = Cardinality(S) - 1
  BY <1>1, <1>2, FS_RemoveElement
<1> QED BY <1>1, <1>3, <1>4

LEMMA PartSumsExist ==
  ASSUME NEW f, IsFiniteSet(DOMAIN f), \A x \in DOMAIN f : f[x] \in Nat
  PROVE  \E g \in [SUBSET DOMAIN f -> Nat] : PartSums(g, f, Cardinality(DOMAIN f))
<1> DEFINE D == DOMAIN f
           N == Cardinality(D)
           T == {n \in 0..N : \E g \in [SUBSET D -> Nat] : PartSums(g, f, n)}
<1>0. N \in Nat
  BY FS_CardinalityType
<1>c. \A S \in SUBSET D : IsFiniteSet(S) /\ Cardinality(S) \in Nat
  BY FS_Subset, FS_CardinalityType
<1>1. 0 \in T
  <2> DEFINE g == [S \in SUBSET D |-> 0]
  <2>1. \A S \in SUBSET D : Cardinality(S) <= 0 => S = {}
    BY <1>c, FS_EmptySet
  <2>2. g \in [SUBSET D -> Nat] /\ PartSums(g, f, 0)
    BY <2>1 DEF PartSums
  <2> HIDE DEF g
  <2> QED BY <1>0, <2>2
<1>2. ASSUME NEW n \in 1..N, n - 1 \in T PROVE n \in T
  <2>1. PICK g \in [SUBSET D -> Nat] : PartSums(g, f, n - 1)
    BY <1>2
  <2> DEFINE h == [S \in SUBSET D |->
                     IF Cardinality(S) = n THEN f[Pick(S)] + g[S \ {Pick(S)}] ELSE g[S]]
  <2>2. h \in [SUBSET D -> Nat]
    <3>1. ASSUME NEW S \in SUBSET D, Cardinality(S) = n
          PROVE  f[Pick(S)] + g[S \ {Pick(S)}] \in Nat
      <4>1. S # {}
        <5>1. n # 0 /\ Cardinality({}) = 0
          BY <1>0, FS_EmptySet
        <5> QED BY <3>1, <5>1
      <4>2. Pick(S) \in D /\ S \ {Pick(S)} \in SUBSET D
        BY <4>1, PickShape
      <4>3. f[Pick(S)] \in Nat /\ g[S \ {Pick(S)}] \in Nat
        BY <2>1, <4>2
      <4> QED BY <4>3
    <3> QED BY <2>1, <3>1
  <2>3. ASSUME NEW S \in SUBSET D, Cardinality(S) <= n
        PROVE  h[S] = IF S = {} THEN 0 ELSE f[Pick(S)] + h[S \ {Pick(S)}]
    <3>1. CASE S = {}
      <4>1. Cardinality(S) = 0 /\ Cardinality(S) <= n - 1 /\ Cardinality(S) # n
        BY <3>1, FS_EmptySet
      <4>2. g[S] = 0
        BY <2>1, <3>1, <4>1 DEF PartSums
      <4> QED BY <3>1, <4>1, <4>2
    <3>2. CASE S # {}
      <4>1. /\ S \ {Pick(S)} \in SUBSET D /\ Cardinality(S) \in Nat
            /\ Cardinality(S \ {Pick(S)}) = Cardinality(S) - 1
        BY <3>2, PickShape
      <4>2. Cardinality(S \ {Pick(S)}) # n
        BY <2>3, <4>1
      <4>3. h[S \ {Pick(S)}] = g[S \ {Pick(S)}]
        BY <4>1, <4>2
      <4>4. CASE Cardinality(S) = n
        BY <3>2, <4>3, <4>4
      <4>5. CASE Cardinality(S) # n
        <5>1. Cardinality(S) <= n - 1
          BY <2>3, <4>1, <4>5
        <5>2. g[S] = f[Pick(S)] + g[S \ {Pick(S)}]
          BY <2>1, <3>2, <5>1 DEF PartSums
        <5> QED BY <3>2, <4>3, <4>5, <5>2
      <4> QED BY <4>4, <4>5
    <3> QED BY <3>1, <3>2
  <2> HIDE DEF h
  <2>4. PartSums(h, f, n)
    BY <2>3 DEF PartSums
  <2> QED BY <2>2, <2>4
<1> HIDE DEF T
<1>3. \A n \in 0..N : n \in T
  BY <1>0, <1>1, <1>2, IntervalInduction
<1>4. N \in T
  BY <1>0, <1>3
<1> QED BY <1>4 DEF T

\* The sum of natural numbers over a finite set is one.
LEMMA SumTyped ==
  ASSUME NEW f, IsFiniteSet(DOMAIN f), \A x \in DOMAIN f : f[x] \in Nat
  PROVE  /\ SumOf(f) \in Nat
         /\ \A a : DOMAIN f = {a} => SumOf(f) = f[a]
<1> DEFINE D == DOMAIN f
           N == Cardinality(D)
           sum[S \in SUBSET D] ==
             IF S = {} THEN 0 ELSE LET x == CHOOSE y \in S : TRUE IN f[x] + sum[S \ {x}]
           Fixed(g) == g = [S \in SUBSET D |->
                              IF S = {} THEN 0 ELSE f[Pick(S)] + g[S \ {Pick(S)}]]
<1>0. N \in Nat /\ \A S \in SUBSET D : IsFiniteSet(S) /\ Cardinality(S) \in Nat /\ Cardinality(S) <= N
  BY FS_Subset, FS_CardinalityType
<1>1. PICK g \in [SUBSET D -> Nat] : PartSums(g, f, N)
  BY PartSumsExist
<1>2. Fixed(g)
  <2>1. \A S \in SUBSET D : g[S] = IF S = {} THEN 0 ELSE f[Pick(S)] + g[S \ {Pick(S)}]
    BY <1>0, <1>1 DEF PartSums
  <2>2. g = [S \in SUBSET D |-> g[S]]
    BY <1>1
  <2> QED BY <2>1, <2>2
<1>3. sum = CHOOSE h : Fixed(h)
  BY DEF Pick
<1>4. SumOf(f) = sum[D]
  BY DEF SumOf
<1> HIDE DEF sum, Fixed
<1>5. Fixed(sum)
  BY <1>2, <1>3
<1>6. \A S \in SUBSET D : sum[S] = IF S = {} THEN 0 ELSE f[Pick(S)] + sum[S \ {Pick(S)}]
  BY <1>5 DEF Fixed
<1> DEFINE T == {n \in 0..N : \A S \in SUBSET D : Cardinality(S) = n => sum[S] \in Nat}
<1>7. 0 \in T
  <2>1. \A S \in SUBSET D : Cardinality(S) = 0 => S = {}
    BY <1>0, FS_EmptySet
  <2> QED BY <1>0, <1>6, <2>1
<1>8. ASSUME NEW n \in 1..N, n - 1 \in T PROVE n \in T
  <2> SUFFICES ASSUME NEW S \in SUBSET D, Cardinality(S) = n PROVE sum[S] \in Nat
    OBVIOUS
  <2>1. S # {}
    <3>1. n # 0 /\ Cardinality({}) = 0
      BY <1>0, FS_EmptySet
    <3> QED BY <3>1
  <2>2. /\ Pick(S) \in D /\ S \ {Pick(S)} \in SUBSET D
        /\ Cardinality(S \ {Pick(S)}) = n - 1
    BY <2>1, PickShape
  <2>3. f[Pick(S)] \in Nat /\ sum[S \ {Pick(S)}] \in Nat
    BY <1>8, <2>2
  <2>4. sum[S] = f[Pick(S)] + sum[S \ {Pick(S)}]
    BY <1>6, <2>1
  <2> QED BY <2>3, <2>4
<1> HIDE DEF T
<1>9. \A n \in 0..N : n \in T
  BY <1>0, <1>7, <1>8, IntervalInduction
<1>10. sum[D] \in Nat
  BY <1>0, <1>9 DEF T
<1>11. ASSUME NEW a, D = {a} PROVE SumOf(f) = f[a]
  <2>1. Pick(D) = a /\ D \ {Pick(D)} = {} /\ D # {}
    BY <1>11 DEF Pick
  <2>2. sum[D] = f[a] + sum[{}] /\ sum[{}] = 0
    BY <1>6, <2>1
  <2> QED BY <1>4, <1>11, <2>2
<1> QED BY <1>4, <1>10, <1>11

-----------------------------------------------------------------------------
(* What is selected, and what it leads to.                                  *)

LEMMA InputShape ==
  ASSUME NEW in \in Inputs
  PROVE  /\ IsFiniteSet(DOMAIN in.edges)
         /\ \A n \in DOMAIN in.edges :
              in.edges[n] \subseteq (DOMAIN in.edges) \X Nat /\ IsFiniteSet(in.edges[n])
         /\ DOMAIN in.edges \subseteq Nat
         /\ DOMAIN in.discounts \subseteq Nat \ {NoHop}
         /\ \A t \in DOMAIN in.discounts : in.discounts[t] \in Nat
         /\ DOMAIN in.scores \subseteq DOMAIN in.edges
         /\ \A s \in DOMAIN in.scores : in.scores[s] \in Nat
         /\ in.seeds \in Nat \ {0} /\ in.fanout \in Nat \ {0}
         /\ in.depth \in Nat \ {0} /\ in.visited \in Nat \ {0} /\ in.floor \in Nat
         /\ Unit \in Nat \ {0} /\ Damping \in Nat
BY ExpansionAssumption DEF ExpansionAssumption

LEMMA SelectedShape ==
  ASSUME NEW in \in Inputs
  PROVE  /\ SeedItems(in) \subseteq DOMAIN in.scores /\ SeedItems(in) \subseteq DOMAIN in.edges
         /\ IsFiniteSet(SeedItems(in)) /\ Cardinality(SeedItems(in)) \in Nat
         /\ \A n \in DOMAIN in.edges : IsFiniteSet(TopEdges(in, n)) /\
              \A e \in TopEdges(in, n) :
                /\ e = <<e[1], e[2]>> /\ e[1] \in DOMAIN in.edges
                /\ e[2] \in DOMAIN in.discounts /\ e[2] # NoHop /\ in.discounts[e[2]] \in Nat
<1>1. SeedItems(in) \subseteq DOMAIN in.scores
  BY DEF SeedItems
<1>2. IsFiniteSet(SeedItems(in)) /\ Cardinality(SeedItems(in)) \in Nat
  BY <1>1, InputShape, FS_Subset, FS_CardinalityType
<1>3. ASSUME NEW n \in DOMAIN in.edges
      PROVE  IsFiniteSet(TopEdges(in, n)) /\
             \A e \in TopEdges(in, n) :
                /\ e = <<e[1], e[2]>> /\ e[1] \in DOMAIN in.edges
                /\ e[2] \in DOMAIN in.discounts /\ e[2] # NoHop /\ in.discounts[e[2]] \in Nat
  <2>1. TopEdges(in, n) \subseteq in.edges[n]
    BY DEF TopEdges, Supported
  <2>2. IsFiniteSet(TopEdges(in, n))
    BY <2>1, InputShape, FS_Subset
  <2>3. ASSUME NEW e \in TopEdges(in, n)
        PROVE  /\ e = <<e[1], e[2]>> /\ e[1] \in DOMAIN in.edges
               /\ e[2] \in DOMAIN in.discounts /\ e[2] # NoHop /\ in.discounts[e[2]] \in Nat
    <3>1. e \in (DOMAIN in.edges) \X Nat
      BY <2>1, InputShape
    <3>2. e[2] \in DOMAIN in.discounts
      BY DEF TopEdges, Supported
    <3> QED BY <3>1, <3>2, InputShape
  <2> QED BY <2>2, <2>3
<1> QED BY <1>1, <1>2, <1>3, InputShape

\* The targets of the edges selected at some nodes.
Onwards(in, X) == {e[1] : e \in UNION {TopEdges(in, x) : x \in X}}

LEMMA OnwardsShape ==
  ASSUME NEW in \in Inputs, NEW X \in SUBSET DOMAIN in.edges
  PROVE  /\ Onwards(in, X) \subseteq DOMAIN in.edges
         /\ \A x \in X : \A e \in TopEdges(in, x) : e[1] \in Onwards(in, X)
BY SelectedShape DEF Onwards

\* Reach is what its recursion says.
LEMMA WithinShape ==
  ASSUME NEW in \in Inputs, NEW node \in DOMAIN in.edges
  PROVE  /\ Within(in, node, 0) = {node}
         /\ \A h \in 0..in.depth : Within(in, node, h) \subseteq DOMAIN in.edges
         /\ \A h \in 1..in.depth :
              Within(in, node, h) = Within(in, node, h - 1) \cup Onwards(in, Within(in, node, h - 1))
<1> DEFINE L == in.depth
           D == DOMAIN in.edges
           P == {n \in 1..L : TRUE} \X SUBSET D
           V == [n \in 0..L |-> SUBSET D]
           G == [p \in P |-> p[2] \cup Onwards(in, p[2])]
           Fixed(g) == g = [h \in 0..L |-> IF h = 0 THEN {node}
                                           ELSE g[h - 1] \cup Onwards(in, g[h - 1])]
           reach[h \in 0..L] == IF h = 0 THEN {node}
                                ELSE reach[h - 1] \cup Onwards(in, reach[h - 1])
<1>0. L \in Nat
  BY InputShape
<1>1. \A n \in 0..L : V[n] = SUBSET D
  OBVIOUS
<1>2. \A n \in 1..L : \A x \in SUBSET D : G[<<n, x>>] = x \cup Onwards(in, x) /\ G[<<n, x>>] \in SUBSET D
  <2>1. ASSUME NEW n \in 1..L, NEW x \in SUBSET D
        PROVE  G[<<n, x>>] = x \cup Onwards(in, x) /\ G[<<n, x>>] \in SUBSET D
    <3>1. <<n, x>> \in P
      OBVIOUS
    <3>2. Onwards(in, x) \subseteq D
      BY OnwardsShape
    <3> QED BY <3>1, <3>2
  <2> QED BY <2>1
<1>3. PICK f : Runs(f, L, V, G, {node})
  <2> HIDE DEF V, G, L, D
  <2>1. {node} \in V[0]
    BY <1>0, <1>1 DEF D
  <2>2. \A n \in 1..L : \A x \in V[n - 1] : G[<<n, x>>] \in V[n]
    <3>1. \A n \in 1..L : n \in 0..L /\ n - 1 \in 0..L
      BY <1>0
    <3>2. \A n \in 1..L : V[n] = SUBSET D /\ V[n - 1] = SUBSET D
      BY <1>1, <3>1
    <3> QED BY <1>2, <3>2
  <2> QED BY <1>0, <2>1, <2>2, RecursionExists
<1>4. Fixed(f)
  <2> HIDE DEF V, G, D
  <2>1. f = [h \in 0..L |-> f[h]] /\ f[0] = {node}
    BY <1>3 DEF Runs
  <2>2. \A h \in 1..L : f[h - 1] \in SUBSET D /\ f[h] = G[<<h, f[h - 1]>>]
    BY <1>0, <1>1, <1>3 DEF Runs
  <2>3. ASSUME NEW h \in 0..L
        PROVE  f[h] = IF h = 0 THEN {node} ELSE f[h - 1] \cup Onwards(in, f[h - 1])
    <3>1. CASE h = 0
      BY <2>1, <3>1
    <3>2. CASE h # 0
      <4>1. h \in 1..L
        BY <1>0, <3>2
      <4>2. f[h] = f[h - 1] \cup Onwards(in, f[h - 1])
        BY <1>2, <2>2, <4>1
      <4> QED BY <3>2, <4>2
    <3> QED BY <3>1, <3>2
  <2> HIDE DEF L
  <2> QED BY <2>1, <2>3
<1>5. Reach(in, node) = reach
  BY DEF Reach, Onwards
<1>6. reach = CHOOSE g : Fixed(g)
  OBVIOUS
<1> HIDE DEF reach, Fixed
<1>7. Fixed(reach)
  BY <1>4, <1>6
<1>8. /\ reach[0] = {node}
      /\ \A h \in 1..L : reach[h] = reach[h - 1] \cup Onwards(in, reach[h - 1])
  <2>1. \A h \in 0..L : reach[h] = IF h = 0 THEN {node} ELSE reach[h - 1] \cup Onwards(in, reach[h - 1])
    BY <1>7 DEF Fixed
  <2>2. 0 \in 0..L /\ \A h \in 1..L : h \in 0..L /\ h # 0
    BY <1>0
  <2> QED BY <2>1, <2>2
<1> DEFINE T == {h \in 0..L : reach[h] \subseteq D}
<1>9. 0 \in T
  BY <1>0, <1>8
<1>10. ASSUME NEW h \in 1..L, h - 1 \in T PROVE h \in T
  <2>1. reach[h - 1] \in SUBSET D /\ h \in 0..L
    BY <1>0, <1>10
  <2>2. Onwards(in, reach[h - 1]) \subseteq D
    BY <2>1, OnwardsShape
  <2> QED BY <1>8, <2>1, <2>2
<1> HIDE DEF T
<1>11. \A h \in 0..L : h \in T
  BY <1>0, <1>9, <1>10, IntervalInduction
<1>12. \A h \in 0..L : Within(in, node, h) = reach[h]
  BY <1>5 DEF Within
<1>13. 0 \in 0..L /\ \A h \in 1..L : h \in 0..L /\ h - 1 \in 0..L
  BY <1>0
<1>14. \A h \in 0..L : Within(in, node, h) \subseteq D
  BY <1>11, <1>12 DEF T
<1> HIDE DEF L, D
<1>15. \A h \in 1..L :
         Within(in, node, h) = Within(in, node, h - 1) \cup Onwards(in, Within(in, node, h - 1))
  BY <1>8, <1>12, <1>13
<1>16. Within(in, node, 0) = {node}
  BY <1>8, <1>12, <1>13
<1> QED BY <1>14, <1>15, <1>16 DEF L, D

LEMMA WithinGrows ==
  ASSUME NEW in \in Inputs, NEW node \in DOMAIN in.edges, NEW g \in 0..in.depth,
         NEW h \in g..in.depth
  PROVE  Within(in, node, g) \subseteq Within(in, node, h)
<1> DEFINE K == h - g
           T == {k \in 0..K : Within(in, node, g) \subseteq Within(in, node, g + k)}
<1>0. K \in Nat /\ g + 0 = g /\ g + K = h /\ in.depth \in Nat
  BY InputShape
<1>1. 0 \in T
  BY <1>0
<1>2. ASSUME NEW k \in 1..K, k - 1 \in T PROVE k \in T
  <2>1. g + k \in 1..in.depth /\ (g + k) - 1 = g + (k - 1)
    BY <1>0
  <2> QED BY <1>2, <2>1, WithinShape
<1> HIDE DEF T
<1>3. \A k \in 0..K : k \in T
  BY <1>0, <1>1, <1>2, IntervalInduction
<1>4. K \in T
  BY <1>0, <1>3
<1> QED BY <1>0, <1>4 DEF T

\* One more edge leads one further.
LEMMA WithinNext ==
  ASSUME NEW in \in Inputs, NEW node \in DOMAIN in.edges, NEW h \in 0..(in.depth - 1),
         NEW n \in Within(in, node, h), NEW e \in TopEdges(in, n)
  PROVE  e[1] \in Within(in, node, h + 1)
<1>1. in.depth \in Nat
  BY InputShape
<1>2. h \in 0..in.depth /\ h + 1 \in 1..in.depth /\ (h + 1) - 1 = h
  BY <1>1
<1> QED BY <1>2, WithinShape, OnwardsShape

-----------------------------------------------------------------------------
(* Flows and tables.                                                        *)

LEMMA FlowsShape ==
  ASSUME NEW in, NEW byHop, NEW picked
  PROVE  /\ \A f \in Flows(in, byHop, picked) : \E e \in picked : \E h \in DOMAIN byHop :
              /\ f = <<e[1], Carried(h, e), Propagated(in, byHop[h], e), <<e, h>> >>
              /\ Propagated(in, byHop[h], e) > 0
         /\ \A e \in picked : \A h \in DOMAIN byHop : Propagated(in, byHop[h], e) > 0 =>
              <<e[1], Carried(h, e), Propagated(in, byHop[h], e), <<e, h>> >> \in Flows(in, byHop, picked)
<1> DEFINE flow(e, h) == <<e[1], Carried(h, e), Propagated(in, byHop[h], e), <<e, h>> >>
<1>1. Flows(in, byHop, picked) = {f \in {flow(e, h) : e \in picked, h \in DOMAIN byHop} : f[3] > 0}
  BY DEF Flows
<1>2. \A e, h : flow(e, h)[3] = Propagated(in, byHop[h], e)
  OBVIOUS
<1> HIDE DEF flow
<1>3. /\ \A f \in Flows(in, byHop, picked) : \E e \in picked : \E h \in DOMAIN byHop :
           f = flow(e, h) /\ Propagated(in, byHop[h], e) > 0
      /\ \A e \in picked : \A h \in DOMAIN byHop : Propagated(in, byHop[h], e) > 0 =>
           flow(e, h) \in Flows(in, byHop, picked)
  BY <1>1, <1>2
<1> QED BY <1>3 DEF flow

\* Who is in a table once flows are added, and under which keys.
LEMMA AddedShape ==
  ASSUME NEW table, NEW flows
  PROVE  /\ \A n : n \in DOMAIN Added(table, flows) <=>
                     n \in DOMAIN table \/ \E x \in flows : x[1] = n
         /\ \A n \in DOMAIN Added(table, flows) : \A k :
              k \in DOMAIN Added(table, flows)[n] <=>
                \/ n \in DOMAIN table /\ k \in DOMAIN table[n]
                \/ \E x \in flows : x[1] = n /\ x[2] = k
<1> DEFINE old(n) == IF n \in DOMAIN table THEN table[n] ELSE [k \in {} |-> 0]
           here(n) == {x \in flows : x[1] = n}
           D == DOMAIN table \cup {x[1] : x \in flows}
           row(n) == [k \in DOMAIN old(n) \cup {x[2] : x \in here(n)} |->
                        (IF k \in DOMAIN old(n) THEN old(n)[k] ELSE 0)
                          + SumOf([x \in {y \in here(n) : y[2] = k} |-> x[3]])]
<1>1. Added(table, flows) = [n \in D |-> row(n)]
  BY DEF Added
<1>2. \A n : DOMAIN row(n) = DOMAIN old(n) \cup {x[2] : x \in here(n)}
  OBVIOUS
<1>3. \A n : DOMAIN old(n) = IF n \in DOMAIN table THEN DOMAIN table[n] ELSE {}
  OBVIOUS
<1> HIDE DEF row, old
<1>4. DOMAIN Added(table, flows) = D /\ \A n \in D : Added(table, flows)[n] = row(n)
  BY <1>1
<1>5. ASSUME NEW n \in D, NEW k
      PROVE  k \in DOMAIN Added(table, flows)[n] <=>
               \/ n \in DOMAIN table /\ k \in DOMAIN table[n]
               \/ \E x \in flows : x[1] = n /\ x[2] = k
  <2>1. DOMAIN Added(table, flows)[n] = DOMAIN old(n) \cup {x[2] : x \in here(n)}
    BY <1>2, <1>4
  <2>2. k \in {x[2] : x \in here(n)} <=> \E x \in flows : x[1] = n /\ x[2] = k
    OBVIOUS
  <2>3. k \in DOMAIN old(n) <=> n \in DOMAIN table /\ k \in DOMAIN table[n]
    BY <1>3
  <2> HIDE DEF here
  <2> QED BY <2>1, <2>2, <2>3
<1> QED BY <1>4, <1>5

-----------------------------------------------------------------------------
(* The expansion of a search: the inductive invariant.                      *)

ExpansionSpec == PprInit /\ [][PprNext]_pprVars

\* An edge of type t selected at s has n behind it, at most g hops further.
Behind(in, s, t, n, g) ==
  \E e \in TopEdges(in, s) : e[2] = t /\ n \in Within(in, e[1], g)

\* Mass of first hop t is at n in hop h of the walk from s.
Came(in, s, h, n, t) ==
  IF h = 1 THEN n = s /\ t = NoHop ELSE t # NoHop /\ Behind(in, s, t, n, h - 2)

Traced(in, s, h, table) ==
  \A n \in DOMAIN table :
    n \in DOMAIN in.edges /\ \A t \in DOMAIN table[n] : Came(in, s, h, n, t)

Reported(in, given) ==
  \A n \in DOMAIN given :
    /\ n \in DOMAIN in.edges /\ \E k : k \in DOMAIN given[n]
    /\ \A k \in DOMAIN given[n] :
         k[1] \in SeedItems(in) /\ Behind(in, k[1], k[2], n, in.depth - 1)

\* The walk from s has taken its first hop.
Departed(s) == s \notin ppr.left /\ ~(s = hike.seed /\ hike.hop = 1 /\ hike.layer # {})

\* What one hop from a seed gives.
OneHop(in, s) ==
  Credited(s, Flows(in, [h \in {NoHop} |-> RestartMass(in, s)], TopEdges(in, s)))

CallKept ==
  /\ DOMAIN ppr = {"in", "phase", "left", "cache", "calls", "given"}
  /\ ppr.in \in Inputs /\ TotalScore(ppr.in) > 0
  /\ ppr.left \subseteq SeedItems(ppr.in) \ {hike.seed}
  /\ ppr.phase = "done" => ppr.left = {} /\ hike.layer = {}

HikeShape ==
  /\ DOMAIN hike = {"seed", "hop", "frontier", "layer", "next"}
  /\ hike.seed \in SeedItems(ppr.in) /\ hike.hop \in 1..ppr.in.depth
  /\ hike.layer \subseteq DOMAIN hike.frontier
  /\ Traced(ppr.in, hike.seed, hike.hop, hike.frontier)
  /\ Traced(ppr.in, hike.seed, hike.hop + 1, hike.next)
  /\ hike.hop = 1 => hike.frontier = Start(ppr.in, hike.seed).frontier

AskedShape ==
  /\ ppr.cache \subseteq DOMAIN ppr.in.edges /\ IsFiniteSet(ppr.cache)
  /\ Cardinality(ppr.cache) <= ppr.in.visited
  /\ ppr.calls \in [DOMAIN ppr.in.edges -> Nat]
  /\ \A n \in DOMAIN ppr.in.edges : ppr.calls[n] = IF n \in ppr.cache THEN 1 ELSE 0
  /\ ppr.in.depth = 1 => \A n \in ppr.cache : n \in SeedItems(ppr.in) /\ Departed(n)

CoverShape ==
  Uncut(ppr.in) =>
    /\ \A s \in SeedItems(ppr.in) : Departed(s) =>
         \A e \in TopEdges(ppr.in, s) : e[1] \in DOMAIN ppr.given
    /\ ppr.in.depth = 1 /\ SeedItems(ppr.in) = {hike.seed} =>
         ppr.given = IF Departed(hike.seed) THEN Added(NoMass, OneHop(ppr.in, hike.seed))
                     ELSE NoMass

PprInv == CallKept /\ HikeShape /\ AskedShape /\ Reported(ppr.in, ppr.given) /\ CoverShape

LEMMA BehindGrows ==
  ASSUME NEW in \in Inputs, NEW s \in SeedItems(in), NEW t, NEW n,
         NEW g \in 0..in.depth, NEW h \in g..in.depth, Behind(in, s, t, n, g)
  PROVE  Behind(in, s, t, n, h) /\ n \in DOMAIN in.edges
<1>1. PICK e \in TopEdges(in, s) : e[2] = t /\ n \in Within(in, e[1], g)
  BY DEF Behind
<1>2. e[1] \in DOMAIN in.edges
  BY SelectedShape
<1>3. Within(in, e[1], g) \subseteq Within(in, e[1], h) /\ Within(in, e[1], g) \subseteq DOMAIN in.edges
  BY <1>2, WithinGrows, WithinShape
<1> QED BY <1>1, <1>3 DEF Behind

\* Mass stays behind its first hop when it goes on.
LEMMA CameOn ==
  ASSUME NEW in \in Inputs, NEW s \in SeedItems(in), NEW h \in 1..in.depth,
         NEW n \in DOMAIN in.edges, NEW t, Came(in, s, h, n, t), NEW e \in TopEdges(in, n)
  PROVE  /\ e[1] \in DOMAIN in.edges
         /\ Came(in, s, h + 1, e[1], Carried(t, e))
         /\ Behind(in, s, Carried(t, e), e[1], in.depth - 1)
<1>0. in.depth \in Nat \ {0} /\ in.depth - 1 \in 0..in.depth
  BY InputShape
<1>1. e[1] \in DOMAIN in.edges /\ e[2] # NoHop
  BY SelectedShape
<1>2. Carried(t, e) # NoHop /\ Behind(in, s, Carried(t, e), e[1], h - 1)
  <2>1. CASE h = 1
    <3>1. n = s /\ t = NoHop /\ Carried(t, e) = e[2]
      BY <2>1 DEF Came, Carried
    <3>2. e[1] \in Within(in, e[1], 0)
      BY <1>1, WithinShape
    <3> QED BY <1>1, <2>1, <3>1, <3>2 DEF Behind
  <2>2. CASE h # 1
    <3>1. t # NoHop /\ Carried(t, e) = t /\ Behind(in, s, t, n, h - 2)
      BY <2>2 DEF Came, Carried
    <3>2. PICK f \in TopEdges(in, s) : f[2] = t /\ n \in Within(in, f[1], h - 2)
      BY <3>1 DEF Behind
    <3>3. h - 2 \in 0..(in.depth - 1) /\ (h - 2) + 1 = h - 1
      BY <1>0, <2>2
    <3>4. f[1] \in DOMAIN in.edges
      BY SelectedShape
    <3>5. e[1] \in Within(in, f[1], h - 1)
      BY <3>2, <3>3, <3>4, WithinNext
    <3> QED BY <3>1, <3>2, <3>5 DEF Behind
  <2> QED BY <2>1, <2>2
<1>3. h - 1 \in 0..in.depth /\ in.depth - 1 \in (h - 1)..in.depth /\ (h + 1) - 2 = h - 1 /\ h + 1 # 1
  BY <1>0
<1>4. Behind(in, s, Carried(t, e), e[1], in.depth - 1)
  BY <1>2, <1>3, BehindGrows
<1> QED BY <1>1, <1>2, <1>3, <1>4 DEF Came

LEMMA MassShape ==
  ASSUME NEW in \in Inputs, TotalScore(in) > 0
  PROVE  /\ TotalScore(in) \in Nat \ {0} /\ Whole \in Nat
         /\ \A s \in SeedItems(in) : RestartMass(in, s) \in Nat
         /\ \A s \in SeedItems(in) : SeedItems(in) = {s} => TotalScore(in) = in.scores[s]
<1> DEFINE f == [s \in SeedItems(in) |-> in.scores[s]]
<1>1. DOMAIN f = SeedItems(in) /\ \A s \in DOMAIN f : f[s] \in Nat /\ f[s] = in.scores[s]
  BY InputShape, SelectedShape
<1>2. TotalScore(in) = SumOf(f)
  BY DEF TotalScore
<1> HIDE DEF f
<1>3. /\ TotalScore(in) \in Nat
      /\ \A s : SeedItems(in) = {s} => TotalScore(in) = f[s]
  BY <1>1, <1>2, SelectedShape, SumTyped
<1>4. Whole \in Nat
  <2>1. \A a, b \in Nat : a * b \in Nat
    OBVIOUS
  <2>2. Unit \in Nat
    BY InputShape
  <2> QED BY <2>1, <2>2 DEF Whole
<1>5. ASSUME NEW s \in SeedItems(in) PROVE RestartMass(in, s) \in Nat
  <2>1. Whole * in.scores[s] \in Nat
    BY <1>1, <1>4
  <2> QED BY <1>3, <2>1 DEF RestartMass
<1> QED BY <1>1, <1>3, <1>4, <1>5

LEMMA DivisionGrows ==
  ASSUME NEW a \in Nat, NEW b \in Nat, a <= b, NEW c \in Nat \ {0}
  PROVE  a \div c \in Nat /\ a \div c <= b \div c
OBVIOUS

\* Without bounds that cut, each edge of a seed carries mass.
LEMMA OneHopShape ==
  ASSUME NEW in \in Inputs, TotalScore(in) > 0, Uncut(in), NEW s \in SeedItems(in)
  PROVE  /\ RestartMass(in, s) \in Nat /\ RestartMass(in, s) >= in.floor
         /\ \A e \in TopEdges(in, s) : /\ e[2] # NoHop /\ e = <<e[1], e[2]>>
                                       /\ Propagated(in, RestartMass(in, s), e) \in Nat \ {0}
                                       /\ Propagated(in, RestartMass(in, s), e) > 0
<1> DEFINE m == RestartMass(in, s)
<1>1. m \in Nat /\ m >= in.floor /\ \A e \in TopEdges(in, s) : Propagated(in, m, e) # 0
  BY MassShape DEF Uncut
<1> HIDE DEF m
<1>2. ASSUME NEW e \in TopEdges(in, s)
      PROVE  /\ e[2] # NoHop /\ e = <<e[1], e[2]>>
             /\ Propagated(in, m, e) \in Nat
  <2>1. /\ in.discounts[e[2]] \in Nat /\ Damping \in Nat /\ Unit \in Nat \ {0}
        /\ e[2] # NoHop /\ e = <<e[1], e[2]>>
    BY SelectedShape, InputShape
  <2>2. m * Damping * in.discounts[e[2]] \in Nat /\ Unit * Unit \in Nat \ {0}
    <3>1. \A a, b \in Nat : a * b \in Nat
      OBVIOUS
    <3>2. \A a \in Nat \ {0} : a * a \in Nat \ {0}
      OBVIOUS
    <3> QED BY <1>1, <2>1, <3>1, <3>2
  <2>3. Propagated(in, m, e) \in Nat
    BY <2>2, DivisionGrows DEF Propagated
  <2> QED BY <2>1, <2>3
<1> QED BY <1>1, <1>2 DEF m

LEMMA StartShape ==
  ASSUME NEW in, NEW s
  PROVE  /\ DOMAIN Start(in, s) = {"seed", "hop", "frontier", "layer", "next"}
         /\ Start(in, s).seed = s /\ Start(in, s).hop = 1
         /\ Start(in, s).layer = {s} /\ Start(in, s).next = NoMass
         /\ DOMAIN Start(in, s).frontier = {s}
         /\ DOMAIN Start(in, s).frontier[s] = {NoHop}
         /\ DOMAIN NoMass = {}
BY DEF Start, NoMass

\* The walk from a seed begins.
LEMMA StartTraced ==
  ASSUME NEW in \in Inputs, NEW s \in SeedItems(in)
  PROVE  Traced(in, s, 1, Start(in, s).frontier) /\ \A h : Traced(in, s, h, NoMass)
<1>1. s \in DOMAIN in.edges
  BY SelectedShape
<1>2. DOMAIN Start(in, s).frontier[s] = {NoHop}
  BY StartShape
<1> QED BY <1>1, <1>2, StartShape DEF Traced, Came

LEMMA InitPprInv == PprInit => PprInv
<1> SUFFICES ASSUME PprInit PROVE PprInv
  OBVIOUS
<1>1. PICK in \in Inputs : \E seed \in SeedItems(in) :
        /\ TotalScore(in) > 0
        /\ hike = Start(in, seed)
        /\ ppr = [in |-> in, phase |-> "walking", left |-> SeedItems(in) \ {seed}, cache |-> {},
                  calls |-> [n \in DOMAIN in.edges |-> 0], given |-> NoMass]
  BY DEF PprInit
<1>2. PICK seed \in SeedItems(in) :
        /\ TotalScore(in) > 0
        /\ hike = Start(in, seed)
        /\ ppr = [in |-> in, phase |-> "walking", left |-> SeedItems(in) \ {seed}, cache |-> {},
                  calls |-> [n \in DOMAIN in.edges |-> 0], given |-> NoMass]
  BY <1>1
<1>3. /\ DOMAIN ppr = {"in", "phase", "left", "cache", "calls", "given"}
      /\ ppr.in = in /\ ppr.phase = "walking" /\ ppr.left = SeedItems(in) \ {seed}
      /\ ppr.cache = {} /\ ppr.calls = [n \in DOMAIN in.edges |-> 0] /\ ppr.given = NoMass
  BY <1>2
<1>4. /\ DOMAIN hike = {"seed", "hop", "frontier", "layer", "next"}
      /\ hike.seed = seed /\ hike.hop = 1 /\ hike.layer = {seed} /\ hike.next = NoMass
      /\ hike.frontier = Start(in, seed).frontier /\ DOMAIN hike.frontier = {seed}
  BY <1>2, StartShape
<1>5. \A s \in SeedItems(in) : ~Departed(s)
  BY <1>3, <1>4 DEF Departed
<1>6. CallKept
  BY <1>2, <1>3, <1>4 DEF CallKept
<1>7. HikeShape
  <2>1. 1 \in 1..in.depth
    BY InputShape
  <2> QED BY <1>3, <1>4, <2>1, StartTraced DEF HikeShape
<1>8. AskedShape
  <2>1. IsFiniteSet(ppr.cache) /\ Cardinality(ppr.cache) = 0 /\ in.visited \in Nat
    BY <1>3, FS_EmptySet, InputShape
  <2> QED BY <1>3, <2>1 DEF AskedShape
<1>9. Reported(ppr.in, ppr.given)
  BY <1>3, StartShape DEF Reported
<1>10. CoverShape
  BY <1>3, <1>4, <1>5 DEF CoverShape
<1> QED BY <1>6, <1>7, <1>8, <1>9, <1>10 DEF PprInv

LEMMA RoomFor ==
  ASSUME NEW U, IsFiniteSet(U), NEW C \in SUBSET U, NEW x \in U \ C
  PROVE  /\ IsFiniteSet(C) /\ Cardinality(C) \in Nat /\ Cardinality(C) < Cardinality(U)
         /\ Cardinality(C \cup {x}) = Cardinality(C) + 1
<1>1. IsFiniteSet(C) /\ Cardinality(C) \in Nat /\ Cardinality(U) \in Nat
  BY FS_Subset, FS_CardinalityType
<1>2. Cardinality(C \cup {x}) = Cardinality(C) + 1
  BY <1>1, FS_AddElement
<1>3. Cardinality(C \cup {x}) <= Cardinality(U)
  <2>1. C \cup {x} \in SUBSET U
    OBVIOUS
  <2> QED BY <2>1, FS_Subset
<1> QED BY <1>1, <1>2, <1>3

\* What a node sends comes from its mass over its selected edges.
LEMMA SentShape ==
  ASSUME PprInv, NEW node \in hike.layer
  PROVE  /\ node \in DOMAIN ppr.in.edges
         /\ \A x \in Sent(node) :
              /\ ~Silent(node) /\ x[1] \in DOMAIN ppr.in.edges
              /\ Came(ppr.in, hike.seed, hike.hop + 1, x[1], x[2])
              /\ Behind(ppr.in, hike.seed, x[2], x[1], ppr.in.depth - 1)
<1> DEFINE byHop == hike.frontier[node]
           picked == IF Silent(node) THEN {} ELSE TopEdges(ppr.in, node)
<1>1. /\ ppr.in \in Inputs /\ hike.seed \in SeedItems(ppr.in) /\ hike.hop \in 1..ppr.in.depth
      /\ node \in DOMAIN ppr.in.edges
      /\ \A t \in DOMAIN byHop : Came(ppr.in, hike.seed, hike.hop, node, t)
  BY DEF PprInv, CallKept, HikeShape, Traced
<1>2. ASSUME NEW x \in Sent(node)
      PROVE  /\ ~Silent(node) /\ x[1] \in DOMAIN ppr.in.edges
             /\ Came(ppr.in, hike.seed, hike.hop + 1, x[1], x[2])
             /\ Behind(ppr.in, hike.seed, x[2], x[1], ppr.in.depth - 1)
  <2>1. x \in Flows(ppr.in, byHop, picked)
    BY DEF Sent
  <2>2. PICK e \in picked : \E h \in DOMAIN byHop :
          x = <<e[1], Carried(h, e), Propagated(ppr.in, byHop[h], e), <<e, h>> >>
    BY <2>1, FlowsShape
  <2>3. PICK h \in DOMAIN byHop :
          x = <<e[1], Carried(h, e), Propagated(ppr.in, byHop[h], e), <<e, h>> >>
    BY <2>2
  <2>4. x[1] = e[1] /\ x[2] = Carried(h, e)
    BY <2>3
  <2>5. ~Silent(node) /\ e \in TopEdges(ppr.in, node)
    OBVIOUS
  <2> HIDE DEF byHop, picked
  <2> QED BY <1>1, <2>4, <2>5, CameOn
<1> QED BY <1>1, <1>2

\* Flows that came so keep a table traced, and what is reported explained.
LEMMA AddedTraced ==
  ASSUME NEW in, NEW s, NEW h, NEW table, Traced(in, s, h, table), NEW flows,
         \A x \in flows : x[1] \in DOMAIN in.edges /\ Came(in, s, h, x[1], x[2])
  PROVE  Traced(in, s, h, Added(table, flows))
BY AddedShape DEF Traced

LEMMA AddedReported ==
  ASSUME NEW in, NEW s \in SeedItems(in), NEW given, Reported(in, given), NEW flows,
         \A x \in flows : x[1] \in DOMAIN in.edges /\ Behind(in, s, x[2], x[1], in.depth - 1)
  PROVE  /\ Reported(in, Added(given, Credited(s, flows)))
         /\ DOMAIN given \subseteq DOMAIN Added(given, Credited(s, flows))
         /\ \A x \in flows : x[1] \in DOMAIN Added(given, Credited(s, flows))
<1> DEFINE credit(x) == <<x[1], <<s, x[2]>>, x[3], x[4]>>
           C == Credited(s, flows)
           A == Added(given, C)
<1>1. C = {credit(x) : x \in flows}
  BY DEF Credited
<1>2. \A x : credit(x)[1] = x[1] /\ credit(x)[2] = <<s, x[2]>>
  OBVIOUS
<1> HIDE DEF C, credit
<1>3. /\ \A x \in flows : \E y \in C : y[1] = x[1] /\ y[2] = <<s, x[2]>>
      /\ \A y \in C : \E x \in flows : y[1] = x[1] /\ y[2] = <<s, x[2]>>
  BY <1>1, <1>2
<1>4. /\ \A n : n \in DOMAIN A <=> n \in DOMAIN given \/ \E y \in C : y[1] = n
      /\ \A n \in DOMAIN A : \A k : k \in DOMAIN A[n] <=>
           (n \in DOMAIN given /\ k \in DOMAIN given[n]) \/ \E y \in C : y[1] = n /\ y[2] = k
  BY AddedShape
<1> HIDE DEF A
<1>5. ASSUME NEW n \in DOMAIN A
      PROVE  /\ n \in DOMAIN in.edges /\ \E k : k \in DOMAIN A[n]
             /\ \A k \in DOMAIN A[n] :
                  k[1] \in SeedItems(in) /\ Behind(in, k[1], k[2], n, in.depth - 1)
  <2>1. n \in DOMAIN in.edges /\ \E k : k \in DOMAIN A[n]
    <3>1. CASE n \in DOMAIN given
      <4>1. n \in DOMAIN in.edges /\ \E k : k \in DOMAIN given[n]
        BY <3>1 DEF Reported
      <4> QED BY <1>4, <3>1, <4>1
    <3>2. CASE \E y \in C : y[1] = n
      <4>1. PICK y \in C : y[1] = n
        BY <3>2
      <4>2. y[2] \in DOMAIN A[n]
        BY <1>4, <4>1
      <4> QED BY <1>3, <4>1, <4>2
    <3> QED BY <1>4, <3>1, <3>2
  <2>2. ASSUME NEW k \in DOMAIN A[n]
        PROVE  k[1] \in SeedItems(in) /\ Behind(in, k[1], k[2], n, in.depth - 1)
    <3>1. CASE n \in DOMAIN given /\ k \in DOMAIN given[n]
      BY <3>1 DEF Reported
    <3>2. CASE \E y \in C : y[1] = n /\ y[2] = k
      <4>1. PICK y \in C : y[1] = n /\ y[2] = k
        BY <3>2
      <4>2. PICK x \in flows : y[1] = x[1] /\ y[2] = <<s, x[2]>>
        BY <1>3
      <4>3. k[1] = s /\ k[2] = x[2] /\ n = x[1]
        BY <4>1, <4>2
      <4> QED BY <4>3
    <3> QED BY <1>4, <3>1, <3>2
  <2> QED BY <2>1, <2>2
<1>6. Reported(in, A)
  BY <1>5 DEF Reported
<1> QED BY <1>3, <1>4, <1>6 DEF A, C

\* What a step of ExpandNode leaves in each field.
LEMMA ExpandMoves ==
  ASSUME PprInv, NEW node \in hike.layer,
         ppr' = [ppr EXCEPT
           !.cache = IF Silent(node) THEN @ ELSE @ \cup {node},
           !.calls[node] = IF Silent(node) \/ node \in KnownNodes THEN @ ELSE @ + 1,
           !.given = Added(@, Credited(hike.seed, Sent(node)))],
         hike' = [hike EXCEPT
           !.layer = @ \ {node},
           !.next = Added(@, {x \in Sent(node) : x[3] >= ppr.in.floor})]
  PROVE  /\ DOMAIN ppr' = DOMAIN ppr /\ DOMAIN hike' = DOMAIN hike
         /\ ppr'.in = ppr.in /\ ppr'.phase = ppr.phase /\ ppr'.left = ppr.left
         /\ ppr'.cache = IF Silent(node) THEN ppr.cache ELSE ppr.cache \cup {node}
         /\ DOMAIN ppr'.calls = DOMAIN ppr.calls
         /\ \A n \in DOMAIN ppr.calls :
              ppr'.calls[n] = IF n = node /\ ~Silent(node) /\ node \notin ppr.cache
                              THEN ppr.calls[n] + 1 ELSE ppr.calls[n]
         /\ ppr'.given = Added(ppr.given, Credited(hike.seed, Sent(node)))
         /\ hike'.seed = hike.seed /\ hike'.hop = hike.hop /\ hike'.frontier = hike.frontier
         /\ hike'.layer = hike.layer \ {node}
         /\ hike'.next = Added(hike.next, {x \in Sent(node) : x[3] >= ppr.in.floor})
<1>1. DOMAIN ppr = {"in", "phase", "left", "cache", "calls", "given"}
  BY DEF PprInv, CallKept
<1>2. DOMAIN hike = {"seed", "hop", "frontier", "layer", "next"}
  BY DEF PprInv, HikeShape
<1> DEFINE given2 == Added(ppr.given, Credited(hike.seed, Sent(node)))
           next2 == Added(hike.next, {x \in Sent(node) : x[3] >= ppr.in.floor})
           calls2 == [ppr.calls EXCEPT ![node] = IF Silent(node) \/ node \in KnownNodes THEN @ ELSE @ + 1]
           cache2 == IF Silent(node) THEN ppr.cache ELSE ppr.cache \cup {node}
           layer2 == hike.layer \ {node}
<1>3. ppr' = [ppr EXCEPT !.cache = cache2, !.calls = calls2, !.given = given2]
  OBVIOUS
<1>4. hike' = [hike EXCEPT !.layer = layer2, !.next = next2]
  OBVIOUS
<1>5. /\ DOMAIN calls2 = DOMAIN ppr.calls
      /\ \A n \in DOMAIN ppr.calls :
           calls2[n] = IF n = node /\ ~Silent(node) /\ node \notin ppr.cache
                       THEN ppr.calls[n] + 1 ELSE ppr.calls[n]
  BY DEF KnownNodes
<1> HIDE DEF calls2, given2, next2, cache2, layer2
<1>6. /\ DOMAIN ppr' = DOMAIN ppr /\ ppr'.in = ppr.in /\ ppr'.phase = ppr.phase /\ ppr'.left = ppr.left
      /\ ppr'.cache = cache2 /\ ppr'.calls = calls2 /\ ppr'.given = given2
  BY <1>1, <1>3
<1>7. /\ DOMAIN hike' = DOMAIN hike
      /\ hike'.seed = hike.seed /\ hike'.hop = hike.hop /\ hike'.frontier = hike.frontier
      /\ hike'.layer = layer2 /\ hike'.next = next2
  BY <1>2, <1>4
<1> QED BY <1>5, <1>6, <1>7 DEF given2, next2, cache2, layer2

\* As long as no bound cuts, a seed is not silent in its first hop.
LEMMA SeedSpeaks ==
  ASSUME PprInv, Uncut(ppr.in), NEW node \in hike.layer, hike.hop = 1
  PROVE  /\ node = hike.seed /\ ~Departed(node) /\ ~Silent(node)
         /\ Credited(hike.seed, Sent(node)) = OneHop(ppr.in, hike.seed)
<1> DEFINE in == ppr.in
           m == RestartMass(in, hike.seed)
<1>1. /\ in \in Inputs /\ TotalScore(in) > 0 /\ hike.seed \in SeedItems(in)
      /\ hike.frontier = Start(in, hike.seed).frontier /\ hike.layer \subseteq DOMAIN hike.frontier
      /\ ppr.cache \subseteq DOMAIN in.edges /\ IsFiniteSet(ppr.cache)
      /\ in.depth = 1 => \A n \in ppr.cache : n \in SeedItems(in) /\ Departed(n)
  BY DEF PprInv, CallKept, HikeShape, AskedShape
<1>2. node = hike.seed
  BY <1>1, StartShape
<1>3. ~Departed(node)
  BY <1>2 DEF Departed
<1>4. hike.frontier[node] = [h \in {NoHop} |-> m]
  BY <1>1, <1>2 DEF Start
<1>5. SumOf(hike.frontier[node]) = m
  <2> DEFINE f == [h \in {NoHop} |-> m]
  <2>1. DOMAIN f = {NoHop} /\ f[NoHop] = m /\ IsFiniteSet({NoHop})
    BY FS_Singleton
  <2>2. m \in Nat
    BY <1>1, MassShape
  <2> HIDE DEF m, f
  <2>3. SumOf(f) = m
    BY <2>1, <2>2, SumTyped
  <2> QED BY <1>4, <2>3 DEF f
<1>6. m \in Nat /\ m >= in.floor /\ in.floor \in Nat /\ in.visited \in Nat
  BY <1>1, OneHopShape, InputShape
<1>r. \A U : IsFiniteSet(U) => \A C \in SUBSET U : \A x \in U \ C :
        Cardinality(C) < Cardinality(U) /\ Cardinality(C) \in Nat
  BY RoomFor
<1>7. node \notin KnownNodes => Cardinality(ppr.cache) < in.visited
  <2> SUFFICES ASSUME node \notin ppr.cache PROVE Cardinality(ppr.cache) < in.visited
    BY DEF KnownNodes
  <2>1. CASE in.depth = 1
    <3>1. /\ ppr.cache \in SUBSET SeedItems(in) /\ node \in SeedItems(in) \ ppr.cache
          /\ IsFiniteSet(SeedItems(in)) /\ Cardinality(SeedItems(in)) \in Nat
      BY <1>1, <1>2, <2>1, SelectedShape
    <3>2. /\ Cardinality(ppr.cache) < Cardinality(SeedItems(in)) /\ Cardinality(ppr.cache) \in Nat
      BY <1>r, <3>1
    <3>3. in.visited >= Cardinality(SeedItems(in))
      BY DEF Uncut
    <3> QED BY <1>6, <3>1, <3>2, <3>3
  <2>2. CASE in.depth # 1
    <3>1. /\ ppr.cache \in SUBSET DOMAIN in.edges /\ node \in (DOMAIN in.edges) \ ppr.cache
          /\ IsFiniteSet(DOMAIN in.edges) /\ Cardinality(DOMAIN in.edges) \in Nat
      BY <1>1, <1>2, SelectedShape, InputShape, FS_CardinalityType
    <3>2. /\ Cardinality(ppr.cache) < Cardinality(DOMAIN in.edges) /\ Cardinality(ppr.cache) \in Nat
      BY <1>r, <3>1
    <3>3. in.visited >= Cardinality(DOMAIN in.edges)
      BY <2>2 DEF Uncut
    <3> QED BY <1>6, <3>1, <3>2, <3>3
  <2> QED BY <2>1, <2>2
<1>8. ~Silent(node)
  <2>1. ~(SumOf(hike.frontier[node]) < in.floor)
    BY <1>5, <1>6
  <2>2. Cardinality(ppr.cache) \in Nat
    BY <1>1, FS_CardinalityType
  <2> HIDE DEF m
  <2> QED BY <1>6, <1>7, <2>1, <2>2 DEF Silent, Refused
<1>9. Sent(node) = Flows(in, [h \in {NoHop} |-> m], TopEdges(in, hike.seed))
  BY <1>2, <1>4, <1>8 DEF Sent
<1>10. Credited(hike.seed, Sent(node)) = OneHop(in, hike.seed)
  BY <1>9 DEF OneHop
<1> QED BY <1>2, <1>3, <1>8, <1>10

\* One hop sends something over each edge of the seed.
LEMMA OneHopCovers ==
  ASSUME NEW in \in Inputs, TotalScore(in) > 0, Uncut(in), NEW s \in SeedItems(in),
         NEW e \in TopEdges(in, s)
  PROVE  \E x \in OneHop(in, s) : x[1] = e[1] /\ x[2] = <<s, e[2]>>
<1> DEFINE m == RestartMass(in, s)
           byHop == [h \in {NoHop} |-> m]
           F == Flows(in, byHop, TopEdges(in, s))
           credit(x) == <<x[1], <<s, x[2]>>, x[3], x[4]>>
           x0 == <<e[1], Carried(NoHop, e), Propagated(in, byHop[NoHop], e), <<e, NoHop>> >>
<1>1. DOMAIN byHop = {NoHop} /\ byHop[NoHop] = m
  OBVIOUS
<1>2. Propagated(in, m, e) > 0
  BY OneHopShape
<1>3. x0 \in F
  <2>1. NoHop \in DOMAIN byHop /\ Propagated(in, byHop[NoHop], e) > 0
    BY <1>1, <1>2
  <2> HIDE DEF byHop
  <2> QED BY <2>1, FlowsShape
<1>4. x0[1] = e[1] /\ x0[2] = e[2]
  BY DEF Carried
<1>5. OneHop(in, s) = {credit(x) : x \in F}
  BY DEF OneHop, Credited
<1>6. \A x : credit(x)[1] = x[1] /\ credit(x)[2] = <<s, x[2]>>
  OBVIOUS
<1> HIDE DEF x0, F, credit
<1>7. credit(x0) \in OneHop(in, s)
  BY <1>3, <1>5
<1> QED BY <1>4, <1>6, <1>7

LEMMA ExpandKeeps == PprInv /\ ExpandNode => PprInv'
<1> SUFFICES ASSUME PprInv, ExpandNode PROVE PprInv'
  OBVIOUS
<1>1. PICK node \in hike.layer :
        /\ ppr.phase = "walking"
        /\ ppr' = [ppr EXCEPT
             !.cache = IF Silent(node) THEN @ ELSE @ \cup {node},
             !.calls[node] = IF Silent(node) \/ node \in KnownNodes THEN @ ELSE @ + 1,
             !.given = Added(@, Credited(hike.seed, Sent(node)))]
        /\ hike' = [hike EXCEPT
             !.layer = @ \ {node},
             !.next = Added(@, {x \in Sent(node) : x[3] >= ppr.in.floor})]
  BY DEF ExpandNode
<1> DEFINE in == ppr.in
           kept == {x \in Sent(node) : x[3] >= in.floor}
<1>2. /\ DOMAIN ppr' = DOMAIN ppr /\ DOMAIN hike' = DOMAIN hike
      /\ ppr'.in = in /\ ppr'.phase = "walking" /\ ppr'.left = ppr.left
      /\ ppr'.cache = IF Silent(node) THEN ppr.cache ELSE ppr.cache \cup {node}
      /\ DOMAIN ppr'.calls = DOMAIN ppr.calls
      /\ \A n \in DOMAIN ppr.calls :
           ppr'.calls[n] = IF n = node /\ ~Silent(node) /\ node \notin ppr.cache
                           THEN ppr.calls[n] + 1 ELSE ppr.calls[n]
      /\ ppr'.given = Added(ppr.given, Credited(hike.seed, Sent(node)))
      /\ hike'.seed = hike.seed /\ hike'.hop = hike.hop /\ hike'.frontier = hike.frontier
      /\ hike'.layer = hike.layer \ {node}
      /\ hike'.next = Added(hike.next, kept)
  BY <1>1, ExpandMoves
<1>3. CallKept /\ HikeShape /\ AskedShape /\ Reported(in, ppr.given) /\ CoverShape
  BY DEF PprInv
<1>4. /\ in \in Inputs /\ TotalScore(in) > 0 /\ hike.seed \in SeedItems(in)
      /\ node \in DOMAIN in.edges
      /\ \A x \in Sent(node) :
              /\ ~Silent(node) /\ x[1] \in DOMAIN in.edges
              /\ Came(in, hike.seed, hike.hop + 1, x[1], x[2])
              /\ Behind(in, hike.seed, x[2], x[1], in.depth - 1)
  BY <1>3, SentShape DEF CallKept, HikeShape
<1>5. CallKept'
  BY <1>2, <1>3 DEF CallKept
<1>6. Traced(in, hike.seed, hike.hop + 1, Added(hike.next, kept))
  <2>1. \A x \in kept : x[1] \in DOMAIN in.edges /\ Came(in, hike.seed, hike.hop + 1, x[1], x[2])
    BY <1>4
  <2> HIDE DEF kept
  <2> QED BY <1>3, <2>1, AddedTraced DEF HikeShape
<1> HIDE DEF kept
<1>7. HikeShape'
  BY <1>2, <1>3, <1>6 DEF HikeShape
<1>8. /\ Reported(in, ppr'.given)
      /\ DOMAIN ppr.given \subseteq DOMAIN ppr'.given
      /\ \A x \in Sent(node) : x[1] \in DOMAIN ppr'.given
  BY <1>2, <1>3, <1>4, AddedReported
<1>9. \A s : Departed(s) => Departed(s)'
  BY <1>2 DEF Departed
<1>10. hike.hop = 1 => node = hike.seed /\ hike'.layer = {}
  BY <1>2, <1>3, StartShape DEF HikeShape
<1>11. in.depth = 1 => node = hike.seed /\ Departed(node)'
  <2> SUFFICES ASSUME in.depth = 1 PROVE node = hike.seed /\ Departed(node)'
    OBVIOUS
  <2>1. hike.hop = 1
    BY <1>3 DEF HikeShape
  <2>2. hike.seed \notin ppr.left
    BY <1>3 DEF CallKept
  <2> QED BY <1>2, <1>10, <2>1, <2>2 DEF Departed
<1>12. AskedShape'
  <2>1. /\ ppr.cache \subseteq DOMAIN in.edges /\ IsFiniteSet(ppr.cache)
        /\ Cardinality(ppr.cache) <= in.visited /\ Cardinality(ppr.cache) \in Nat
        /\ DOMAIN ppr.calls = DOMAIN in.edges /\ \A n \in DOMAIN in.edges : ppr.calls[n] \in Nat
        /\ \A n \in DOMAIN in.edges : ppr.calls[n] = IF n \in ppr.cache THEN 1 ELSE 0
        /\ in.depth = 1 => \A n \in ppr.cache : n \in SeedItems(in) /\ Departed(n)
        /\ in.visited \in Nat
    BY <1>3, <1>4, FS_CardinalityType, InputShape DEF AskedShape
  <2>2. /\ IsFiniteSet(ppr'.cache) /\ Cardinality(ppr'.cache) <= in.visited
        /\ ppr'.cache \subseteq DOMAIN in.edges
    <3>1. CASE Silent(node) \/ node \in ppr.cache
      <4>1. ppr'.cache = ppr.cache
        BY <1>2, <3>1
      <4> QED BY <2>1, <4>1
    <3>2. CASE ~Silent(node) /\ node \notin ppr.cache
      <4>1. ppr'.cache = ppr.cache \cup {node}
        BY <1>2, <3>2
      <4>2. Cardinality(ppr.cache) < in.visited
        BY <2>1, <3>2 DEF Silent, Refused, KnownNodes
      <4>3. /\ IsFiniteSet(ppr.cache \cup {node})
            /\ Cardinality(ppr.cache \cup {node}) = Cardinality(ppr.cache) + 1
        BY <2>1, <3>2, FS_AddElement
      <4> QED BY <1>4, <2>1, <4>1, <4>2, <4>3
    <3> QED BY <3>1, <3>2
  <2>3. \A n \in DOMAIN in.edges : ppr'.calls[n] = IF n \in ppr'.cache THEN 1 ELSE 0
    BY <1>2, <2>1
  <2>4. ppr'.calls \in [DOMAIN in.edges -> Nat]
    <3>1. ppr'.calls = [n \in DOMAIN in.edges |-> ppr'.calls[n]]
      BY <1>1, <1>3, <2>1, <1>2 DEF CallKept, AskedShape
    <3> QED BY <2>3, <3>1
  <2>5. in.depth = 1 => \A n \in ppr'.cache : n \in SeedItems(in) /\ Departed(n)'
    BY <1>2, <1>4, <1>9, <1>11, <2>1
  <2> QED BY <1>2, <2>2, <2>3, <2>4, <2>5 DEF AskedShape
<1>13. CoverShape'
  <2> SUFFICES ASSUME Uncut(in) PROVE CoverShape'
    BY <1>2 DEF CoverShape
  <2>1. ASSUME NEW s \in SeedItems(in), Departed(s)', NEW e \in TopEdges(in, s)
        PROVE  e[1] \in DOMAIN ppr'.given
    <3>1. CASE Departed(s)
      BY <1>3, <1>8, <2>1, <3>1 DEF CoverShape
    <3>2. CASE ~Departed(s)
      <4>1. s = hike.seed /\ hike.hop = 1
        BY <1>2, <2>1, <3>2 DEF Departed
      <4>2. Credited(hike.seed, Sent(node)) = OneHop(in, hike.seed)
        BY <1>3, <4>1, SeedSpeaks DEF PprInv
      <4>3. \E x \in OneHop(in, s) : x[1] = e[1] /\ x[2] = <<s, e[2]>>
        BY <1>4, OneHopCovers
      <4> QED BY <1>2, <4>1, <4>2, <4>3, AddedShape
    <3> QED BY <3>1, <3>2
  <2>2. ASSUME in.depth = 1, SeedItems(in) = {hike.seed}
        PROVE  ppr'.given = IF Departed(hike.seed)' THEN Added(NoMass, OneHop(in, hike.seed))
                            ELSE NoMass
    <3>1. hike.hop = 1
      BY <1>3, <2>2 DEF HikeShape
    <3>2. ~Departed(hike.seed) /\ Credited(hike.seed, Sent(node)) = OneHop(in, hike.seed)
      BY <1>3, <3>1, SeedSpeaks DEF PprInv
    <3>3. ppr.given = NoMass
      BY <1>3, <2>2, <3>2 DEF CoverShape
    <3>4. Departed(hike.seed)'
      BY <1>2, <1>11, <2>2 DEF Departed
    <3> QED BY <1>2, <3>2, <3>3, <3>4
  <2> QED BY <1>2, <2>1, <2>2 DEF CoverShape
<1> QED BY <1>2, <1>5, <1>7, <1>8, <1>12, <1>13 DEF PprInv

LEMMA NextLayerKeeps == PprInv /\ NextLayer => PprInv'
<1> SUFFICES ASSUME PprInv, NextLayer PROVE PprInv'
  OBVIOUS
<1> DEFINE in == ppr.in
<1>1. /\ ppr' = ppr /\ hike.layer = {} /\ hike.hop < in.depth /\ ppr.phase = "walking"
      /\ DOMAIN hike' = {"seed", "hop", "frontier", "layer", "next"}
      /\ hike'.seed = hike.seed /\ hike'.hop = hike.hop + 1 /\ hike'.frontier = hike.next
      /\ hike'.layer = DOMAIN hike.next /\ hike'.next = NoMass
  BY DEF NextLayer
<1>2. CallKept /\ HikeShape /\ AskedShape /\ Reported(in, ppr.given) /\ CoverShape
  BY DEF PprInv
<1>3. in.depth \in Nat \ {0} /\ hike.hop \in 1..in.depth /\ in \in Inputs /\ hike.seed \in SeedItems(in)
  BY <1>2, InputShape DEF CallKept, HikeShape
<1>4. hike'.hop \in 1..in.depth /\ hike'.hop # 1
  BY <1>1, <1>3
<1>5. \A s : Departed(s)' <=> Departed(s)
  BY <1>1, <1>4 DEF Departed
<1>6. CallKept'
  BY <1>1, <1>2 DEF CallKept
<1>7. HikeShape'
  <2>1. Traced(in, hike.seed, hike'.hop + 1, NoMass)
    BY <1>3, StartTraced
  <2> QED BY <1>1, <1>2, <1>4, <2>1 DEF HikeShape
<1>8. AskedShape'
  BY <1>1, <1>2, <1>5 DEF AskedShape
<1>9. CoverShape'
  <2>1. in.depth # 1
    BY <1>1, <1>3
  <2> QED BY <1>1, <1>2, <1>5, <2>1 DEF CoverShape
<1> QED BY <1>1, <1>2, <1>6, <1>7, <1>8, <1>9 DEF PprInv

LEMMA NextSeedKeeps == PprInv /\ NextSeed => PprInv'
<1> SUFFICES ASSUME PprInv, NextSeed PROVE PprInv'
  OBVIOUS
<1> DEFINE in == ppr.in
<1>1. PICK seed \in ppr.left : /\ ppr.phase = "walking" /\ hike.layer = {}
                               /\ hike' = Start(ppr.in, seed)
                               /\ ppr' = [ppr EXCEPT !.left = @ \ {seed}]
  BY DEF NextSeed, SeedDone
<1>2. CallKept /\ HikeShape /\ AskedShape /\ Reported(in, ppr.given) /\ CoverShape
  BY DEF PprInv
<1>3. /\ DOMAIN ppr' = DOMAIN ppr /\ ppr'.in = in /\ ppr'.phase = "walking"
      /\ ppr'.left = ppr.left \ {seed} /\ ppr'.cache = ppr.cache /\ ppr'.calls = ppr.calls
      /\ ppr'.given = ppr.given
  BY <1>1, <1>2 DEF CallKept
<1>4. /\ DOMAIN hike' = {"seed", "hop", "frontier", "layer", "next"}
      /\ hike'.seed = seed /\ hike'.hop = 1 /\ hike'.layer = {seed} /\ hike'.next = NoMass
      /\ hike'.frontier = Start(in, seed).frontier /\ DOMAIN hike'.frontier = {seed}
  BY <1>1, StartShape
<1>5. in \in Inputs /\ seed \in SeedItems(in) /\ seed # hike.seed /\ ppr.left \subseteq SeedItems(in)
  BY <1>2 DEF CallKept
<1>6. \A s : Departed(s)' <=> Departed(s)
  BY <1>1, <1>3, <1>4 DEF Departed
<1>7. CallKept'
  BY <1>2, <1>3, <1>4, <1>5 DEF CallKept
<1>8. HikeShape'
  <2>1. 1 \in 1..in.depth
    BY <1>5, InputShape
  <2> QED BY <1>3, <1>4, <1>5, <2>1, StartTraced DEF HikeShape
<1>9. AskedShape'
  BY <1>2, <1>3, <1>6 DEF AskedShape
<1>10. CoverShape'
  <2>1. SeedItems(in) # {seed}
    BY <1>2, <1>5 DEF HikeShape
  <2> QED BY <1>2, <1>3, <1>4, <1>6, <2>1 DEF CoverShape
<1> QED BY <1>2, <1>3, <1>7, <1>8, <1>9, <1>10 DEF PprInv

LEMMA FinishExpansionKeeps == PprInv /\ FinishExpansion => PprInv'
<1> SUFFICES ASSUME PprInv, FinishExpansion PROVE PprInv'
  OBVIOUS
<1> DEFINE in == ppr.in
<1>1. /\ ppr.left = {} /\ hike.layer = {} /\ hike' = hike
      /\ ppr' = [ppr EXCEPT !.phase = "done"]
  BY DEF FinishExpansion, SeedDone
<1>2. CallKept /\ HikeShape /\ AskedShape /\ Reported(in, ppr.given) /\ CoverShape
  BY DEF PprInv
<1>3. /\ DOMAIN ppr' = DOMAIN ppr /\ ppr'.in = in
      /\ ppr'.left = ppr.left /\ ppr'.cache = ppr.cache /\ ppr'.calls = ppr.calls
      /\ ppr'.given = ppr.given
  BY <1>1, <1>2 DEF CallKept
<1>4. \A s : Departed(s)' <=> Departed(s)
  BY <1>1, <1>3 DEF Departed
<1>5. CallKept'
  BY <1>1, <1>2, <1>3 DEF CallKept
<1>6. HikeShape'
  BY <1>1, <1>2, <1>3 DEF HikeShape
<1>7. AskedShape'
  BY <1>2, <1>3, <1>4 DEF AskedShape
<1>8. CoverShape'
  BY <1>1, <1>2, <1>3, <1>4 DEF CoverShape
<1> QED BY <1>2, <1>3, <1>5, <1>6, <1>7, <1>8 DEF PprInv

LEMMA NextPprInv == PprInv /\ [PprNext]_pprVars => PprInv'
<1> SUFFICES ASSUME PprInv, [PprNext]_pprVars PROVE PprInv'
  OBVIOUS
<1>1. CASE UNCHANGED pprVars
  BY <1>1 DEF pprVars, PprInv, CallKept, HikeShape, AskedShape, CoverShape, Departed
<1> QED BY <1>1, ExpandKeeps, NextLayerKeeps, NextSeedKeeps, FinishExpansionKeeps DEF PprNext

-----------------------------------------------------------------------------
(* What the invariant says of the answers.                                  *)

\* A finite ordered set has a first member.
LEMMA FirstExists ==
  ASSUME NEW S, NEW R, IsFiniteSet(S), StrictOrder(S, R), S # {}
  PROVE  \E x \in S : \A y \in S \ {x} : <<x, y>> \in R
<1>1. Cardinality(S) \in Nat /\ Cardinality(S) # 0
  BY FS_CardinalityType, FS_EmptySet
<1>2. 1 <= Cardinality(S) /\ 1 \in Nat
  BY <1>1
<1>3. /\ IsFiniteSet(FirstOf(S, R, 1)) /\ Cardinality(FirstOf(S, R, 1)) = 1
      /\ \A x \in FirstOf(S, R, 1), y \in S \ FirstOf(S, R, 1) : <<x, y>> \in R
  BY <1>2, FirstOfCounts
<1>4. PICK x : FirstOf(S, R, 1) = {x}
  BY <1>3, FS_Singleton
<1>5. x \in S
  BY <1>4 DEF FirstOf
<1> QED BY <1>3, <1>4, <1>5

\* The only flow of a key is its mass.
LEMMA AddedMass ==
  ASSUME NEW flows, NEW x \in flows, x[3] \in Nat,
         \A y \in flows : y[1] = x[1] /\ y[2] = x[2] => y = x
  PROVE  Added(NoMass, flows)[x[1]][x[2]] = x[3]
<1> DEFINE here(n) == {y \in flows : y[1] = n}
           old(n) == IF n \in DOMAIN NoMass THEN NoMass[n] ELSE [k \in {} |-> 0]
           f(n, k) == [z \in {y \in here(n) : y[2] = k} |-> z[3]]
           row(n) == [k \in DOMAIN old(n) \cup {z[2] : z \in here(n)} |->
                        (IF k \in DOMAIN old(n) THEN old(n)[k] ELSE 0) + SumOf(f(n, k))]
           D == DOMAIN NoMass \cup {z[1] : z \in flows}
<1>1. Added(NoMass, flows) = [n \in D |-> row(n)]
  BY DEF Added
<1>2. x[1] \in D /\ x \in here(x[1]) /\ x[2] \in {z[2] : z \in here(x[1])}
  OBVIOUS
<1>3. \A n : DOMAIN old(n) = {}
  BY DEF NoMass
<1>4. DOMAIN f(x[1], x[2]) = {x} /\ f(x[1], x[2])[x] = x[3]
  OBVIOUS
<1> HIDE DEF f
<1>5. SumOf(f(x[1], x[2])) = x[3]
  <2>1. IsFiniteSet({x})
    BY FS_Singleton
  <2> QED BY <1>4, <2>1, SumTyped
<1>6. row(x[1])[x[2]] = 0 + SumOf(f(x[1], x[2]))
  <2> HIDE DEF here, old
  <2> QED BY <1>2, <1>3
<1> HIDE DEF row, D
<1>7. Added(NoMass, flows)[x[1]] = row(x[1])
  BY <1>1, <1>2
<1> QED BY <1>5, <1>6, <1>7

\* The masses that one hop from a seed gives.
LEMMA OneHopMasses ==
  ASSUME NEW in \in Inputs, TotalScore(in) > 0, Uncut(in), NEW s \in SeedItems(in)
  PROVE  LET given == Added(NoMass, OneHop(in, s)) IN
         /\ \A e \in TopEdges(in, s) :
              /\ e[1] \in DOMAIN given /\ <<s, e[2]>> \in DOMAIN given[e[1]]
              /\ given[e[1]][<<s, e[2]>>] = Propagated(in, RestartMass(in, s), e)
         /\ \A n \in DOMAIN given : \A k \in DOMAIN given[n] :
              \E e \in TopEdges(in, s) : e[1] = n /\ k = <<s, e[2]>>
<1> DEFINE m == RestartMass(in, s)
           byHop == [h \in {NoHop} |-> m]
           given == Added(NoMass, OneHop(in, s))
           F == Flows(in, byHop, TopEdges(in, s))
           credit(x) == <<x[1], <<s, x[2]>>, x[3], x[4]>>
           sent(e) == <<e[1], <<s, e[2]>>, Propagated(in, m, e), <<e, NoHop>> >>
<1>1. DOMAIN byHop = {NoHop} /\ byHop[NoHop] = m
  OBVIOUS
<1>2. \A x \in OneHop(in, s) : \E e \in TopEdges(in, s) : x = sent(e)
  <2>1. OneHop(in, s) = {credit(x) : x \in F}
    BY DEF OneHop, Credited
  <2>2. ASSUME NEW f \in F PROVE \E e \in TopEdges(in, s) : credit(f) = sent(e)
    <3>1. PICK e \in TopEdges(in, s) : \E h \in DOMAIN byHop :
            f = <<e[1], Carried(h, e), Propagated(in, byHop[h], e), <<e, h>> >>
      <4> HIDE DEF byHop
      <4> QED BY FlowsShape
    <3>2. f = <<e[1], Carried(NoHop, e), Propagated(in, m, e), <<e, NoHop>> >>
      <4> HIDE DEF byHop
      <4> QED BY <1>1, <3>1
    <3>3. Carried(NoHop, e) = e[2]
      BY DEF Carried
    <3> QED BY <3>2, <3>3
  <2> HIDE DEF F, sent, credit
  <2> QED BY <2>1, <2>2
<1>3. \A e \in TopEdges(in, s) : \E x \in OneHop(in, s) : x[1] = e[1] /\ x[2] = <<s, e[2]>>
  BY OneHopCovers
<1>4. \A e : /\ sent(e)[1] = e[1] /\ sent(e)[2] = <<s, e[2]>>
             /\ sent(e)[3] = Propagated(in, m, e)
  OBVIOUS
<1> HIDE DEF sent
<1>5. \A e, f \in TopEdges(in, s) : e[1] = f[1] /\ e[2] = f[2] => e = f
  BY OneHopShape
<1>6. ASSUME NEW e \in TopEdges(in, s)
      PROVE  /\ e[1] \in DOMAIN given /\ <<s, e[2]>> \in DOMAIN given[e[1]]
             /\ given[e[1]][<<s, e[2]>>] = Propagated(in, m, e)
  <2>1. PICK x \in OneHop(in, s) : x[1] = e[1] /\ x[2] = <<s, e[2]>>
    BY <1>3
  <2>2. ASSUME NEW y \in OneHop(in, s), y[1] = x[1], y[2] = x[2] PROVE y = sent(e)
    <3>1. PICK f \in TopEdges(in, s) : y = sent(f)
      BY <1>2
    <3>2. f[1] = e[1] /\ <<s, f[2]>> = <<s, e[2]>>
      BY <1>4, <2>1, <2>2, <3>1
    <3>3. f[2] = e[2]
      BY <3>2
    <3> QED BY <1>5, <3>1, <3>2, <3>3
  <2>3. x = sent(e) /\ x[3] = Propagated(in, m, e)
    BY <1>4, <2>2
  <2>4. x[3] \in Nat
    BY <2>3, OneHopShape
  <2>5. \A y \in OneHop(in, s) : y[1] = x[1] /\ y[2] = x[2] => y = x
    BY <2>2, <2>3
  <2>6. given[x[1]][x[2]] = x[3]
    BY <2>4, <2>5, AddedMass
  <2>7. x[1] \in DOMAIN given /\ x[2] \in DOMAIN given[x[1]]
    BY AddedShape
  <2> HIDE DEF given
  <2> QED BY <2>1, <2>3, <2>6, <2>7
<1>7. ASSUME NEW n \in DOMAIN given, NEW k \in DOMAIN given[n]
      PROVE  \E e \in TopEdges(in, s) : e[1] = n /\ k = <<s, e[2]>>
  <2>1. \E x \in OneHop(in, s) : x[1] = n /\ x[2] = k
    BY AddedShape, StartShape
  <2> QED BY <1>2, <1>4, <2>1
<1> HIDE DEF given
<1> QED BY <1>6, <1>7 DEF given

\* Of the edges of an only seed to a target, the winner has the best discount.
LEMMA WinnerShape ==
  ASSUME NEW in \in Inputs, TotalScore(in) > 0, NEW s \in SeedItems(in), SeedItems(in) = {s},
         NEW n \in Reached(in)
  PROVE  \E w \in TopEdges(in, s) :
           /\ w[1] = n /\ BoundedProvenance(in, n) = <<s, w[2]>>
           /\ \A e \in TopEdges(in, s) : e[1] = n => in.discounts[e[2]] <= in.discounts[w[2]]
<1> DEFINE O == Offers(in, n)
           R == {p \in O \X O : OfferBefore(in, p[1], p[2])}
           d(o) == in.discounts[o[2][2]]
           S == in.scores[s]
<1>1. S \in Nat \ {0} /\ n \in Nat /\ O # {} /\ s \in DOMAIN in.edges
  BY MassShape, InputShape, SelectedShape DEF Reached
<1>2. ASSUME NEW o \in O
      PROVE  /\ o[1] = s /\ o[2] \in TopEdges(in, s) /\ o[2][1] = n
             /\ o = <<s, <<n, o[2][2]>> >>
             /\ d(o) \in Nat /\ o[2][2] \in Nat
  <2>1. o \in SeedItems(in) \X ((DOMAIN in.edges) \X (DOMAIN in.discounts))
        /\ o[2] \in TopEdges(in, o[1]) /\ o[2][1] = n
    BY DEF Offers
  <2>2. o[2][2] \in Nat /\ d(o) \in Nat
    BY <2>1, InputShape
  <2> QED BY <2>1, <2>2
<1>3. ASSUME NEW e \in TopEdges(in, s), e[1] = n
      PROVE  <<s, e>> \in O
  <2>1. e \in (DOMAIN in.edges) \X (DOMAIN in.discounts)
    BY <1>1, SelectedShape
  <2> QED BY <1>3, <2>1 DEF Offers
<1> HIDE DEF O
<1>4. IsFiniteSet(O)
  <2>1. IsFiniteSet({s}) /\ IsFiniteSet(TopEdges(in, s))
    BY <1>1, SelectedShape, FS_Singleton
  <2>2. IsFiniteSet({s} \X TopEdges(in, s))
    BY <2>1, FS_Product
  <2>3. O \in SUBSET ({s} \X TopEdges(in, s))
    BY <1>2
  <2> QED BY <2>2, <2>3, FS_Subset
<1> HIDE DEF S, d
<1>5. \A a, b \in Nat : a > b => S * a > S * b
  BY <1>1
<1>6. ASSUME NEW w \in O, NEW o \in O
      PROVE  OfferBefore(in, w, o) <=> d(w) > d(o) \/ (d(w) = d(o) /\ w[2][2] < o[2][2])
  <2>1. Contribution(in, w) = S * d(w) /\ Contribution(in, o) = S * d(o)
    BY <1>2 DEF Contribution, S, d
  <2>2. ~SeedBefore(in, w[1], o[1]) /\ w[1] = o[1]
    <3>1. s \in Nat /\ in.scores[s] \in Nat
      BY <1>1, InputShape DEF S
    <3> QED BY <1>2, <3>1 DEF SeedBefore
  <2>3. EdgeBefore(in, w[2], o[2]) <=> d(w) > d(o) \/ (d(w) = d(o) /\ w[2][2] < o[2][2])
    BY <1>1, <1>2 DEF EdgeBefore, d
  <2>4. /\ d(w) > d(o) => S * d(w) > S * d(o)
        /\ d(o) > d(w) => S * d(o) > S * d(w)
        /\ d(w) \in Nat /\ d(o) \in Nat /\ S * d(w) \in Nat /\ S * d(o) \in Nat
    <3>1. \A a \in Nat : S * a \in Nat
      BY <1>1
    <3> QED BY <1>2, <1>5, <3>1
  <2>5. OfferBefore(in, w, o) <=>
          S * d(w) > S * d(o) \/ (S * d(w) = S * d(o) /\ EdgeBefore(in, w[2], o[2]))
    BY <2>1, <2>2 DEF OfferBefore
  <2> DEFINE a == S * d(w)
             b == S * d(o)
  <2> HIDE DEF a, b
  <2>6. /\ d(w) > d(o) => a > b
        /\ d(o) > d(w) => b > a
        /\ d(w) = d(o) => a = b
        /\ a \in Nat /\ b \in Nat
    BY <2>4 DEF a, b
  <2>7. OfferBefore(in, w, o) <=> a > b \/ (a = b /\ EdgeBefore(in, w[2], o[2]))
    BY <2>5 DEF a, b
  <2> QED BY <2>3, <2>4, <2>6, <2>7
<1>7. StrictOrder(O, R)
  <2>1. \A w, o \in O : <<w, o>> \in R <=> d(w) > d(o) \/ (d(w) = d(o) /\ w[2][2] < o[2][2])
    BY <1>6
  <2>2. \A w, o \in O : w # o => w[2][2] # o[2][2]
    BY <1>2
  <2>3. \A o \in O : d(o) \in Nat /\ o[2][2] \in Nat
    BY <1>2
  <2> HIDE DEF R
  <2> QED BY <2>1, <2>2, <2>3 DEF StrictOrder
<1>8. \E w \in O : \A o \in O \ {w} : OfferBefore(in, w, o)
  <2>1. \E w \in O : \A o \in O \ {w} : <<w, o>> \in R
    <3> HIDE DEF R
    <3> QED BY <1>1, <1>4, <1>7, FirstExists
  <2> QED BY <2>1
<1>9. Winner(in, n) \in O /\ \A o \in O \ {Winner(in, n)} : OfferBefore(in, Winner(in, n), o)
  BY <1>8 DEF Winner, O
<1> DEFINE W == Winner(in, n)
<1> HIDE DEF W
<1>10. W \in O /\ \A o \in O : d(o) <= d(W)
  <2>1. W \in O /\ \A o \in O \ {W} : OfferBefore(in, W, o)
    BY <1>9 DEF W
  <2>2. ASSUME NEW o \in O PROVE d(o) <= d(W)
    <3>1. d(o) \in Nat /\ d(W) \in Nat
      BY <1>2, <2>1
    <3>2. o = W \/ d(W) > d(o) \/ d(W) = d(o)
      BY <1>6, <2>1
    <3> QED BY <3>1, <3>2
  <2> QED BY <2>1, <2>2
<1>11. BoundedProvenance(in, n) = <<W[1], W[2][2]>>
  BY DEF BoundedProvenance, W
<1>12. W[1] = s /\ W[2] \in TopEdges(in, s) /\ W[2][1] = n
  BY <1>2, <1>10
<1>13. ASSUME NEW e \in TopEdges(in, s), e[1] = n
       PROVE  in.discounts[e[2]] <= in.discounts[W[2][2]]
  BY <1>3, <1>10, <1>13 DEF d
<1> QED BY <1>11, <1>12, <1>13

LEMMA InvAsksOnce == PprInv => AsksOnce
<1> SUFFICES ASSUME PprInv PROVE AsksOnce
  OBVIOUS
<1>1. /\ DOMAIN ppr.calls = DOMAIN ppr.in.edges /\ ppr.cache \subseteq DOMAIN ppr.in.edges
      /\ Cardinality(ppr.cache) <= ppr.in.visited
      /\ \A n \in DOMAIN ppr.in.edges : ppr.calls[n] = IF n \in ppr.cache THEN 1 ELSE 0
  BY DEF PprInv, AskedShape
<1> DEFINE Called == {n \in DOMAIN ppr.calls : ppr.calls[n] # 0}
<1>2. Called = ppr.cache
  BY <1>1
<1>3. \A n \in DOMAIN ppr.calls : ppr.calls[n] <= 1
  BY <1>1
<1> HIDE DEF Called
<1>4. Cardinality(Called) <= ppr.in.visited
  BY <1>1, <1>2
<1> QED BY <1>3, <1>4 DEF AsksOnce, Called

LEMMA InvCausal == PprInv => ProvenanceIsCausal
BY DEF PprInv, Reported, Behind, ProvenanceIsCausal, Provenances

LEMMA InvCovers == PprInv => WalkCoversOneHop
<1> DEFINE in == ppr.in
<1> SUFFICES ASSUME PprInv, ppr.phase = "done", Uncut(in)
             PROVE  /\ Reached(in) \subseteq DOMAIN ppr.given
                    /\ in.depth = 1 => DOMAIN ppr.given \subseteq Reached(in)
                    /\ (in.depth = 1 /\ Cardinality(SeedItems(in)) = 1) =>
                         \A n \in Reached(in) : BoundedProvenance(in, n) \in Provenances(n)
  BY DEF WalkCoversOneHop
<1>1. /\ in \in Inputs /\ TotalScore(in) > 0 /\ hike.seed \in SeedItems(in)
      /\ ppr.left = {} /\ hike.layer = {} /\ Reported(in, ppr.given) /\ CoverShape
  BY DEF PprInv, CallKept, HikeShape
<1>2. \A s : Departed(s)
  BY <1>1 DEF Departed
<1>3. \A n \in Reached(in) : n \in DOMAIN ppr.given
  <2> SUFFICES ASSUME NEW n \in Reached(in) PROVE n \in DOMAIN ppr.given
    OBVIOUS
  <2>1. PICK o : o \in Offers(in, n)
    BY DEF Reached
  <2>2. o[1] \in SeedItems(in) /\ o[2] \in TopEdges(in, o[1]) /\ o[2][1] = n
    BY <2>1 DEF Offers
  <2> QED BY <1>1, <1>2, <2>2 DEF CoverShape
<1>4. ASSUME in.depth = 1, NEW n \in DOMAIN ppr.given PROVE n \in Reached(in)
  <2>1. PICK k : k \in DOMAIN ppr.given[n]
    BY <1>1 DEF Reported
  <2>2. k[1] \in SeedItems(in) /\ Behind(in, k[1], k[2], n, 0) /\ n \in DOMAIN in.edges
    BY <1>1, <1>4, <2>1 DEF Reported
  <2>3. PICK e \in TopEdges(in, k[1]) : n \in Within(in, e[1], 0)
    BY <2>2 DEF Behind
  <2>4. e = <<e[1], e[2]>> /\ e[1] \in DOMAIN in.edges /\ e[2] \in DOMAIN in.discounts
    BY <1>1, <2>2, SelectedShape
  <2>5. n = e[1]
    BY <1>1, <2>3, <2>4, WithinShape
  <2>6. <<k[1], e>> \in Offers(in, n)
    BY <2>2, <2>4, <2>5 DEF Offers
  <2> QED BY <2>2, <2>6 DEF Reached
<1>5. ASSUME in.depth = 1, Cardinality(SeedItems(in)) = 1, NEW n \in Reached(in)
      PROVE  BoundedProvenance(in, n) \in Provenances(n)
  <2> DEFINE s == hike.seed
             m == RestartMass(in, s)
  <2>1. SeedItems(in) = {s}
    BY <1>1, <1>5, SelectedShape, FS_Singleton
  <2>2. ppr.given = Added(NoMass, OneHop(in, s))
    BY <1>1, <1>2, <1>5, <2>1 DEF CoverShape
  <2>3. /\ \A e \in TopEdges(in, s) :
             /\ e[1] \in DOMAIN ppr.given /\ <<s, e[2]>> \in DOMAIN ppr.given[e[1]]
             /\ ppr.given[e[1]][<<s, e[2]>>] = Propagated(in, m, e)
        /\ \A x \in DOMAIN ppr.given : \A k \in DOMAIN ppr.given[x] :
             \E e \in TopEdges(in, s) : e[1] = x /\ k = <<s, e[2]>>
    BY <1>1, <2>2, OneHopMasses
  <2>4. PICK w \in TopEdges(in, s) :
          /\ w[1] = n /\ BoundedProvenance(in, n) = <<s, w[2]>>
          /\ \A e \in TopEdges(in, s) : e[1] = n => in.discounts[e[2]] <= in.discounts[w[2]]
    BY <1>1, <2>1, WinnerShape
  <2>5. ASSUME NEW e \in TopEdges(in, s), e[1] = n
        PROVE  Propagated(in, m, e) <= Propagated(in, m, w)
    <3>1. /\ in.discounts[e[2]] \in Nat /\ in.discounts[w[2]] \in Nat
          /\ in.discounts[e[2]] <= in.discounts[w[2]]
          /\ m \in Nat /\ Damping \in Nat /\ Unit \in Nat \ {0}
      BY <1>1, <2>4, <2>5, SelectedShape, OneHopShape, InputShape
    <3>2. \A a, b \in Nat : a * b \in Nat
      OBVIOUS
    <3>3. \A a, b, c \in Nat : a <= b => c * a <= c * b
      OBVIOUS
    <3>4. \A a \in Nat \ {0} : a * a \in Nat \ {0}
      OBVIOUS
    <3> DEFINE g == m * Damping
    <3>5. g \in Nat
      BY <3>1, <3>2
    <3> HIDE DEF g
    <3>6. /\ g * in.discounts[e[2]] \in Nat /\ g * in.discounts[w[2]] \in Nat
          /\ g * in.discounts[e[2]] <= g * in.discounts[w[2]]
      BY <3>1, <3>2, <3>3, <3>5
    <3>7. Unit * Unit \in Nat \ {0}
      BY <3>1, <3>4
    <3>8. (g * in.discounts[e[2]]) \div (Unit * Unit) <= (g * in.discounts[w[2]]) \div (Unit * Unit)
      BY <3>6, <3>7, DivisionGrows
    <3> QED BY <3>8 DEF Propagated, g
  <2>6. <<s, w[2]>> \in DOMAIN ppr.given[n] /\ ppr.given[n][<<s, w[2]>>] = Propagated(in, m, w)
    BY <2>3, <2>4
  <2>7. ASSUME NEW k \in DOMAIN ppr.given[n]
        PROVE  ppr.given[n][k] <= ppr.given[n][<<s, w[2]>>]
    <3>1. n \in DOMAIN ppr.given
      BY <1>3
    <3>2. PICK e \in TopEdges(in, s) : e[1] = n /\ k = <<s, e[2]>>
      BY <2>3, <3>1
    <3>3. ppr.given[n][k] = Propagated(in, m, e)
      BY <2>3, <3>2
    <3> HIDE DEF m
    <3> QED BY <2>5, <2>6, <3>2, <3>3
  <2> QED BY <2>4, <2>6, <2>7 DEF Provenances
<1> QED BY <1>3, <1>4, <1>5

(* The inductive invariant of the bounded personalized PageRank walk         *)
(* (expand_personalized_pagerank): the cache is what was asked for and keeps *)
(* within the budget, masses are behind the edge whose type they carry, and  *)
(* a seed that is through its first hop has reached its selected targets.    *)
THEOREM ExpansionInvariant == ExpansionSpec => []PprInv
BY InitPprInv, NextPprInv, PTL DEF ExpansionSpec

(* For any graph, scores, discounts and limits, however cyclic: the edges of *)
(* a node are asked for once and within max_visited_nodes, the provenance    *)
(* reported is a seed and a first hop that lead there within max_depth, and  *)
(* what expand_bounded_typed_graph reaches is reached when no bound cuts.    *)
THEOREM ExpansionAlwaysHolds == ExpansionSpec => []ExpansionHolds
<1>1. PprInv => ExpansionHolds
  BY InvAsksOnce, InvCausal, InvCovers DEF ExpansionHolds
<1> QED BY <1>1, ExpansionInvariant, PTL
=============================================================================
