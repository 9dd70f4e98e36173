------------------------- MODULE LockAndMirrorProofs ------------------------
(***************************************************************************)
(* What a run rests on: the copy of the store it works from, for every set *)
(* of epochs, identities, operators, flows and times, every batch and any  *)
(* number of revisions; and the lock that grants it its epoch, for every   *)
(* set of runs, every TTL and any number of grants.  The theorems about    *)
(* SessionStateMirror are of Spec, those about SessionLock of LockSpec.    *)
(***************************************************************************)
EXTENDS SessionStateMirror, SessionLock, TLAPS

WF == INSTANCE WellFoundedInduction

-----------------------------------------------------------------------------
(* The two folds over a batch, DataPoint by DataPoint.                     *)

LEMMA LeastNumber ==
  ASSUME NEW S \in SUBSET Nat, S # {}
  PROVE  \E m \in S : \A n \in S : m <= n
  <1> DEFINE R == {p \in Nat \X Nat : p[1] < p[2]}
  <1>1. WF!OpToRel(<, Nat) = R
    BY DEF WF!OpToRel
  <1>2. WF!IsWellFoundedOn(R, Nat)
    BY <1>1, WF!NatLessThanWellFounded
  <1>3. \A x, y \in Nat : <<y, x>> \in R <=> y < x
    OBVIOUS
  <1> HIDE DEF R
  <1>4. PICK m \in S : \A y \in S : ~(<<y, m>> \in R)
    BY <1>2, WF!WFMin
  <1>5. ASSUME NEW y \in S
        PROVE  m <= y
    <2>1. m \in Nat /\ y \in Nat
      OBVIOUS
    <2>2. ~(y < m)
      BY <1>3, <1>4, <2>1, Zenon
    <2>. QED
      BY <2>1, <2>2
  <1>. QED
    BY <1>5

Observations == {Observation(k, t) : k \in Identity, t \in Time}

LEMMA BatchIsSequence ==
  ASSUME NEW batch \in Batch
  PROVE  batch \in Seq(Observations)
  <1>1. PICK m \in 0..MaxBatch : batch \in [1..m -> Observations]
    BY DEF Batch, BoundedSeq, SeqOf, Observations
  <1>2. m \in Nat
    BY MirrorAssumption
  <1>. QED
    BY <1>1, <1>2

\* What either fold does with one DataPoint: the copy's resolve against the
\* entries of the copy, or the store's own keyed-merge.
FoldStep(fold, ents, s, o) ==
    IF fold = "resolve" THEN ResolveOne(ents, s, o) ELSE WriteOne(s, o)

\* The function a fold is made of, for the first k DataPoints of a batch.
IsIter(f, fold, ents, base, batch, k) ==
    f = [S \in SUBSET (1..k) |->
            IF S = {} THEN base
            ELSE FoldStep(fold, ents, f[S \ {Max(S)}], batch[Max(S)])]

LEMMA MaxOfInterval ==
  ASSUME NEW k \in Nat, NEW S \in SUBSET (1..k), k \in S
  PROVE  Max(S) = k
  <1>1. \A y \in S : y \in Nat /\ k >= y
    OBVIOUS
  <1>2. PICK m : m = Max(S)
    OBVIOUS
  <1>3. m \in S /\ \A y \in S : m >= y
    BY <1>1, <1>2 DEF Max
  <1>. QED
    BY <1>1, <1>2, <1>3

\* It exists for a batch of any length: the least length without one would
\* be one more than a length with one.
LEMMA IterExists ==
  ASSUME NEW fold, NEW ents, NEW base, NEW batch, NEW n \in Nat
  PROVE  \E f : IsIter(f, fold, ents, base, batch, n)
  <1> DEFINE Bad == {k \in Nat : ~ \E f : IsIter(f, fold, ents, base, batch, k)}
             Next1(s, i) == FoldStep(fold, ents, s, batch[i])
  <1>1. SUFFICES ASSUME Bad # {} PROVE FALSE
    OBVIOUS
  <1>2. PICK k \in Bad : \A m \in Bad : k <= m
    <2>1. Bad \in SUBSET Nat
      OBVIOUS
    <2> HIDE DEF Bad
    <2>. QED
      BY <1>1, <2>1, LeastNumber
  <1>3. k \in Nat /\ ~ \E f : IsIter(f, fold, ents, base, batch, k)
    BY <1>2
  <1>4. k # 0
    <2>1. SUFFICES ASSUME k = 0 PROVE FALSE
      OBVIOUS
    <2>2. PICK f : f = [S \in SUBSET (1..k) |-> base]
      OBVIOUS
    <2>3. \A S \in SUBSET (1..k) : S = {}
      BY <2>1
    <2>4. f = [S \in SUBSET (1..k) |->
                 IF S = {} THEN base ELSE Next1(f[S \ {Max(S)}], Max(S))]
      <3> HIDE DEF Next1
      <3>. QED
        BY <2>2, <2>3
    <2>. QED
      BY <1>3, <2>4 DEF IsIter
  <1>5. PICK h : IsIter(h, fold, ents, base, batch, k - 1)
    <2>1. k - 1 \in Nat /\ k - 1 \notin Bad
      BY <1>2, <1>3, <1>4
    <2>. QED
      BY <2>1
  <1>6. \A S \in SUBSET (1..(k - 1)) :
          h[S] = IF S = {} THEN base ELSE Next1(h[S \ {Max(S)}], Max(S))
    BY <1>5 DEF IsIter
  <1> HIDE DEF Bad, Next1
  <1>7. PICK f : f = [S \in SUBSET (1..k) |->
                        IF k \in S THEN Next1(h[S \ {k}], k) ELSE h[S]]
    OBVIOUS
  <1>8. ASSUME NEW S \in SUBSET (1..k)
        PROVE  f[S] = IF S = {} THEN base ELSE Next1(f[S \ {Max(S)}], Max(S))
    <2>1. \A T \in SUBSET (1..k) : k \notin T =>
             /\ T \in SUBSET (1..(k - 1)) /\ T \in SUBSET (1..k)
             /\ f[T] = h[T]
      BY <1>3, <1>7
    <2>2. CASE k \in S
      <3>1. Max(S) = k
        BY <1>3, <2>2, MaxOfInterval
      <3>2. f[S \ {k}] = h[S \ {k}]
        BY <2>1
      <3>3. f[S] = Next1(h[S \ {k}], k)
        BY <1>7, <2>2
      <3>. QED
        BY <2>2, <3>1, <3>2, <3>3
    <2>3. CASE k \notin S
      <3>1. S \in SUBSET (1..(k - 1)) /\ f[S] = h[S]
        BY <2>1, <2>3
      <3>2. f[S \ {Max(S)}] = h[S \ {Max(S)}]
        BY <2>1, <2>3
      <3>. QED
        BY <1>6, <3>1, <3>2
    <2>. QED
      BY <2>2, <2>3
  <1>9. f = [S \in SUBSET (1..k) |->
               IF S = {} THEN base ELSE Next1(f[S \ {Max(S)}], Max(S))]
    <2>1. f = [S \in SUBSET (1..k) |-> f[S]]
      BY <1>7
    <2>. QED
      BY <1>8, <2>1
  <1>. QED
    BY <1>3, <1>9 DEF IsIter, Next1

\* A fold runs through its batch: g[n] is its result for the first n.
IsTrace(g, fold, ents, base, batch) ==
    /\ g[0] = base
    /\ \A n \in 1..Len(batch) :
          g[n] = FoldStep(fold, ents, g[n - 1], batch[n])

LEMMA IterIsTrace ==
  ASSUME NEW fold, NEW ents, NEW base, NEW batch, Len(batch) \in Nat,
         NEW it, IsIter(it, fold, ents, base, batch, Len(batch))
  PROVE  \E g : /\ IsTrace(g, fold, ents, base, batch)
                /\ g[Len(batch)] = it[1..Len(batch)]
  <1>1. PICK g : g = [n \in 0..Len(batch) |-> it[1..n]]
    OBVIOUS
  <1>2. g[0] = base
    <2>1. 1..0 = {} /\ {} \in SUBSET (1..Len(batch)) /\ 0 \in 0..Len(batch)
      OBVIOUS
    <2>2. it[{}] = base
      BY <2>1 DEF IsIter
    <2>. QED
      BY <1>1, <2>1, <2>2
  <1>3. ASSUME NEW n \in 1..Len(batch)
        PROVE  g[n] = FoldStep(fold, ents, g[n - 1], batch[n])
    <2>1. n \in Nat /\ n <= Len(batch) /\ n >= 1 /\ n - 1 \in 0..Len(batch)
      OBVIOUS
    <2>2. 1..n \in SUBSET (1..Len(batch)) /\ n \in 1..n /\ 1..n # {}
      <3>1. \A i \in 1..n : i \in 1..Len(batch)
        BY <2>1
      <3>2. n \in 1..n
        BY <2>1
      <3>. QED
        BY <3>1, <3>2
    <2>3. Max(1..n) = n
      BY <2>1, <2>2, MaxOfInterval
    <2>4. (1..n) \ {n} = 1..(n - 1)
      BY <2>1
    <2>5. it[1..n] = FoldStep(fold, ents, it[(1..n) \ {n}], batch[n])
      BY <2>2, <2>3 DEF IsIter
    <2>6. g[n] = it[1..n] /\ g[n - 1] = it[1..(n - 1)]
      BY <1>1, <2>1
    <2>. QED
      BY <2>4, <2>5, <2>6
  <1>4. g[Len(batch)] = it[1..Len(batch)]
    BY <1>1
  <1>. QED
    BY <1>2, <1>3, <1>4 DEF IsTrace

NothingResolved == [added |-> NoEntries, updated |-> NoEntries]

LEMMA ResolveTrace ==
  ASSUME NEW ents, NEW batch \in Seq(Observations)
  PROVE  \E g : /\ IsTrace(g, "resolve", ents, NothingResolved, batch)
                /\ g[Len(batch)] = resolve(ents, batch)
  <1>1. Len(batch) \in Nat /\ DOMAIN batch = 1..Len(batch)
    OBVIOUS
  <1> DEFINE Iter(f) == f = [S \in SUBSET (1..Len(batch)) |->
                               IF S = {} THEN NothingResolved
                               ELSE ResolveOne(ents, f[S \ {Max(S)}], batch[Max(S)])]
  <1>2. \A f : IsIter(f, "resolve", ents, NothingResolved, batch, Len(batch)) <=> Iter(f)
    BY DEF IsIter, FoldStep
  <1>3. PICK it : it = CHOOSE f : Iter(f)
    OBVIOUS
  <1>4. resolve(ents, batch) = it[1..Len(batch)]
    BY <1>1, <1>3, Zenon DEF resolve, FoldLeft, MapThenFoldSet, NothingResolved
  <1>5. \E f : Iter(f)
    BY <1>1, <1>2, IterExists
  <1>6. Iter(it)
    <2> HIDE DEF Iter
    <2>. QED
      BY <1>3, <1>5
  <1>7. IsIter(it, "resolve", ents, NothingResolved, batch, Len(batch))
    BY <1>2, <1>6
  <1>. QED
    BY <1>1, <1>4, <1>7, IterIsTrace

WriteFold(ents, rev, batch) ==
    FoldLeft(WriteOne, [entries |-> ents, revision |-> rev, changed |-> FALSE], batch)

LEMMA WriteTrace ==
  ASSUME NEW ents, NEW rev, NEW batch \in Seq(Observations),
         NEW base, base = [entries |-> ents, revision |-> rev, changed |-> FALSE]
  PROVE  \E g : /\ IsTrace(g, "write", ents, base, batch)
                /\ g[Len(batch)] = WriteFold(ents, rev, batch)
  <1>1. Len(batch) \in Nat /\ DOMAIN batch = 1..Len(batch)
    OBVIOUS
  <1> DEFINE Iter(f) == f = [S \in SUBSET (1..Len(batch)) |->
                               IF S = {} THEN base
                               ELSE WriteOne(f[S \ {Max(S)}], batch[Max(S)])]
  <1>2. \A f : IsIter(f, "write", ents, base, batch, Len(batch)) <=> Iter(f)
    BY DEF IsIter, FoldStep
  <1>3. PICK it : it = CHOOSE f : Iter(f)
    OBVIOUS
  <1>4. WriteFold(ents, rev, batch) = it[1..Len(batch)]
    BY <1>1, <1>3, Zenon DEF WriteFold, FoldLeft, MapThenFoldSet
  <1>5. \E f : Iter(f)
    BY <1>1, <1>2, IterExists
  <1>6. Iter(it)
    <2> HIDE DEF Iter
    <2>. QED
      BY <1>3, <1>5
  <1>7. IsIter(it, "write", ents, base, batch, Len(batch))
    BY <1>2, <1>6
  <1>. QED
    BY <1>1, <1>4, <1>7, IterIsTrace

-----------------------------------------------------------------------------
(* What resolving a batch against a copy amounts to.                       *)

Entry == [first : Time, last : Time, added_rev : Nat, updated_rev : Nat]
EntryMap == UNION {[D -> Entry] : D \in SUBSET Identity}
Retrieved == [first : Time, last : Time]
RetrievedMap == UNION {[D -> Retrieved] : D \in SUBSET Identity}
Resolution == [added : RetrievedMap, updated : RetrievedMap]

LEMMA EntryMapFacts ==
  /\ \A f \in EntryMap : /\ DOMAIN f \subseteq Identity
                         /\ \A k \in DOMAIN f : f[k] \in Entry
                         /\ f = [k \in DOMAIN f |-> f[k]]
  /\ \A D \in SUBSET Identity : [D -> Entry] \subseteq EntryMap
  BY DEF EntryMap

LEMMA RetrievedMapFacts ==
  /\ \A f \in RetrievedMap : /\ DOMAIN f \subseteq Identity
                             /\ \A k \in DOMAIN f : f[k] \in Retrieved
                             /\ f = [k \in DOMAIN f |-> f[k]]
  /\ \A D \in SUBSET Identity : [D -> Retrieved] \subseteq RetrievedMap
  BY DEF RetrievedMap

LEMMA Empty == NoEntries \in EntryMap /\ NoEntries \in RetrievedMap /\ DOMAIN NoEntries = {}
  <1>1. NoEntries \in [{} -> Entry] /\ NoEntries \in [{} -> Retrieved]
    BY DEF NoEntries
  <1>2. DOMAIN NoEntries = {}
    BY DEF NoEntries
  <1>. QED
    BY <1>1, <1>2, EntryMapFacts, RetrievedMapFacts

\* A resolution adds what the copy lacks and updates what it has.
Resolves(ents, res) ==
    /\ res \in Resolution
    /\ DOMAIN res.added \cap DOMAIN ents = {}
    /\ DOMAIN res.updated \subseteq DOMAIN ents

\* f with v at k.
LEMMA PutFacts ==
  ASSUME NEW f \in RetrievedMap, NEW k \in Identity, NEW v \in Retrieved
  PROVE  /\ Put(f, k, v) \in RetrievedMap
         /\ DOMAIN Put(f, k, v) = DOMAIN f \cup {k}
         /\ Put(f, k, v)[k] = v
         /\ \A x \in DOMAIN f : x # k => Put(f, k, v)[x] = f[x]
  <1>1. DOMAIN f \cup {k} \in SUBSET Identity /\ \A x \in DOMAIN f : f[x] \in Retrieved
    BY RetrievedMapFacts
  <1>2. Put(f, k, v) \in [DOMAIN f \cup {k} -> Retrieved]
    BY <1>1 DEF Put
  <1>3. Put(f, k, v) \in RetrievedMap
    BY <1>1, <1>2, RetrievedMapFacts
  <1>. QED
    BY <1>3 DEF Put

\* A resolution with v for k.
PutAdded(res, k, v) == [res EXCEPT !.added = Put(res.added, k, v)]
PutUpdated(res, k, v) == [res EXCEPT !.updated = Put(res.updated, k, v)]

LEMMA ExceptIsPut ==
  ASSUME NEW f \in RetrievedMap, NEW k \in DOMAIN f, NEW v
  PROVE  [f EXCEPT ![k] = v] = Put(f, k, v)
  <1>1. DOMAIN f \cup {k} = DOMAIN f
    OBVIOUS
  <1>. QED
    BY <1>1 DEF Put

LEMMA Reobserving ==
  ASSUME NEW d \in Retrieved, NEW t \in Time
  PROVE  /\ reobserved(d, t) \in Retrieved
         /\ reobserved(d, t).first = d.first
         /\ reobserved(d, t).last = IF t > d.last THEN t ELSE d.last
         /\ ~(t > d.last) => reobserved(d, t) = d
  <1>1. t \in Nat /\ d.last \in Nat /\ d.last \in Time /\ d.first \in Time
    BY MirrorAssumption DEF Retrieved
  <1>2. Later(d.last, t) = IF t > d.last THEN t ELSE d.last
    BY <1>1 DEF Later
  <1>3. reobserved(d, t) = [d EXCEPT !.last = IF t > d.last THEN t ELSE d.last]
    BY <1>2 DEF reobserved
  <1>. QED
    BY <1>1, <1>3 DEF Retrieved

\* The ways one DataPoint goes: known to this batch as new or as an update,
\* unknown, newer than what the copy holds, or nothing new.
OneResolved(ents, res, k, t, r) ==
    /\ k \in DOMAIN res.added => r = PutAdded(res, k, reobserved(res.added[k], t))
    /\ k \in DOMAIN res.updated => r = PutUpdated(res, k, reobserved(res.updated[k], t))
    /\ k \notin DOMAIN res.added /\ k \notin DOMAIN ents => r = PutAdded(res, k, DataPoint(t))
    /\ k \in DOMAIN ents /\ k \notin DOMAIN res.updated =>
         r = IF t > ents[k].last
             THEN PutUpdated(res, k, [first |-> ents[k].first, last |-> t])
             ELSE res

LEMMA ResolveOneCases ==
  ASSUME NEW ents \in EntryMap, NEW res, Resolves(ents, res),
         NEW k \in Identity, NEW t \in Time, NEW o, o = Observation(k, t)
  PROVE  OneResolved(ents, res, k, t, ResolveOne(ents, res, o))
  <1>1. o.id = k /\ o.at = t
    BY DEF Observation
  <1>2. /\ res.added \in RetrievedMap /\ res.updated \in RetrievedMap
        /\ DOMAIN res.added \cap DOMAIN ents = {}
        /\ DOMAIN res.updated \subseteq DOMAIN ents
    BY DEF Resolves, Resolution
  <1>3. ASSUME k \in DOMAIN res.added
        PROVE  ResolveOne(ents, res, o)
                 = PutAdded(res, k, reobserved(res.added[k], t))
    <2>1. ResolveOne(ents, res, o)
            = [res EXCEPT !.added = [res.added EXCEPT ![k] = reobserved(res.added[k], t)]]
      BY <1>1, <1>3 DEF ResolveOne
    <2>. QED
      BY <1>2, <1>3, <2>1, ExceptIsPut DEF PutAdded
  <1>4. ASSUME k \in DOMAIN res.updated
        PROVE  ResolveOne(ents, res, o)
                 = PutUpdated(res, k, reobserved(res.updated[k], t))
    <2>1. k \notin DOMAIN res.added
      BY <1>2, <1>4
    <2>2. ResolveOne(ents, res, o)
            = [res EXCEPT !.updated = [res.updated EXCEPT ![k] = reobserved(res.updated[k], t)]]
      BY <1>1, <1>4, <2>1 DEF ResolveOne
    <2>. QED
      BY <1>2, <1>4, <2>2, ExceptIsPut DEF PutUpdated
  <1>5. ASSUME k \notin DOMAIN res.added, k \notin DOMAIN ents
        PROVE  ResolveOne(ents, res, o) = PutAdded(res, k, DataPoint(t))
    BY <1>1, <1>2, <1>5 DEF ResolveOne, PutAdded
  <1>6. ASSUME k \in DOMAIN ents, k \notin DOMAIN res.updated, t > ents[k].last
        PROVE  ResolveOne(ents, res, o)
                 = PutUpdated(res, k, [first |-> ents[k].first, last |-> t])
    BY <1>1, <1>2, <1>6 DEF ResolveOne, PutUpdated
  <1>7. ASSUME k \in DOMAIN ents, k \notin DOMAIN res.updated, ~(t > ents[k].last)
        PROVE  ResolveOne(ents, res, o) = res
    BY <1>1, <1>2, <1>7 DEF ResolveOne
  <1>. QED
    BY <1>3, <1>4, <1>5, <1>6, <1>7 DEF OneResolved

LEMMA ResolveOneResolves ==
  ASSUME NEW ents \in EntryMap, NEW res, Resolves(ents, res), NEW o \in Observations
  PROVE  Resolves(ents, ResolveOne(ents, res, o))
  <1>1. PICK k \in Identity, t \in Time : o = Observation(k, t)
    BY DEF Observations
  <1>2. PICK r : r = ResolveOne(ents, res, o)
    OBVIOUS
  <1>10. OneResolved(ents, res, k, t, r)
    BY <1>1, <1>2, ResolveOneCases
  <1>3. /\ res \in Resolution
        /\ res.added \in RetrievedMap /\ res.updated \in RetrievedMap
        /\ DOMAIN res.added \cap DOMAIN ents = {}
        /\ DOMAIN res.updated \subseteq DOMAIN ents
    BY DEF Resolves, Resolution
  <1>4. ASSUME NEW v \in Retrieved, k \notin DOMAIN ents,
               r = PutAdded(res, k, v)
        PROVE  Resolves(ents, r)
    <2>1. PICK f \in RetrievedMap : f = res.added
      BY <1>3
    <2>2. PICK p : p = Put(f, k, v)
      OBVIOUS
    <2>3. p \in RetrievedMap /\ DOMAIN p = DOMAIN f \cup {k}
      BY <2>2, PutFacts
    <2>4. r \in Resolution /\ r.added = p /\ r.updated = res.updated
      BY <1>3, <1>4, <2>1, <2>2, <2>3 DEF Resolution, PutAdded, PutUpdated
    <2>. QED
      BY <1>3, <1>4, <2>1, <2>3, <2>4 DEF Resolves
  <1>5. ASSUME NEW v \in Retrieved, k \in DOMAIN ents,
               r = PutUpdated(res, k, v)
        PROVE  Resolves(ents, r)
    <2>1. PICK f \in RetrievedMap : f = res.updated
      BY <1>3
    <2>2. PICK p : p = Put(f, k, v)
      OBVIOUS
    <2>3. p \in RetrievedMap /\ DOMAIN p = DOMAIN f \cup {k}
      BY <2>2, PutFacts
    <2>4. r \in Resolution /\ r.updated = p /\ r.added = res.added
      BY <1>3, <1>5, <2>1, <2>2, <2>3 DEF Resolution, PutAdded, PutUpdated
    <2>. QED
      BY <1>3, <1>5, <2>1, <2>3, <2>4 DEF Resolves
  <1>6. CASE k \in DOMAIN res.added
    <2>1. res.added[k] \in Retrieved /\ k \notin DOMAIN ents
      BY <1>3, <1>6, RetrievedMapFacts
    <2>2. reobserved(res.added[k], t) \in Retrieved
      BY <2>1, Reobserving
    <2>3. r = PutAdded(res, k, reobserved(res.added[k], t))
      BY <1>6, <1>10 DEF OneResolved
    <2>. QED
      BY <1>2, <1>4, <2>1, <2>2, <2>3
  <1>7. CASE k \in DOMAIN res.updated
    <2>1. res.updated[k] \in Retrieved /\ k \in DOMAIN ents
      BY <1>3, <1>7, RetrievedMapFacts
    <2>2. reobserved(res.updated[k], t) \in Retrieved
      BY <2>1, Reobserving
    <2>3. r = PutUpdated(res, k, reobserved(res.updated[k], t))
      BY <1>7, <1>10 DEF OneResolved
    <2>. QED
      BY <1>2, <1>5, <2>1, <2>2, <2>3
  <1>8. CASE k \notin DOMAIN res.added /\ k \notin DOMAIN ents
    <2>1. DataPoint(t) \in Retrieved
      BY DEF DataPoint, Retrieved
    <2>2. r = PutAdded(res, k, DataPoint(t))
      BY <1>8, <1>10 DEF OneResolved
    <2>. QED
      BY <1>2, <1>4, <1>8, <2>1, <2>2
  <1>9. CASE k \in DOMAIN ents /\ k \notin DOMAIN res.updated
    <2>1. ents[k] \in Entry
      BY <1>9, EntryMapFacts
    <2>2. [first |-> ents[k].first, last |-> t] \in Retrieved
      BY <2>1 DEF Entry, Retrieved
    <2>3. \/ r = res
          \/ r = PutUpdated(res, k, [first |-> ents[k].first, last |-> t])
      BY <1>9, <1>10 DEF OneResolved
    <2>. QED
      BY <1>2, <1>5, <1>9, <2>2, <2>3
  <1>. QED
    BY <1>2, <1>6, <1>7, <1>8, <1>9

LEMMA ResolveResolves ==
  ASSUME NEW ents \in EntryMap, NEW batch \in Seq(Observations)
  PROVE  Resolves(ents, resolve(ents, batch))
  <1>1. PICK g : /\ IsTrace(g, "resolve", ents, NothingResolved, batch)
                 /\ g[Len(batch)] = resolve(ents, batch)
    BY ResolveTrace
  <1> DEFINE Bad == {n \in 0..Len(batch) : ~Resolves(ents, g[n])}
  <1>2. SUFFICES ASSUME Bad # {} PROVE FALSE
    BY <1>1
  <1>3. PICK n \in Bad : \A m \in Bad : n <= m
    <2>1. Bad \in SUBSET Nat
      OBVIOUS
    <2> HIDE DEF Bad
    <2>. QED
      BY <1>2, <2>1, LeastNumber
  <1>4. n \in 0..Len(batch) /\ ~Resolves(ents, g[n]) /\ Len(batch) \in Nat
    BY <1>3
  <1>5. CASE n = 0
    <2>1. g[0] = NothingResolved
      BY <1>1 DEF IsTrace
    <2>2. Resolves(ents, NothingResolved)
      BY Empty DEF Resolves, Resolution, NothingResolved
    <2>. QED
      BY <1>4, <1>5, <2>1, <2>2
  <1>6. CASE n # 0
    <2>1. n \in 1..Len(batch) /\ n - 1 \in 0..Len(batch) /\ ~(n <= n - 1)
      BY <1>4, <1>6
    <2>2. Resolves(ents, g[n - 1])
      BY <1>3, <2>1
    <2>3. batch[n] \in Observations
      BY <2>1
    <2>4. g[n] = ResolveOne(ents, g[n - 1], batch[n])
      BY <1>1, <2>1 DEF IsTrace, FoldStep
    <2>. QED
      BY <1>4, <2>2, <2>3, <2>4, ResolveOneResolves
  <1>. QED
    BY <1>5, <1>6

-----------------------------------------------------------------------------
(* Resolving against a copy of the store and applying the result blindly   *)
(* is the keyed-merge of the store.                                        *)

Same(a, b) ==
    /\ DOMAIN a = DOMAIN b
    /\ \A k \in DOMAIN a : a[k].first = b[k].first /\ a[k].last = b[k].last

Stamp(d, added, updated) ==
    [first |-> d.first, last |-> d.last, added_rev |-> added, updated_rev |-> updated]

MergeState == [entries : EntryMap, revision : Nat, changed : BOOLEAN]

\* s is what the keyed-merge has made of the store's entries when the copy
\* has come to the resolution res of the same DataPoints.
Merges(ents, rev, res, s) ==
    /\ s \in MergeState
    /\ s.revision = rev
    /\ DOMAIN s.entries = DOMAIN ents \cup DOMAIN res.added
    /\ \A k \in DOMAIN res.added : s.entries[k] = Stamp(res.added[k], rev + 1, rev + 1)
    /\ \A k \in DOMAIN res.updated :
          s.entries[k] = Stamp(res.updated[k], ents[k].added_rev, rev + 1)
    /\ \A k \in DOMAIN ents \ DOMAIN res.updated : s.entries[k] = ents[k]
    /\ s.changed = (DOMAIN res.added # {} \/ DOMAIN res.updated # {})

LEMMA StampFacts ==
  ASSUME NEW d, d.first \in Time, d.last \in Time, NEW a \in Nat, NEW u \in Nat
  PROVE  /\ Stamp(d, a, u) \in Entry
         /\ Stamp(d, a, u).first = d.first /\ Stamp(d, a, u).last = d.last
         /\ Stamp(d, a, u).added_rev = a /\ Stamp(d, a, u).updated_rev = u
  BY DEF Stamp, Entry

LEMMA EntryEquality ==
  ASSUME NEW x \in Entry, NEW y \in Entry, x.first = y.first, x.last = y.last,
         x.added_rev = y.added_rev, x.updated_rev = y.updated_rev
  PROVE  x = y
  BY DEF Entry

\* What an update makes of an entry.
Restamp(y, t, rev) == [y EXCEPT !.last = t, !.updated_rev = rev]

LEMMA Restamped ==
  ASSUME NEW y \in Entry, NEW t \in Time, NEW n \in Nat,
         NEW v, v.first = y.first, v.last = t
  PROVE  Restamp(y, t, n) = Stamp(v, y.added_rev, n)
  <1>1. PICK x : x = [y EXCEPT !.last = t, !.updated_rev = n]
    OBVIOUS
  <1>2. /\ x \in Entry /\ x.first = y.first /\ x.last = t
        /\ x.added_rev = y.added_rev /\ x.updated_rev = n
    BY <1>1 DEF Entry
  <1>3. y.first \in Time /\ y.added_rev \in Nat
    BY DEF Entry
  <1>4. PICK a \in Nat : a = y.added_rev
    BY <1>3
  <1>5. PICK z : z = Stamp(v, a, n)
    OBVIOUS
  <1>6. /\ z \in Entry /\ z.first = y.first /\ z.last = t
        /\ z.added_rev = y.added_rev /\ z.updated_rev = n
    BY <1>3, <1>4, <1>5, StampFacts
  <1>7. x = z
    BY <1>2, <1>6, EntryEquality
  <1>. QED
    BY <1>1, <1>4, <1>5, <1>7 DEF Restamp

LEMMA PutEntryFacts ==
  ASSUME NEW f \in EntryMap, NEW k \in Identity, NEW v \in Entry
  PROVE  /\ Put(f, k, v) \in EntryMap
         /\ DOMAIN Put(f, k, v) = DOMAIN f \cup {k}
         /\ Put(f, k, v)[k] = v
         /\ \A x \in DOMAIN f : x # k => Put(f, k, v)[x] = f[x]
  <1>1. DOMAIN f \cup {k} \in SUBSET Identity /\ \A x \in DOMAIN f : f[x] \in Entry
    BY EntryMapFacts
  <1>2. Put(f, k, v) \in [DOMAIN f \cup {k} -> Entry]
    BY <1>1 DEF Put
  <1>3. Put(f, k, v) \in EntryMap
    BY <1>1, <1>2, EntryMapFacts
  <1>. QED
    BY <1>3 DEF Put

LEMMA PutSame ==
  ASSUME NEW res \in Resolution, NEW k
  PROVE  /\ k \in DOMAIN res.added => PutAdded(res, k, res.added[k]) = res
         /\ k \in DOMAIN res.updated => PutUpdated(res, k, res.updated[k]) = res
  <1>1. \A f \in RetrievedMap : k \in DOMAIN f => Put(f, k, f[k]) = f
    <2>1. SUFFICES ASSUME NEW f \in RetrievedMap, k \in DOMAIN f
                   PROVE  Put(f, k, f[k]) = f
      OBVIOUS
    <2>2. DOMAIN f \cup {k} = DOMAIN f /\ f = [x \in DOMAIN f |-> f[x]]
      BY <2>1, RetrievedMapFacts
    <2>. QED
      BY <2>2 DEF Put
  <1>2. res.added \in RetrievedMap /\ res.updated \in RetrievedMap
    BY DEF Resolution
  <1>3. ASSUME k \in DOMAIN res.added PROVE PutAdded(res, k, res.added[k]) = res
    <2>1. Put(res.added, k, res.added[k]) = res.added
      BY <1>1, <1>2, <1>3
    <2>. QED
      BY <2>1 DEF PutAdded, Resolution
  <1>4. ASSUME k \in DOMAIN res.updated PROVE PutUpdated(res, k, res.updated[k]) = res
    <2>1. Put(res.updated, k, res.updated[k]) = res.updated
      BY <1>1, <1>2, <1>4
    <2>. QED
      BY <2>1 DEF PutUpdated, Resolution
  <1>. QED
    BY <1>3, <1>4

\* The keyed-merge has written entry x for k.
Wrote(s, k, x, w) ==
    /\ w \in MergeState
    /\ w.entries = Put(s.entries, k, x)
    /\ w.revision = s.revision
    /\ w.changed = TRUE

\* What the keyed-merge does with one DataPoint.
OneWritten(s, k, t, w) ==
    /\ k \notin DOMAIN s.entries => Wrote(s, k, NewEntry(t, s.revision + 1), w)
    /\ k \in DOMAIN s.entries /\ t > s.entries[k].last =>
         Wrote(s, k, Restamp(s.entries[k], t, s.revision + 1), w)
    /\ k \in DOMAIN s.entries /\ ~(t > s.entries[k].last) => w = s

LEMMA WriteOneCases ==
  ASSUME NEW s \in MergeState, NEW k \in Identity, NEW t \in Time,
         NEW o, o = Observation(k, t)
  PROVE  OneWritten(s, k, t, WriteOne(s, o))
  <1>1. o.id = k /\ o.at = t
    BY DEF Observation
  <1>2. PICK ents \in EntryMap : ents = s.entries
    BY DEF MergeState
  <1>3. PICK rev \in Nat : rev = s.revision
    BY DEF MergeState
  <1>4. t \in Nat
    BY MirrorAssumption
  <1>5. PICK w : w = WriteOne(s, o)
    OBVIOUS
  <1>6. ASSUME NEW x \in Entry, NEW f, f = Put(ents, k, x),
               w = [s EXCEPT !.entries = f, !.changed = TRUE]
        PROVE  Wrote(s, k, x, w)
    <2>1. f \in EntryMap
      BY <1>6, PutEntryFacts
    <2>2. w.entries = f /\ w.revision = s.revision /\ w \in MergeState
      BY <1>6, <2>1 DEF MergeState
    <2>3. w.changed = TRUE
      BY <1>6 DEF MergeState
    <2>. QED
      BY <1>2, <1>6, <2>2, <2>3 DEF Wrote
  <1>7. ASSUME k \notin DOMAIN ents
        PROVE  Wrote(s, k, NewEntry(t, rev + 1), w)
    <2>1. NewEntry(t, rev + 1) \in Entry
      BY DEF NewEntry, Entry
    <2>2. w = [s EXCEPT !.entries = Put(ents, k, NewEntry(t, rev + 1)), !.changed = TRUE]
      BY <1>1, <1>2, <1>3, <1>5, <1>7 DEF WriteOne
    <2>. QED
      BY <1>6, <2>1, <2>2
  <1>8. ASSUME k \in DOMAIN ents
        PROVE  /\ t > ents[k].last =>
                    Wrote(s, k, Restamp(ents[k], t, rev + 1), w)
               /\ ~(t > ents[k].last) => w = s
    <2>1. PICK y \in Entry : y = ents[k]
      BY <1>8, EntryMapFacts
    <2>2. y.last \in Nat
      BY MirrorAssumption DEF Entry
    <2>3. ASSUME t > y.last
          PROVE  Wrote(s, k, Restamp(y, t, rev + 1), w)
      <3>1. PICK x : x = [y EXCEPT !.last = t, !.updated_rev = rev + 1]
        OBVIOUS
      <3>2. x \in Entry
        <4>1. PICK n \in Nat : n = rev + 1
          OBVIOUS
        <4>. QED
          BY <3>1, <4>1 DEF Entry
      <3>3. Later(y.last, t) = t
        BY <1>4, <2>2, <2>3 DEF Later
      <3>4. [reobserved(y, t) EXCEPT !.updated_rev = rev + 1] = x
        BY <3>1, <3>3 DEF reobserved, Entry
      <3>5. w = [s EXCEPT !.entries = [ents EXCEPT ![k] = x], !.changed = TRUE]
        BY <1>1, <1>2, <1>3, <1>5, <1>8, <2>1, <2>3, <3>4 DEF WriteOne
      <3>6. [ents EXCEPT ![k] = x] = Put(ents, k, x)
        <4>1. DOMAIN ents \cup {k} = DOMAIN ents
          BY <1>8
        <4>. QED
          BY <4>1 DEF Put
      <3>. QED
        BY <1>6, <3>1, <3>2, <3>5, <3>6 DEF Restamp
    <2>4. ASSUME ~(t > y.last) PROVE w = s
      BY <1>1, <1>2, <1>5, <1>8, <2>1, <2>4 DEF WriteOne
    <2>. QED
      BY <2>1, <2>3, <2>4
  <1>. QED
    BY <1>2, <1>3, <1>5, <1>7, <1>8 DEF OneWritten

LEMMA MergePutAdded ==
  ASSUME NEW ents \in EntryMap, NEW rev \in Nat, NEW res, Resolves(ents, res),
         NEW s, Merges(ents, rev, res, s),
         NEW k \in Identity, k \notin DOMAIN ents, NEW v \in Retrieved,
         NEW x, x = Stamp(v, rev + 1, rev + 1), NEW w, Wrote(s, k, x, w)
  PROVE  Merges(ents, rev, PutAdded(res, k, v), w)
  <1>1. PICK fa \in RetrievedMap : fa = res.added
    BY DEF Resolves, Resolution
  <1>2. PICK fs \in EntryMap : fs = s.entries
    BY DEF Merges, MergeState
  <1>3. x \in Entry
    BY StampFacts DEF Retrieved
  <1>4. PICK pa : pa = Put(fa, k, v)
    OBVIOUS
  <1>5. /\ DOMAIN pa = DOMAIN fa \cup {k} /\ pa[k] = v
        /\ \A y \in DOMAIN fa : y # k => pa[y] = fa[y]
    BY <1>4 DEF Put
  <1>6. PICK ps : ps = Put(fs, k, x)
    OBVIOUS
  <1>7. /\ DOMAIN ps = DOMAIN fs \cup {k} /\ ps[k] = x
        /\ \A y \in DOMAIN fs : y # k => ps[y] = fs[y]
    BY <1>6 DEF Put
  <1>8. PICK r : r = PutAdded(res, k, v)
    OBVIOUS
  <1>9. r.added = pa /\ r.updated = res.updated
    BY <1>1, <1>4, <1>8 DEF PutAdded, Resolves, Resolution
  <1>10. w.entries = ps /\ w.revision = rev /\ w.changed = TRUE /\ w \in MergeState
    BY <1>2, <1>6 DEF Wrote, Merges
  <1>11. /\ DOMAIN res.added \cap DOMAIN ents = {}
         /\ DOMAIN res.updated \subseteq DOMAIN ents
    BY DEF Resolves
  <1>12. DOMAIN ps = DOMAIN ents \cup DOMAIN pa
    BY <1>1, <1>2, <1>5, <1>7 DEF Merges
  <1>13. \A y \in DOMAIN pa : ps[y] = Stamp(pa[y], rev + 1, rev + 1)
    BY <1>1, <1>2, <1>5, <1>7 DEF Merges
  <1>14. \A y \in DOMAIN res.updated : ps[y] = Stamp(res.updated[y], ents[y].added_rev, rev + 1)
    BY <1>2, <1>7, <1>11 DEF Merges
  <1>15. \A y \in DOMAIN ents \ DOMAIN res.updated : ps[y] = ents[y]
    BY <1>2, <1>7 DEF Merges
  <1>16. DOMAIN pa # {}
    BY <1>5
  <1>17. w.changed = (DOMAIN r.added # {} \/ DOMAIN r.updated # {})
    BY <1>9, <1>10, <1>16
  <1>. QED
    BY <1>8, <1>9, <1>10, <1>12, <1>13, <1>14, <1>15, <1>17 DEF Merges

LEMMA MergePutUpdated ==
  ASSUME NEW ents \in EntryMap, NEW rev \in Nat, NEW res, Resolves(ents, res),
         NEW s, Merges(ents, rev, res, s),
         NEW k \in DOMAIN ents, NEW v \in Retrieved,
         NEW x, x = Stamp(v, ents[k].added_rev, rev + 1), NEW w, Wrote(s, k, x, w)
  PROVE  Merges(ents, rev, PutUpdated(res, k, v), w)
  <1>0. k \in Identity /\ ents[k] \in Entry /\ ents[k].added_rev \in Nat
    BY EntryMapFacts DEF Entry
  <1>1. PICK fu \in RetrievedMap : fu = res.updated
    BY DEF Resolves, Resolution
  <1>2. PICK fs \in EntryMap : fs = s.entries
    BY DEF Merges, MergeState
  <1>3. x \in Entry
    BY <1>0, StampFacts DEF Retrieved
  <1>4. PICK pu : pu = Put(fu, k, v)
    OBVIOUS
  <1>5. /\ DOMAIN pu = DOMAIN fu \cup {k} /\ pu[k] = v
        /\ \A y \in DOMAIN fu : y # k => pu[y] = fu[y]
    BY <1>4 DEF Put
  <1>6. PICK ps : ps = Put(fs, k, x)
    OBVIOUS
  <1>7. /\ DOMAIN ps = DOMAIN fs \cup {k} /\ ps[k] = x
        /\ \A y \in DOMAIN fs : y # k => ps[y] = fs[y]
    BY <1>6 DEF Put
  <1>8. PICK r : r = PutUpdated(res, k, v)
    OBVIOUS
  <1>9. r.updated = pu /\ r.added = res.added
    BY <1>1, <1>4, <1>8 DEF PutUpdated, Resolves, Resolution
  <1>10. w.entries = ps /\ w.revision = rev /\ w.changed = TRUE /\ w \in MergeState
    BY <1>2, <1>6 DEF Wrote, Merges
  <1>11. /\ DOMAIN res.added \cap DOMAIN ents = {}
         /\ DOMAIN res.updated \subseteq DOMAIN ents
    BY DEF Resolves
  <1>12. DOMAIN ps = DOMAIN ents \cup DOMAIN res.added
    BY <1>2, <1>7 DEF Merges
  <1>13. \A y \in DOMAIN res.added : ps[y] = Stamp(res.added[y], rev + 1, rev + 1)
    BY <1>2, <1>7, <1>11 DEF Merges
  <1>14. \A y \in DOMAIN pu : ps[y] = Stamp(pu[y], ents[y].added_rev, rev + 1)
    BY <1>1, <1>2, <1>5, <1>7, <1>11 DEF Merges
  <1>15. \A y \in DOMAIN ents \ DOMAIN pu : ps[y] = ents[y]
    BY <1>1, <1>2, <1>5, <1>7 DEF Merges
  <1>16. DOMAIN pu # {}
    BY <1>5
  <1>17. w.changed = (DOMAIN r.added # {} \/ DOMAIN r.updated # {})
    BY <1>9, <1>10, <1>16
  <1>. QED
    BY <1>8, <1>9, <1>10, <1>12, <1>13, <1>14, <1>15, <1>17 DEF Merges

\* One DataPoint keeps the two folds together.
LEMMA MergeOneMore ==
  ASSUME NEW copy \in EntryMap, NEW ents \in EntryMap, Same(copy, ents),
         NEW rev \in Nat, NEW res, Resolves(copy, res),
         NEW s, Merges(ents, rev, res, s), NEW o \in Observations
  PROVE  Merges(ents, rev, ResolveOne(copy, res, o), WriteOne(s, o))
  <1>1. PICK k \in Identity, t \in Time : o = Observation(k, t)
    BY DEF Observations
  <1>2. PICK r : r = ResolveOne(copy, res, o)
    OBVIOUS
  <1>3. PICK w : w = WriteOne(s, o)
    OBVIOUS
  <1>4. OneResolved(copy, res, k, t, r)
    BY <1>1, <1>2, ResolveOneCases
  <1>5. s \in MergeState /\ s.revision = rev /\ s.entries \in EntryMap
    BY DEF Merges, MergeState
  <1>6. OneWritten(s, k, t, w)
    BY <1>1, <1>3, <1>5, WriteOneCases
  <1>7. DOMAIN copy = DOMAIN ents
    BY DEF Same
  <1>8. Resolves(ents, res)
    BY <1>7 DEF Resolves
  <1>9. /\ res \in Resolution
        /\ res.added \in RetrievedMap /\ res.updated \in RetrievedMap
        /\ DOMAIN res.added \cap DOMAIN ents = {}
        /\ DOMAIN res.updated \subseteq DOMAIN ents
    BY <1>8 DEF Resolves, Resolution
  <1>10. t \in Nat
    BY MirrorAssumption
  <1>11. CASE k \in DOMAIN res.added
    <2>1. PICK d \in Retrieved : d = res.added[k]
      BY <1>9, <1>11, RetrievedMapFacts
    <2>2. PICK y : y = s.entries[k]
      OBVIOUS
    <2>3. /\ k \in DOMAIN s.entries /\ k \notin DOMAIN ents
          /\ y = Stamp(d, rev + 1, rev + 1)
      BY <1>9, <1>11, <2>1, <2>2 DEF Merges
    <2>4. d.first \in Time /\ d.last \in Time
      BY DEF Retrieved
    <2>5. y.last = d.last
      BY <2>3 DEF Stamp
    <2>6. PICK v : v = reobserved(d, t)
      OBVIOUS
    <2>7. /\ v \in Retrieved /\ v.first = d.first
          /\ v.last = IF t > d.last THEN t ELSE d.last
          /\ ~(t > d.last) => v = d
      BY <2>6, Reobserving
    <2>8. r = PutAdded(res, k, v)
      BY <1>4, <1>11, <2>1, <2>6 DEF OneResolved
    <2>9. CASE t > d.last
      <3>1. Restamp(y, t, rev + 1) = Stamp(v, rev + 1, rev + 1)
        <4>1. PICK n \in Nat : n = rev + 1
          OBVIOUS
        <4>2. y \in Entry /\ y.added_rev = n /\ y.first = d.first
          BY <2>3, <2>4, <4>1, StampFacts
        <4>. QED
          BY <2>7, <2>9, <4>1, <4>2, Restamped
      <3>2. Wrote(s, k, Stamp(v, rev + 1, rev + 1), w)
        BY <1>5, <1>6, <2>2, <2>3, <2>5, <2>9, <3>1 DEF OneWritten
      <3>3. Merges(ents, rev, PutAdded(res, k, v), w)
        BY <1>8, <2>3, <2>7, <3>2, MergePutAdded
      <3>. QED
        BY <1>2, <1>3, <2>8, <3>3
    <2>10. CASE ~(t > d.last)
      <3>1. r = res
        BY <1>9, <1>11, <2>1, <2>7, <2>8, <2>10, PutSame
      <3>2. w = s
        BY <1>6, <2>2, <2>3, <2>5, <2>10 DEF OneWritten
      <3>. QED
        BY <1>2, <1>3, <3>1, <3>2
    <2>. QED
      BY <2>9, <2>10
  <1>12. CASE k \in DOMAIN res.updated
    <2>1. PICK d \in Retrieved : d = res.updated[k]
      BY <1>9, <1>12, RetrievedMapFacts
    <2>2. PICK y : y = s.entries[k]
      OBVIOUS
    <2>3. PICK a : a = ents[k].added_rev
      OBVIOUS
    <2>4. /\ k \in DOMAIN s.entries /\ k \in DOMAIN ents
          /\ y = Stamp(d, a, rev + 1)
      BY <1>9, <1>12, <2>1, <2>2, <2>3 DEF Merges
    <2>5. d.first \in Time /\ d.last \in Time
      BY DEF Retrieved
    <2>6. y.last = d.last
      BY <2>4 DEF Stamp
    <2>7. PICK v : v = reobserved(d, t)
      OBVIOUS
    <2>8. /\ v \in Retrieved /\ v.first = d.first
          /\ v.last = IF t > d.last THEN t ELSE d.last
          /\ ~(t > d.last) => v = d
      BY <2>7, Reobserving
    <2>9. r = PutUpdated(res, k, v)
      BY <1>4, <1>12, <2>1, <2>7 DEF OneResolved
    <2>10. CASE t > d.last
      <3>1. Restamp(y, t, rev + 1) = Stamp(v, a, rev + 1)
        <4>1. PICK n \in Nat : n = rev + 1
          OBVIOUS
        <4>2. a \in Nat
          BY <2>3, <2>4, EntryMapFacts DEF Entry
        <4>3. y \in Entry /\ y.added_rev = a /\ y.first = d.first
          BY <2>4, <2>5, <4>1, <4>2, StampFacts
        <4>. QED
          BY <2>8, <2>10, <4>1, <4>3, Restamped
      <3>2. Wrote(s, k, Stamp(v, a, rev + 1), w)
        BY <1>5, <1>6, <2>2, <2>4, <2>6, <2>10, <3>1 DEF OneWritten
      <3>3. Merges(ents, rev, PutUpdated(res, k, v), w)
        BY <1>8, <2>3, <2>4, <2>8, <3>2, MergePutUpdated
      <3>. QED
        BY <1>2, <1>3, <2>9, <3>3
    <2>11. CASE ~(t > d.last)
      <3>1. r = res
        BY <1>9, <1>12, <2>1, <2>8, <2>9, <2>11, PutSame
      <3>2. w = s
        BY <1>6, <2>2, <2>4, <2>6, <2>11 DEF OneWritten
      <3>. QED
        BY <1>2, <1>3, <3>1, <3>2
    <2>. QED
      BY <2>10, <2>11
  <1>13. CASE k \notin DOMAIN res.added /\ k \notin DOMAIN ents
    <2>1. PICK v : v = DataPoint(t)
      OBVIOUS
    <2>2. v \in Retrieved /\ NewEntry(t, rev + 1) = Stamp(v, rev + 1, rev + 1)
      BY <2>1 DEF DataPoint, Retrieved, NewEntry, Stamp
    <2>3. r = PutAdded(res, k, v)
      BY <1>4, <1>7, <1>13, <2>1 DEF OneResolved
    <2>4. k \notin DOMAIN s.entries
      BY <1>13 DEF Merges
    <2>5. Wrote(s, k, Stamp(v, rev + 1, rev + 1), w)
      BY <1>5, <1>6, <2>2, <2>4 DEF OneWritten
    <2>6. Merges(ents, rev, PutAdded(res, k, v), w)
      BY <1>8, <1>13, <2>2, <2>5, MergePutAdded
    <2>. QED
      BY <1>2, <1>3, <2>3, <2>6
  <1>14. CASE k \in DOMAIN ents /\ k \notin DOMAIN res.updated
    <2>1. PICK y \in Entry : y = ents[k]
      BY <1>14, EntryMapFacts
    <2>2. k \in DOMAIN s.entries /\ s.entries[k] = y
      BY <1>14, <2>1 DEF Merges
    <2>3. copy[k].first = y.first /\ copy[k].last = y.last
      BY <1>7, <1>14, <2>1 DEF Same
    <2>4. PICK v : v = [first |-> y.first, last |-> t]
      OBVIOUS
    <2>5. v \in Retrieved /\ v.first = y.first /\ v.last = t
      BY <2>4 DEF Entry, Retrieved
    <2>6. r = IF t > y.last THEN PutUpdated(res, k, v) ELSE res
      BY <1>4, <1>7, <1>14, <2>3, <2>4 DEF OneResolved
    <2>7. CASE t > y.last
      <3>1. Restamp(y, t, rev + 1) = Stamp(v, y.added_rev, rev + 1)
        <4>1. PICK n \in Nat : n = rev + 1
          OBVIOUS
        <4>. QED
          BY <2>5, <4>1, Restamped
      <3>2. Wrote(s, k, Stamp(v, y.added_rev, rev + 1), w)
        BY <1>5, <1>6, <2>2, <2>7, <3>1 DEF OneWritten
      <3>3. Merges(ents, rev, PutUpdated(res, k, v), w)
        BY <1>8, <1>14, <2>1, <2>5, <3>2, MergePutUpdated
      <3>. QED
        BY <1>2, <1>3, <2>6, <2>7, <3>3
    <2>8. CASE ~(t > y.last)
      <3>1. w = s
        BY <1>6, <2>2, <2>8 DEF OneWritten
      <3>. QED
        BY <1>2, <1>3, <2>6, <2>8, <3>1
    <2>. QED
      BY <2>7, <2>8
  <1>. QED
    BY <1>11, <1>12, <1>13, <1>14

LEMMA FoldsAgree ==
  ASSUME NEW copy \in EntryMap, NEW ents \in EntryMap, Same(copy, ents),
         NEW rev \in Nat, NEW batch \in Seq(Observations)
  PROVE  Merges(ents, rev, resolve(copy, batch), WriteFold(ents, rev, batch))
  <1>1. PICK g : /\ IsTrace(g, "resolve", copy, NothingResolved, batch)
                 /\ g[Len(batch)] = resolve(copy, batch)
    BY ResolveTrace
  <1>2. PICK base : base = [entries |-> ents, revision |-> rev, changed |-> FALSE]
    OBVIOUS
  <1>3. PICK h : /\ IsTrace(h, "write", ents, base, batch)
                 /\ h[Len(batch)] = WriteFold(ents, rev, batch)
    BY <1>2, WriteTrace
  <1> DEFINE Agree(n) == Resolves(copy, g[n]) /\ Merges(ents, rev, g[n], h[n])
             Bad == {n \in 0..Len(batch) : ~Agree(n)}
  <1>4. SUFFICES ASSUME Bad # {} PROVE FALSE
    BY <1>1, <1>3
  <1>5. PICK n \in Bad : \A m \in Bad : n <= m
    <2>1. Bad \in SUBSET Nat
      OBVIOUS
    <2> HIDE DEF Bad
    <2>. QED
      BY <1>4, <2>1, LeastNumber
  <1>6. n \in 0..Len(batch) /\ ~Agree(n) /\ Len(batch) \in Nat
    BY <1>5
  <1>7. CASE n = 0
    <2>1. g[0] = NothingResolved /\ h[0] = base
      BY <1>1, <1>3 DEF IsTrace
    <2>2. Resolves(copy, NothingResolved)
      BY Empty DEF Resolves, Resolution, NothingResolved
    <2>3. base \in MergeState /\ base.entries = ents /\ base.revision = rev
      BY <1>2 DEF MergeState
    <2>4. base.changed = FALSE
      BY <1>2
    <2>5. DOMAIN NothingResolved.added = {} /\ DOMAIN NothingResolved.updated = {}
      BY Empty DEF NothingResolved
    <2>6. base.changed = (DOMAIN NothingResolved.added # {} \/ DOMAIN NothingResolved.updated # {})
      BY <2>4, <2>5, Zenon
    <2>7. Merges(ents, rev, NothingResolved, base)
      BY <2>3, <2>5, <2>6 DEF Merges
    <2>. QED
      BY <1>6, <1>7, <2>1, <2>2, <2>7
  <1>8. CASE n # 0
    <2>1. n \in 1..Len(batch) /\ n - 1 \in 0..Len(batch) /\ ~(n <= n - 1)
      BY <1>6, <1>8
    <2>2. Agree(n - 1)
      BY <1>5, <2>1
    <2>3. batch[n] \in Observations
      BY <2>1
    <2>4. g[n] = ResolveOne(copy, g[n - 1], batch[n]) /\ h[n] = WriteOne(h[n - 1], batch[n])
      BY <1>1, <1>3, <2>1 DEF IsTrace, FoldStep
    <2>5. Resolves(copy, g[n])
      BY <2>2, <2>3, <2>4, ResolveOneResolves
    <2>6. Merges(ents, rev, g[n], h[n])
      BY <2>2, <2>3, <2>4, MergeOneMore
    <2>. QED
      BY <1>6, <2>5, <2>6
  <1>. QED
    BY <1>7, <1>8

\* mirror.py _resolve and store.py apply_resolved against store.py write.
LEMMA ResolveThenApplyIsWrite ==
  ASSUME NEW copy \in EntryMap, NEW ents \in EntryMap, Same(copy, ents),
         NEW rev \in Nat, NEW batch \in Seq(Observations),
         NEW res, res = resolve(copy, batch)
  PROVE  apply_resolved(ents, rev, res.added, res.updated) = write(ents, rev, batch)
  <1>1. PICK s : s = WriteFold(ents, rev, batch)
    OBVIOUS
  <1>2. write(ents, rev, batch) = [entries |-> s.entries,
                                   revision |-> IF s.changed THEN rev + 1 ELSE rev]
    BY <1>1 DEF write, WriteFold
  <1>3. Merges(ents, rev, res, s)
    BY <1>1, FoldsAgree
  <1>4. Resolves(copy, res)
    BY ResolveResolves
  <1>5. /\ DOMAIN res.added \cap DOMAIN ents = {}
        /\ DOMAIN res.updated \subseteq DOMAIN ents
    BY <1>4 DEF Resolves, Same
  <1>6. PICK fs \in EntryMap : fs = s.entries
    BY <1>3 DEF Merges, MergeState
  <1>7. fs = [k \in DOMAIN fs |-> fs[k]] /\ ents = [k \in DOMAIN ents |-> ents[k]]
    BY EntryMapFacts
  <1>8. CASE DOMAIN res.added = {} /\ DOMAIN res.updated = {}
    <2>1. s.changed = FALSE
      BY <1>3, <1>8 DEF Merges
    <2>2. DOMAIN fs = DOMAIN ents /\ \A k \in DOMAIN ents : fs[k] = ents[k]
      BY <1>3, <1>6, <1>8 DEF Merges
    <2>3. fs = ents
      BY <1>7, <2>2
    <2>. QED
      BY <1>2, <1>6, <1>8, <2>1, <2>3 DEF apply_resolved
  <1>9. CASE ~(DOMAIN res.added = {} /\ DOMAIN res.updated = {})
    <2>1. s.changed = TRUE
      BY <1>3, <1>9 DEF Merges
    <2> DEFINE Applied == [k \in DOMAIN ents \cup DOMAIN res.added \cup DOMAIN res.updated |->
                 IF k \in DOMAIN res.updated
                 THEN updated_entry(ents, res.updated[k], k, rev + 1)
                 ELSE IF k \in DOMAIN res.added
                 THEN [first |-> res.added[k].first, last |-> res.added[k].last,
                       added_rev |-> rev + 1, updated_rev |-> rev + 1]
                 ELSE ents[k]]
    <2>2. apply_resolved(ents, rev, res.added, res.updated)
            = [entries |-> Applied, revision |-> rev + 1]
      BY <1>9 DEF apply_resolved
    <2>3. DOMAIN fs = DOMAIN ents \cup DOMAIN res.added \cup DOMAIN res.updated
      BY <1>3, <1>5, <1>6 DEF Merges
    <2>4. ASSUME NEW k \in DOMAIN fs PROVE fs[k] = Applied[k]
      <3>1. CASE k \in DOMAIN res.updated
        <4>1. fs[k] = Stamp(res.updated[k], ents[k].added_rev, rev + 1)
          BY <1>3, <1>6, <3>1 DEF Merges
        <4>2. k \in DOMAIN ents
          BY <1>5, <3>1
        <4>. QED
          BY <2>3, <2>4, <3>1, <4>1, <4>2 DEF Stamp, updated_entry
      <3>2. CASE k \notin DOMAIN res.updated /\ k \in DOMAIN res.added
        <4>1. fs[k] = Stamp(res.added[k], rev + 1, rev + 1)
          BY <1>3, <1>6, <3>2 DEF Merges
        <4>. QED
          BY <2>3, <2>4, <3>2, <4>1 DEF Stamp
      <3>3. CASE k \notin DOMAIN res.updated /\ k \notin DOMAIN res.added
        <4>1. k \in DOMAIN ents /\ fs[k] = ents[k]
          BY <1>3, <1>5, <1>6, <2>3, <3>3 DEF Merges
        <4>. QED
          BY <2>3, <2>4, <3>3, <4>1
      <3>. QED
        BY <3>1, <3>2, <3>3
    <2>5. DOMAIN Applied = DOMAIN fs /\ Applied = [k \in DOMAIN Applied |-> Applied[k]]
      BY <2>3
    <2>6. fs = Applied
      <3> HIDE DEF Applied
      <3>. QED
        BY <1>7, <2>4, <2>5
    <2> HIDE DEF Applied
    <2>. QED
      BY <1>2, <1>6, <2>1, <2>2, <2>6
  <1>. QED
    BY <1>8, <1>9

-----------------------------------------------------------------------------
(* The inductive invariant.                                                *)

Copy == [entries : EntryMap, revision : Nat, rehydrated_at : Nat]
ChangeSet == [added : SUBSET Identity, updated : SUBSET Identity]
Baselines == UNION {[D -> ChangeSet] : D \in SUBSET Nat}

\* Every entry was added by a write of the store, and not after its update.
Stamped(ents, rev) ==
    \A k \in DOMAIN ents : /\ 1 <= ents[k].added_rev
                           /\ ents[k].added_rev <= ents[k].updated_rev
                           /\ ents[k].updated_rev <= rev

StateOK ==
    /\ entries \in EntryMap
    /\ revision \in 0..MaxRevision
    /\ minted \in Nat
    /\ max_epoch \in 0..minted
    /\ watermarks \in [Operator -> Nat \cup {Never}]
    /\ phase \in [Epoch -> Phase]
    /\ mirror \in [Epoch -> Copy]
    /\ baselines \in [Epoch -> Baselines]
    /\ slipped \subseteq Epoch
    /\ Stamped(entries, revision)

\* A run's copy never knows of an identity, or of a revision, that the store
\* has not: what it adds, the store adds in the same step.
CopyBehind(m, ents, rev) ==
    /\ DOMAIN m.entries \subseteq DOMAIN ents
    /\ m.rehydrated_at <= m.revision
    /\ m.revision <= rev

Unstamped(ents) ==
    \A k \in DOMAIN ents : ents[k].added_rev = 0 /\ ents[k].updated_rev = 0

\* A stamp of the copy is the store's if the run itself wrote it, else 0.
StampsKept(m, ents) ==
    \A k \in DOMAIN ents :
        /\ m.entries[k].added_rev = IF ents[k].added_rev > m.rehydrated_at
                                    THEN ents[k].added_rev ELSE 0
        /\ m.entries[k].updated_rev = IF ents[k].updated_rev > m.rehydrated_at
                                      THEN ents[k].updated_rev ELSE 0

\* A primed split, overlaid with the stamps of the copy, is the store's.
SplitKept(m, b, since, ents) ==
    \A k \in DOMAIN ents :
        /\ ents[k].added_rev > since <=>
              m.entries[k].added_rev > since \/ k \in b.added
        /\ (ents[k].added_rev <= since /\ since < ents[k].updated_rev) <=>
              /\ ~(m.entries[k].added_rev > since \/ k \in b.added)
              /\ k \in b.updated \/ m.entries[k].updated_rev > since

BaselinesKept(m, bs, ents) ==
    \A since \in DOMAIN bs : /\ since < m.rehydrated_at
                             /\ SplitKept(m, bs[since], since, ents)

\* A run nobody above has fenced, and whose reads no predecessor slipped a
\* write behind.
Undisturbed(e) == max_epoch <= e /\ e \notin slipped

RunOK(e) ==
    /\ phase[e] # "none" => e <= minted
    /\ CopyBehind(mirror[e], entries, revision)
    /\ phase[e] = "snapshotted" => Unstamped(mirror[e].entries)
    /\ phase[e] \in {"snapshotted", "live"} /\ Undisturbed(e) =>
         Same(mirror[e].entries, entries)
    /\ phase[e] = "live" /\ Undisturbed(e) =>
         /\ mirror[e].revision = revision
         /\ StampsKept(mirror[e], entries)
         /\ BaselinesKept(mirror[e], baselines[e], entries)

MirrorInv == StateOK /\ \A e \in Epoch : RunOK(e)

-----------------------------------------------------------------------------
(* One write, as the store and the writer's copy take it.                  *)

\* f is ents with a resolution laid over it at revision rev.
Applied(ents, res, rev, f) ==
    /\ f \in EntryMap
    /\ DOMAIN f = DOMAIN ents \cup DOMAIN res.added
    /\ \A k \in DOMAIN res.added : f[k] = Stamp(res.added[k], rev, rev)
    /\ \A k \in DOMAIN res.updated : f[k] = Stamp(res.updated[k], ents[k].added_rev, rev)
    /\ \A k \in DOMAIN ents \ (DOMAIN res.added \cup DOMAIN res.updated) : f[k] = ents[k]

LEMMA AppliedTyped ==
  ASSUME NEW ents \in EntryMap, NEW res \in Resolution, NEW rev \in Nat, NEW f,
         DOMAIN res.updated \subseteq DOMAIN ents,
         DOMAIN res.added \cap DOMAIN res.updated = {},
         f = [k \in DOMAIN f |-> f[k]],
         DOMAIN f = DOMAIN ents \cup DOMAIN res.added,
         \A k \in DOMAIN res.added : f[k] = Stamp(res.added[k], rev, rev),
         \A k \in DOMAIN res.updated : f[k] = Stamp(res.updated[k], ents[k].added_rev, rev),
         \A k \in DOMAIN ents \ (DOMAIN res.added \cup DOMAIN res.updated) : f[k] = ents[k]
  PROVE  Applied(ents, res, rev, f)
  <1>1. res.added \in RetrievedMap /\ res.updated \in RetrievedMap
    BY DEF Resolution
  <1>2. DOMAIN f \in SUBSET Identity
    BY <1>1, EntryMapFacts, RetrievedMapFacts
  <1>3. ASSUME NEW k \in DOMAIN f PROVE f[k] \in Entry
    <2>1. CASE k \in DOMAIN res.added
      <3>1. PICK d \in Retrieved : d = res.added[k]
        BY <1>1, <2>1, RetrievedMapFacts
      <3>2. Stamp(d, rev, rev) \in Entry
        BY StampFacts DEF Retrieved
      <3>. QED
        BY <2>1, <3>1, <3>2
    <2>2. CASE k \in DOMAIN res.updated
      <3>1. PICK d \in Retrieved : d = res.updated[k]
        BY <1>1, <2>2, RetrievedMapFacts
      <3>2. PICK a \in Nat : a = ents[k].added_rev
        BY <2>2, EntryMapFacts DEF Entry
      <3>3. Stamp(d, a, rev) \in Entry
        BY StampFacts DEF Retrieved
      <3>. QED
        BY <2>2, <3>1, <3>2, <3>3
    <2>3. CASE k \notin DOMAIN res.added /\ k \notin DOMAIN res.updated
      BY <2>3, EntryMapFacts
    <2>. QED
      BY <2>1, <2>2, <2>3
  <1>4. f \in [DOMAIN f -> Entry]
    BY <1>3
  <1>5. f \in EntryMap
    BY <1>2, <1>4, EntryMapFacts
  <1>. QED
    BY <1>5 DEF Applied

\* apply_resolved: one revision for the whole batch, none for an empty one.
LEMMA StoreApplies ==
  ASSUME NEW ents \in EntryMap, NEW rev \in Nat, NEW res \in Resolution,
         DOMAIN res.updated \subseteq DOMAIN ents,
         DOMAIN res.added \cap DOMAIN res.updated = {},
         NEW post, post = apply_resolved(ents, rev, res.added, res.updated)
  PROVE  /\ post.revision \in Nat
         /\ Applied(ents, res, post.revision, post.entries)
         /\ \/ post.revision = rev + 1
            \/ /\ post.revision = rev /\ post.entries = ents
               /\ DOMAIN res.added = {} /\ DOMAIN res.updated = {}
  <1>1. ents = [k \in DOMAIN ents |-> ents[k]]
    BY EntryMapFacts
  <1>2. CASE DOMAIN res.added = {} /\ DOMAIN res.updated = {}
    <2>1. post.entries = ents /\ post.revision = rev
      BY <1>2 DEF apply_resolved
    <2>2. Applied(ents, res, rev, ents)
      BY <1>1, <1>2, AppliedTyped
    <2>. QED
      BY <1>2, <2>1, <2>2
  <1>3. CASE ~(DOMAIN res.added = {} /\ DOMAIN res.updated = {})
    <2>1. PICK n \in Nat : n = rev + 1
      OBVIOUS
    <2>2. PICK f : f = [k \in DOMAIN ents \cup DOMAIN res.added \cup DOMAIN res.updated |->
                 IF k \in DOMAIN res.updated
                 THEN updated_entry(ents, res.updated[k], k, n)
                 ELSE IF k \in DOMAIN res.added
                 THEN [first |-> res.added[k].first, last |-> res.added[k].last,
                       added_rev |-> n, updated_rev |-> n]
                 ELSE ents[k]]
      OBVIOUS
    <2>3. post.entries = f /\ post.revision = n
      BY <1>3, <2>1, <2>2 DEF apply_resolved
    <2>4. DOMAIN f = DOMAIN ents \cup DOMAIN res.added /\ f = [k \in DOMAIN f |-> f[k]]
      BY <2>2
    <2>5. \A k \in DOMAIN res.added : f[k] = Stamp(res.added[k], n, n)
      BY <2>2 DEF Stamp
    <2>6. \A k \in DOMAIN res.updated : f[k] = Stamp(res.updated[k], ents[k].added_rev, n)
      BY <2>2 DEF Stamp, updated_entry
    <2>7. \A k \in DOMAIN ents \ (DOMAIN res.added \cup DOMAIN res.updated) : f[k] = ents[k]
      BY <2>2
    <2>8. Applied(ents, res, n, f)
      BY <2>4, <2>5, <2>6, <2>7, AppliedTyped
    <2>. QED
      BY <2>1, <2>3, <2>8
  <1>. QED
    BY <1>2, <1>3

\* _apply on the writer's copy.
LEMMA CopyApplies ==
  ASSUME NEW m \in Copy, NEW rev \in Nat, NEW res, Resolves(m.entries, res),
         NEW n, n = apply(m, res, rev)
  PROVE  /\ n \in Copy /\ n.revision = rev /\ n.rehydrated_at = m.rehydrated_at
         /\ Applied(m.entries, res, rev, n.entries)
  <1>1. PICK ents \in EntryMap : ents = m.entries
    BY DEF Copy
  <1>2. /\ res \in Resolution /\ DOMAIN res.updated \subseteq DOMAIN ents
        /\ DOMAIN res.added \cap DOMAIN ents = {}
        /\ DOMAIN res.added \cap DOMAIN res.updated = {}
    BY <1>1 DEF Resolves
  <1>3. PICK f : f = [k \in DOMAIN ents \cup DOMAIN res.added |->
           IF k \in DOMAIN res.added
           THEN [first |-> res.added[k].first, last |-> res.added[k].last,
                 added_rev |-> rev, updated_rev |-> rev]
           ELSE IF k \in DOMAIN res.updated
           THEN [ents[k] EXCEPT !.first = res.updated[k].first,
                                !.last = res.updated[k].last,
                                !.updated_rev = rev]
           ELSE ents[k]]
    OBVIOUS
  <1>4. n = [m EXCEPT !.entries = f, !.revision = rev]
    BY <1>1, <1>3 DEF apply
  <1>5. DOMAIN f = DOMAIN ents \cup DOMAIN res.added /\ f = [k \in DOMAIN f |-> f[k]]
    BY <1>3
  <1>6. \A k \in DOMAIN res.added : f[k] = Stamp(res.added[k], rev, rev)
    BY <1>3 DEF Stamp
  <1>7. ASSUME NEW k \in DOMAIN res.updated
        PROVE  f[k] = Stamp(res.updated[k], ents[k].added_rev, rev)
    <2>1. PICK y \in Entry : y = ents[k]
      BY <1>2, <1>7, EntryMapFacts
    <2>2. PICK d \in Retrieved : d = res.updated[k]
      BY <1>2, <1>7, RetrievedMapFacts DEF Resolution
    <2>3. PICK x : x = [y EXCEPT !.first = d.first, !.last = d.last, !.updated_rev = rev]
      OBVIOUS
    <2>4. k \in DOMAIN ents /\ k \notin DOMAIN res.added
      BY <1>2, <1>7
    <2>5. f[k] = x
      BY <1>3, <1>7, <2>1, <2>2, <2>3, <2>4
    <2>6. /\ x \in Entry /\ x.first = d.first /\ x.last = d.last
          /\ x.added_rev = y.added_rev /\ x.updated_rev = rev
      BY <2>3 DEF Entry, Retrieved
    <2>7. PICK a \in Nat : a = y.added_rev
      BY DEF Entry
    <2>8. PICK z : z = Stamp(d, a, rev)
      OBVIOUS
    <2>9. /\ z \in Entry /\ z.first = d.first /\ z.last = d.last
          /\ z.added_rev = a /\ z.updated_rev = rev
      BY <2>8, StampFacts DEF Retrieved
    <2>10. x = z
      BY <2>6, <2>7, <2>9, EntryEquality
    <2>. QED
      BY <2>1, <2>2, <2>5, <2>7, <2>8, <2>10
  <1>8. \A k \in DOMAIN ents \ (DOMAIN res.added \cup DOMAIN res.updated) : f[k] = ents[k]
    BY <1>3
  <1>9. Applied(ents, res, rev, f)
    BY <1>2, <1>5, <1>6, <1>7, <1>8, AppliedTyped
  <1>10. f \in EntryMap
    BY <1>9 DEF Applied
  <1>. QED
    BY <1>1, <1>4, <1>9, <1>10 DEF Copy

\* The store stays well stamped and the writer's copy stays behind it,
\* whether or not the copy was in step.
LEMMA WriteStamps ==
  ASSUME NEW m \in Copy, NEW ents \in EntryMap, NEW rev \in Nat,
         CopyBehind(m, ents, rev), Stamped(ents, rev),
         NEW res, Resolves(m.entries, res), NEW to \in Nat, rev <= to,
         NEW f, Applied(ents, res, to, f),
         NEW n, n.revision = to, n.rehydrated_at = m.rehydrated_at,
         Applied(m.entries, res, to, n.entries),
         to = rev => DOMAIN res.added = {} /\ DOMAIN res.updated = {}
  PROVE  Stamped(f, to) /\ CopyBehind(n, f, to)
  <1>1. /\ DOMAIN m.entries \subseteq DOMAIN ents
        /\ m.rehydrated_at <= m.revision /\ m.revision <= rev
        /\ m.rehydrated_at \in Nat /\ m.revision \in Nat
    BY DEF CopyBehind, Copy
  <1>2. DOMAIN f = DOMAIN ents \cup DOMAIN res.added
    BY DEF Applied
  <1>3. DOMAIN n.entries = DOMAIN m.entries \cup DOMAIN res.added
    BY DEF Applied
  <1>4. CopyBehind(n, f, to)
    <2>1. DOMAIN n.entries \subseteq DOMAIN f
      BY <1>1, <1>2, <1>3
    <2>2. n.rehydrated_at <= to
      BY <1>1
    <2>. QED
      BY <2>1, <2>2 DEF CopyBehind
  <1>5. ASSUME NEW k \in DOMAIN f
        PROVE  1 <= f[k].added_rev /\ f[k].added_rev <= f[k].updated_rev /\ f[k].updated_rev <= to
    <2>1. CASE k \in DOMAIN res.added
      <3>0. f[k] = Stamp(res.added[k], to, to)
        BY <2>1 DEF Applied
      <3>1. f[k].added_rev = to /\ f[k].updated_rev = to
        BY <3>0 DEF Stamp
      <3>2. to # rev
        BY <2>1
      <3>. QED
        BY <3>1, <3>2
    <2>2. CASE k \in DOMAIN res.updated
      <3>0. f[k] = Stamp(res.updated[k], ents[k].added_rev, to)
        BY <2>2 DEF Applied
      <3>1. f[k].added_rev = ents[k].added_rev /\ f[k].updated_rev = to
        BY <3>0 DEF Stamp
      <3>2. k \in DOMAIN ents
        BY <1>1, <2>2 DEF Resolves
      <3>3. PICK a \in Nat : a = ents[k].added_rev
        BY <3>2, EntryMapFacts DEF Entry
      <3>4. PICK u \in Nat : u = ents[k].updated_rev
        BY <3>2, EntryMapFacts DEF Entry
      <3>5. 1 <= a /\ a <= u /\ u <= rev
        BY <3>2, <3>3, <3>4 DEF Stamped
      <3>. QED
        BY <3>1, <3>3, <3>5
    <2>3. CASE k \notin DOMAIN res.added /\ k \notin DOMAIN res.updated
      <3>1. k \in DOMAIN ents /\ f[k] = ents[k]
        BY <1>2, <2>3 DEF Applied
      <3>2. PICK u \in Nat : u = ents[k].updated_rev
        BY <3>1, EntryMapFacts DEF Entry
      <3>3. 1 <= ents[k].added_rev /\ ents[k].added_rev <= u /\ u <= rev
        BY <3>1, <3>2 DEF Stamped
      <3>. QED
        BY <3>1, <3>2, <3>3
    <2>. QED
      BY <2>1, <2>2, <2>3
  <1>. QED
    BY <1>4, <1>5 DEF Stamped

\* A copy that was in step stays in step: contents, stamps and every primed
\* split.
LEMMA WriteStaysInStep ==
  ASSUME NEW m \in Copy, NEW ents \in EntryMap, NEW rev \in Nat,
         CopyBehind(m, ents, rev), NEW bs \in Baselines,
         Same(m.entries, ents), StampsKept(m, ents), BaselinesKept(m, bs, ents),
         NEW res, Resolves(m.entries, res), NEW to \in Nat, rev <= to,
         NEW f, Applied(ents, res, to, f),
         NEW n, n.revision = to, n.rehydrated_at = m.rehydrated_at,
         Applied(m.entries, res, to, n.entries),
         to = rev => DOMAIN res.added = {} /\ DOMAIN res.updated = {}
  PROVE  Same(n.entries, f) /\ StampsKept(n, f) /\ BaselinesKept(n, bs, f)
  <1>1. PICK M \in EntryMap : M = m.entries
    BY DEF Copy
  <1>2. PICK N : N = n.entries
    OBVIOUS
  <1>3. PICK rh \in Nat : rh = m.rehydrated_at
    BY DEF Copy
  <1>4. rh <= rev
    BY <1>3 DEF CopyBehind, Copy
  <1>5. DOMAIN M = DOMAIN ents /\ DOMAIN N = DOMAIN f
        /\ DOMAIN f = DOMAIN ents \cup DOMAIN res.added
        /\ DOMAIN res.added \cap DOMAIN ents = {}
        /\ DOMAIN res.updated \subseteq DOMAIN ents
    BY <1>1, <1>2 DEF Same, Applied, Resolves
  \* How the entry of k changed, in the store and in the copy.
  <1> DEFINE NewIn(k) == /\ f[k].added_rev = to /\ f[k].updated_rev = to
                         /\ N[k].added_rev = to /\ N[k].updated_rev = to
             Touched(k) == /\ f[k].added_rev = ents[k].added_rev /\ f[k].updated_rev = to
                           /\ N[k].added_rev = M[k].added_rev /\ N[k].updated_rev = to
             Kept(k) == f[k] = ents[k] /\ N[k] = M[k]
  <1>6. ASSUME NEW k \in DOMAIN f
        PROVE  /\ f[k].first = N[k].first /\ f[k].last = N[k].last
               /\ \/ NewIn(k) /\ rev < to
                  \/ Touched(k) /\ rev < to /\ k \in DOMAIN ents
                  \/ Kept(k) /\ k \in DOMAIN ents
    <2>1. CASE k \in DOMAIN res.added
      <3>1. f[k] = Stamp(res.added[k], to, to) /\ N[k] = Stamp(res.added[k], to, to)
        BY <1>1, <1>2, <2>1 DEF Applied
      <3>2. rev < to
        <4>1. to # rev
          BY <2>1
        <4>. QED
          BY <4>1
      <3>. QED
        BY <3>1, <3>2 DEF Stamp
    <2>2. CASE k \in DOMAIN res.updated
      <3>1. /\ f[k] = Stamp(res.updated[k], ents[k].added_rev, to)
            /\ N[k] = Stamp(res.updated[k], M[k].added_rev, to)
        BY <1>1, <1>2, <2>2 DEF Applied
      <3>2. rev < to
        <4>1. to # rev
          BY <2>2
        <4>. QED
          BY <4>1
      <3>. QED
        BY <1>5, <2>2, <3>1, <3>2 DEF Stamp
    <2>3. CASE k \notin DOMAIN res.added /\ k \notin DOMAIN res.updated
      <3>1. k \in DOMAIN ents /\ f[k] = ents[k] /\ N[k] = M[k]
        BY <1>1, <1>2, <1>5, <2>3 DEF Applied
      <3>2. ents[k].first = M[k].first /\ ents[k].last = M[k].last
        BY <1>1, <1>5, <3>1 DEF Same
      <3>. QED
        BY <3>1, <3>2
    <2>. QED
      BY <2>1, <2>2, <2>3
  <1>7. Same(n.entries, f)
    BY <1>2, <1>5, <1>6 DEF Same
  <1>8. ASSUME NEW k \in DOMAIN ents
        PROVE  /\ ents[k].added_rev \in Nat /\ ents[k].updated_rev \in Nat
               /\ M[k].added_rev \in Nat /\ M[k].updated_rev \in Nat
               /\ M[k].added_rev = IF ents[k].added_rev > rh THEN ents[k].added_rev ELSE 0
               /\ M[k].updated_rev = IF ents[k].updated_rev > rh THEN ents[k].updated_rev ELSE 0
    <2>1. M[k] \in Entry /\ ents[k] \in Entry
      BY <1>5, EntryMapFacts
    <2>2. /\ M[k].added_rev = IF ents[k].added_rev > rh THEN ents[k].added_rev ELSE 0
          /\ M[k].updated_rev = IF ents[k].updated_rev > rh THEN ents[k].updated_rev ELSE 0
      BY <1>1, <1>3 DEF StampsKept
    <2>. QED
      BY <2>1, <2>2 DEF Entry
  <1>9. ASSUME NEW k \in DOMAIN f
        PROVE  /\ N[k].added_rev = IF f[k].added_rev > rh THEN f[k].added_rev ELSE 0
               /\ N[k].updated_rev = IF f[k].updated_rev > rh THEN f[k].updated_rev ELSE 0
    <2>1. CASE NewIn(k) /\ rev < to
      <3>1. to > rh
        BY <1>4, <2>1
      <3>. QED
        BY <2>1, <3>1
    <2>2. CASE Touched(k) /\ rev < to /\ k \in DOMAIN ents
      <3>1. to > rh
        BY <1>4, <2>2
      <3>. QED
        BY <1>8, <2>2, <3>1
    <2>3. CASE Kept(k) /\ k \in DOMAIN ents
      BY <1>8, <2>3
    <2>. QED
      BY <1>6, <2>1, <2>2, <2>3
  <1>10. StampsKept(n, f)
    BY <1>2, <1>3, <1>9 DEF StampsKept
  <1>11. ASSUME NEW since \in DOMAIN bs
         PROVE  since < n.rehydrated_at /\ SplitKept(n, bs[since], since, f)
    <2>1. since \in Nat
      BY DEF Baselines
    <2>2. since < rh /\ SplitKept(m, bs[since], since, ents)
      BY <1>3 DEF BaselinesKept
    <2>3. PICK b : b = bs[since]
      OBVIOUS
    <2> DEFINE In(E, M1, k) ==
                 /\ E[k].added_rev > since <=> M1[k].added_rev > since \/ k \in b.added
                 /\ (E[k].added_rev <= since /\ since < E[k].updated_rev) <=>
                      /\ ~(M1[k].added_rev > since \/ k \in b.added)
                      /\ k \in b.updated \/ M1[k].updated_rev > since
    <2>4. \A k \in DOMAIN ents : In(ents, M, k)
      BY <1>1, <2>2, <2>3 DEF SplitKept
    <2>5. ASSUME NEW k \in DOMAIN f PROVE In(f, N, k)
      <3>1. CASE NewIn(k) /\ rev < to
        <4>1. to > since /\ ~(to <= since)
          BY <1>4, <2>1, <2>2, <3>1
        <4>. QED
          BY <3>1, <4>1
      <3>2. CASE Touched(k) /\ rev < to /\ k \in DOMAIN ents
        <4>1. to > since
          BY <1>4, <2>1, <2>2, <3>2
        <4>2. ents[k].added_rev > since <=> M[k].added_rev > since \/ k \in b.added
          BY <2>4, <3>2
        <4>3. ents[k].added_rev <= since <=> ~(ents[k].added_rev > since)
          BY <1>8, <2>1, <3>2
        <4>. QED
          BY <2>1, <3>2, <4>1, <4>2, <4>3
      <3>3. CASE Kept(k) /\ k \in DOMAIN ents
        BY <2>4, <3>3
      <3>. QED
        BY <1>6, <3>1, <3>2, <3>3
    <2>. QED
      BY <1>2, <1>3, <2>2, <2>3, <2>5 DEF SplitKept
  <1>. QED
    BY <1>7, <1>10, <1>11 DEF BaselinesKept

-----------------------------------------------------------------------------
(* The invariant is inductive.                                             *)

LEMMA InitMirrorInv == Init => MirrorInv
  <1> SUFFICES ASSUME Init PROVE MirrorInv
    OBVIOUS
  <1>1. NoEntries \in Baselines
    <2>1. NoEntries \in [{} -> ChangeSet]
      BY DEF NoEntries
    <2>. QED
      BY <2>1 DEF Baselines
  <1>2. /\ EmptyMirror \in Copy /\ EmptyMirror.entries = NoEntries
        /\ EmptyMirror.revision = 0 /\ EmptyMirror.rehydrated_at = 0
    BY Empty DEF EmptyMirror, Copy
  <1>3. StateOK
    BY <1>1, <1>2, Empty, MirrorAssumption
    DEF Init, StoreInit, StateOK, Stamped, Phase
  <1>4. ASSUME NEW e \in Epoch PROVE RunOK(e)
    BY <1>2, Empty DEF Init, StoreInit, RunOK, CopyBehind
  <1>. QED
    BY <1>3, <1>4 DEF MirrorInv

\* A step that changes nothing in the store's entries and nothing of run e
\* may raise the fence or the lock's epoch: e stays as it was.
LEMMA RunUntouched ==
  ASSUME StateOK, StateOK', NEW e \in Epoch, RunOK(e),
         entries' = entries, revision' = revision,
         phase'[e] = phase[e], mirror'[e] = mirror[e], baselines'[e] = baselines[e],
         max_epoch <= max_epoch', minted <= minted', slipped \subseteq slipped'
  PROVE  RunOK(e)'
  <1>1. Undisturbed(e)' => Undisturbed(e)
    BY MirrorAssumption DEF Undisturbed, StateOK
  <1>2. e <= minted => e <= minted'
    BY MirrorAssumption DEF StateOK
  <1>. QED
    BY <1>1, <1>2 DEF RunOK

\* A run that moves on without a copy, or gives up, has nothing to keep.
LEMMA RunOutside ==
  ASSUME StateOK, StateOK', NEW e \in Epoch, RunOK(e),
         entries' = entries, revision' = revision, mirror'[e] = mirror[e],
         phase'[e] \in {"acquired", "checked", "stopped"}, e <= minted'
  PROVE  RunOK(e)'
  BY DEF RunOK

LEMMA AcquireStep ==
  ASSUME MirrorInv, NEW f \in Epoch, Acquire(f)
  PROVE  MirrorInv'
  <1>1. f = minted + 1 /\ f \in Nat /\ minted \in Nat
    BY MirrorAssumption DEF Acquire, MirrorInv, StateOK
  <1>2. /\ minted' = f /\ phase' = [phase EXCEPT ![f] = "acquired"]
        /\ UNCHANGED <<entries, revision, max_epoch, watermarks, mirror, baselines, slipped>>
    BY DEF Acquire, storeVars
  <1>3. StateOK /\ \A e \in Epoch : RunOK(e)
    BY DEF MirrorInv
  <1>4. StateOK'
    BY <1>1, <1>2, <1>3 DEF StateOK, Phase
  <1>5. ASSUME NEW e \in Epoch PROVE RunOK(e)'
    <2>1. CASE e = f
      <3>1. phase'[e] = "acquired" /\ e <= minted'
        BY <1>1, <1>2, <1>3, <2>1 DEF StateOK
      <3>. QED
        BY <1>2, <1>3, <1>4, <3>1, RunOutside
    <2>2. CASE e # f
      <3>1. phase'[e] = phase[e] /\ max_epoch <= max_epoch' /\ minted <= minted'
        BY <1>1, <1>2, <1>3, <2>2 DEF StateOK
      <3>. QED
        BY <1>2, <1>3, <1>4, <3>1, RunUntouched
    <2>. QED
      BY <2>1, <2>2
  <1>. QED
    BY <1>4, <1>5 DEF MirrorInv

LEMMA DetectFlowDriftStep ==
  ASSUME MirrorInv, NEW f \in Epoch, NEW flow \in Flow, DetectFlowDrift(f, flow)
  PROVE  MirrorInv'
  <1>1. StateOK /\ \A e \in Epoch : RunOK(e)
    BY DEF MirrorInv
  <1>2. f \in Nat /\ f <= minted
    BY <1>1, MirrorAssumption DEF DetectFlowDrift, RunOK
  <1>3. /\ \E p \in {"checked", "stopped"} : phase' = [phase EXCEPT ![f] = p]
        /\ max_epoch' = max_epoch \/ (max_epoch' = f /\ max_epoch <= f)
        /\ UNCHANGED <<entries, revision, watermarks, minted, mirror, baselines, slipped>>
    BY <1>1, <1>2 DEF DetectFlowDrift, storeVars, set_flow_fingerprint, Accepts, StateOK
  <1>4. max_epoch <= max_epoch' /\ max_epoch' \in 0..minted
    BY <1>1, <1>2, <1>3 DEF StateOK
  <1>5. phase' \in [Epoch -> Phase]
    BY <1>1, <1>3 DEF StateOK, Phase
  <1>6. StateOK'
    BY <1>1, <1>3, <1>4, <1>5 DEF StateOK
  <1>7. ASSUME NEW e \in Epoch PROVE RunOK(e)'
    <2>1. CASE e = f
      <3>1. phase'[e] \in {"checked", "stopped"}
        BY <1>1, <1>3, <2>1 DEF StateOK
      <3>. QED
        BY <1>1, <1>2, <1>3, <1>6, <2>1, <3>1, RunOutside
    <2>2. CASE e # f
      <3>1. phase'[e] = phase[e]
        BY <1>1, <1>3, <2>2 DEF StateOK
      <3>2. minted <= minted'
        BY <1>1, <1>3 DEF StateOK
      <3>. QED
        BY <1>1, <1>3, <1>4, <1>6, <3>1, <3>2, RunUntouched
    <2>. QED
      BY <2>1, <2>2
  <1>. QED
    BY <1>6, <1>7 DEF MirrorInv

LEMMA SupersededStep ==
  ASSUME MirrorInv, NEW f \in Epoch, Superseded(f)
  PROVE  MirrorInv'
  <1>1. StateOK /\ \A e \in Epoch : RunOK(e)
    BY DEF MirrorInv
  <1>2. f <= minted
    BY <1>1 DEF Superseded, RunOK
  <1>3. /\ phase' = [phase EXCEPT ![f] = "stopped"]
        /\ UNCHANGED <<entries, revision, max_epoch, watermarks, minted, mirror, baselines, slipped>>
    BY DEF Superseded, storeVars
  <1>4. StateOK'
    BY <1>1, <1>3 DEF StateOK, Phase
  <1>5. ASSUME NEW e \in Epoch PROVE RunOK(e)'
    <2>1. CASE e = f
      <3>1. phase'[e] = "stopped"
        BY <1>1, <1>3, <2>1 DEF StateOK
      <3>. QED
        BY <1>1, <1>2, <1>3, <1>4, <2>1, <3>1, RunOutside
    <2>2. CASE e # f
      <3>1. phase'[e] = phase[e] /\ minted <= minted' /\ max_epoch <= max_epoch'
        BY <1>1, <1>3, <2>2 DEF StateOK
      <3>. QED
        BY <1>1, <1>3, <1>4, <3>1, RunUntouched
    <2>. QED
      BY <2>1, <2>2
  <1>. QED
    BY <1>4, <1>5 DEF MirrorInv

\* The guarded writes that leave the entries alone raise the fence.
LEMMA FenceStep ==
  ASSUME MirrorInv, NEW f \in Epoch,
         PersistDeadline(f) \/ \E o \in Operator : AdvanceWatermark(f, o)
  PROVE  MirrorInv'
  <1>1. StateOK /\ \A e \in Epoch : RunOK(e)
    BY DEF MirrorInv
  <1>2. phase[f] = "live"
    BY DEF PersistDeadline, AdvanceWatermark
  <1>3. f \in Nat /\ f <= minted
    BY <1>1, <1>2, MirrorAssumption DEF RunOK
  <1>4. /\ max_epoch' = f /\ max_epoch <= f
        /\ UNCHANGED <<entries, revision, minted, phase, mirror, baselines, slipped>>
    BY <1>1, <1>3 DEF PersistDeadline, AdvanceWatermark, set_session_deadline,
       set_watermark, mirrorVars, Accepts, StateOK
  <1>5. watermarks' \in [Operator -> Nat \cup {Never}]
    <2>1. CASE PersistDeadline(f)
      BY <1>1, <2>1 DEF PersistDeadline, set_session_deadline, StateOK
    <2>2. ASSUME NEW o \in Operator, AdvanceWatermark(f, o)
          PROVE  watermarks' \in [Operator -> Nat \cup {Never}]
      <3>1. mirror[f].rehydrated_at \in Nat /\ mirror[f].revision \in Nat
        BY <1>1 DEF StateOK, Copy
      <3>2. PICK rev \in mirror[f].rehydrated_at..mirror[f].revision :
              watermarks' = [watermarks EXCEPT ![o] = rev]
        BY <2>2 DEF AdvanceWatermark, set_watermark
      <3>3. rev \in Nat
        BY <3>1
      <3>. QED
        BY <1>1, <3>2, <3>3 DEF StateOK
    <2>. QED
      BY <2>1, <2>2
  <1>6. StateOK'
    BY <1>1, <1>3, <1>4, <1>5 DEF StateOK
  <1>7. ASSUME NEW e \in Epoch PROVE RunOK(e)'
    <2>1. minted <= minted' /\ max_epoch <= max_epoch'
      BY <1>1, <1>4 DEF StateOK
    <2>. QED
      BY <1>1, <1>4, <1>6, <2>1, RunUntouched
  <1>. QED
    BY <1>6, <1>7 DEF MirrorInv

LEMMA ReadSnapshotStep ==
  ASSUME MirrorInv, NEW f \in Epoch, ReadSnapshot(f)
  PROVE  MirrorInv'
  <1>1. StateOK /\ \A e \in Epoch : RunOK(e)
    BY DEF MirrorInv
  <1>2. f <= minted
    BY <1>1 DEF ReadSnapshot, RunOK
  <1>3. PICK snap : snap = [k \in DOMAIN entries |->
                              [entries[k] EXCEPT !.added_rev = 0, !.updated_rev = 0]]
    OBVIOUS
  <1>4. /\ mirror' = [mirror EXCEPT ![f].entries = snap]
        /\ phase' = [phase EXCEPT ![f] = "snapshotted"]
        /\ UNCHANGED <<entries, revision, max_epoch, watermarks, minted, baselines, slipped>>
    BY <1>3 DEF ReadSnapshot, storeVars
  <1>5. DOMAIN snap = DOMAIN entries
    BY <1>3
  <1>6. ASSUME NEW k \in DOMAIN entries
        PROVE  /\ snap[k] \in Entry
               /\ snap[k].first = entries[k].first /\ snap[k].last = entries[k].last
               /\ snap[k].added_rev = 0 /\ snap[k].updated_rev = 0
    <2>1. PICK y \in Entry : y = entries[k]
      BY <1>1, EntryMapFacts DEF StateOK
    <2>2. PICK x : x = [y EXCEPT !.added_rev = 0, !.updated_rev = 0]
      OBVIOUS
    <2>3. snap[k] = x
      BY <1>3, <2>1, <2>2
    <2>4. /\ x \in Entry /\ x.first = y.first /\ x.last = y.last
          /\ x.added_rev = 0 /\ x.updated_rev = 0
      BY <2>2 DEF Entry
    <2>. QED
      BY <2>1, <2>3, <2>4
  <1>7. snap \in EntryMap
    <2>1. DOMAIN entries \in SUBSET Identity
      BY <1>1, EntryMapFacts DEF StateOK
    <2>2. snap \in [DOMAIN entries -> Entry]
      <3>1. snap = [k \in DOMAIN entries |-> snap[k]]
        BY <1>3
      <3>. QED
        BY <1>6, <3>1
    <2>. QED
      BY <2>1, <2>2, EntryMapFacts
  <1>8. PICK m \in Copy : m = mirror[f]
    BY <1>1 DEF StateOK
  <1>9. PICK n : n = [m EXCEPT !.entries = snap]
    OBVIOUS
  <1>10. /\ n \in Copy /\ n.entries = snap
         /\ n.revision = m.revision /\ n.rehydrated_at = m.rehydrated_at
    BY <1>7, <1>9 DEF Copy
  <1>11. mirror' = [mirror EXCEPT ![f] = n]
    BY <1>4, <1>8, <1>9
  <1>12. StateOK'
    BY <1>1, <1>4, <1>10, <1>11 DEF StateOK, Phase
  <1>13. ASSUME NEW e \in Epoch PROVE RunOK(e)'
    <2>1. CASE e = f
      <3>1. phase'[e] = "snapshotted" /\ mirror'[e] = n
        BY <1>1, <1>4, <1>11, <2>1 DEF StateOK
      <3>2. CopyBehind(n, entries, revision)
        BY <1>1, <1>5, <1>8, <1>10 DEF RunOK, CopyBehind
      <3>3. Unstamped(n.entries) /\ Same(n.entries, entries)
        BY <1>5, <1>6, <1>10 DEF Unstamped, Same
      <3>. QED
        BY <1>2, <1>4, <2>1, <3>1, <3>2, <3>3 DEF RunOK
    <2>2. CASE e # f
      <3>1. /\ phase'[e] = phase[e] /\ mirror'[e] = mirror[e]
            /\ minted <= minted' /\ max_epoch <= max_epoch'
        BY <1>1, <1>4, <1>11, <2>2 DEF StateOK
      <3>. QED
        BY <1>1, <1>4, <1>12, <3>1, RunUntouched
    <2>. QED
      BY <2>1, <2>2
  <1>. QED
    BY <1>12, <1>13 DEF MirrorInv

LEMMA ReadRevisionStep ==
  ASSUME MirrorInv, NEW f \in Epoch, ReadRevision(f)
  PROVE  MirrorInv'
  <1>1. StateOK /\ \A e \in Epoch : RunOK(e)
    BY DEF MirrorInv
  <1>2. phase[f] = "snapshotted" /\ f <= minted
    BY <1>1 DEF ReadRevision, RunOK
  <1>3. PICK m \in Copy : m = mirror[f]
    BY <1>1 DEF StateOK
  <1>4. PICK rev \in Nat : rev = revision
    BY <1>1, MirrorAssumption DEF StateOK
  <1>5. PICK n : n = [m EXCEPT !.revision = rev, !.rehydrated_at = rev]
    OBVIOUS
  <1>6. /\ n \in Copy /\ n.entries = m.entries
        /\ n.revision = rev /\ n.rehydrated_at = rev
    BY <1>5 DEF Copy
  <1>7. /\ mirror' = [mirror EXCEPT ![f] = n]
        /\ phase' = [phase EXCEPT ![f] = "live"]
        /\ baselines' = [baselines EXCEPT ![f] = NoEntries]
        /\ UNCHANGED <<entries, revision, max_epoch, watermarks, minted, slipped>>
    BY <1>3, <1>4, <1>5 DEF ReadRevision, storeVars
  <1>8. NoEntries \in Baselines /\ DOMAIN NoEntries = {}
    <2>1. NoEntries \in [{} -> ChangeSet]
      BY DEF NoEntries
    <2>. QED
      BY <2>1, Empty DEF Baselines
  <1>9. StateOK'
    BY <1>1, <1>6, <1>7, <1>8 DEF StateOK, Phase
  <1>10. ASSUME NEW e \in Epoch PROVE RunOK(e)'
    <2>1. CASE e = f
      <3>1. phase'[e] = "live" /\ mirror'[e] = n /\ baselines'[e] = NoEntries
        BY <1>1, <1>7, <2>1 DEF StateOK
      <3>2. CopyBehind(n, entries, revision)
        BY <1>1, <1>3, <1>4, <1>6 DEF RunOK, CopyBehind
      <3>3. Undisturbed(e) => Same(n.entries, entries)
        BY <1>1, <1>2, <1>3, <1>6, <2>1 DEF RunOK
      <3>4. Unstamped(n.entries)
        BY <1>1, <1>2, <1>3, <1>6 DEF RunOK
      <3>5. ASSUME Undisturbed(e) PROVE StampsKept(n, entries)
        <4>1. SUFFICES ASSUME NEW k \in DOMAIN entries
                       PROVE  /\ n.entries[k].added_rev = 0 /\ n.entries[k].updated_rev = 0
                              /\ ~(entries[k].added_rev > rev) /\ ~(entries[k].updated_rev > rev)
          BY <1>6 DEF StampsKept
        <4>2. k \in DOMAIN n.entries
          BY <3>3, <3>5 DEF Same
        <4>3. PICK a \in Nat : a = entries[k].added_rev
          BY <1>1, EntryMapFacts DEF StateOK, Entry
        <4>4. PICK u \in Nat : u = entries[k].updated_rev
          BY <1>1, EntryMapFacts DEF StateOK, Entry
        <4>5. a <= u /\ u <= rev
          BY <1>1, <1>4, <4>3, <4>4 DEF StateOK, Stamped
        <4>6. ~(a > rev) /\ ~(u > rev)
          BY <4>5
        <4>. QED
          BY <3>4, <4>2, <4>3, <4>4, <4>6 DEF Unstamped
      <3>6. BaselinesKept(n, NoEntries, entries)
        BY <1>8 DEF BaselinesKept
      <3>7. Undisturbed(e)' => Undisturbed(e)
        BY <1>7 DEF Undisturbed
      <3>. QED
        BY <1>2, <1>4, <1>6, <1>7, <2>1, <3>1, <3>2, <3>3, <3>5, <3>6, <3>7 DEF RunOK
    <2>2. CASE e # f
      <3>1. /\ phase'[e] = phase[e] /\ mirror'[e] = mirror[e] /\ baselines'[e] = baselines[e]
            /\ minted <= minted' /\ max_epoch <= max_epoch'
        BY <1>1, <1>7, <2>2 DEF StateOK
      <3>. QED
        BY <1>1, <1>7, <1>9, <3>1, RunUntouched
    <2>. QED
      BY <2>1, <2>2
  <1>. QED
    BY <1>9, <1>10 DEF MirrorInv

\* Whatever the run wrote before the baseline is primed is in the store, so
\* the primed split already has it, and the run's stamps add nothing.
LEMMA PrimedSplitKept ==
  ASSUME NEW m \in Copy, NEW ents \in EntryMap, Same(m.entries, ents), StampsKept(m, ents),
         NEW since \in Nat, since < m.rehydrated_at,
         NEW b, b = change_set_since(ents, since)
  PROVE  b \in ChangeSet /\ SplitKept(m, b, since, ents)
  <1>1. /\ b.added = {k \in DOMAIN ents : ents[k].added_rev > since}
        /\ b.updated = {k \in DOMAIN ents : ents[k].added_rev <= since /\ since < ents[k].updated_rev}
        /\ b = [added |-> b.added, updated |-> b.updated]
    BY DEF change_set_since
  <1>2. b \in ChangeSet
    <2>1. DOMAIN ents \subseteq Identity
      BY EntryMapFacts
    <2>. QED
      BY <1>1, <2>1 DEF ChangeSet
  <1>3. PICK rh \in Nat : rh = m.rehydrated_at
    BY DEF Copy
  <1>4. ASSUME NEW k \in DOMAIN ents
        PROVE  /\ ents[k].added_rev > since <=> (m.entries[k].added_rev > since \/ k \in b.added)
               /\ (ents[k].added_rev <= since /\ since < ents[k].updated_rev) <=>
                     /\ ~(m.entries[k].added_rev > since \/ k \in b.added)
                     /\ k \in b.updated \/ m.entries[k].updated_rev > since
    <2>1. PICK a \in Nat : a = ents[k].added_rev
      BY EntryMapFacts DEF Entry
    <2>2. PICK u \in Nat : u = ents[k].updated_rev
      BY EntryMapFacts DEF Entry
    <2>3. /\ m.entries[k].added_rev = IF a > rh THEN a ELSE 0
          /\ m.entries[k].updated_rev = IF u > rh THEN u ELSE 0
      BY <1>3, <2>1, <2>2 DEF StampsKept
    <2>4. (k \in b.added <=> a > since) /\ (k \in b.updated <=> (a <= since /\ since < u))
      BY <1>1, <2>1, <2>2
    <2>5. m.entries[k].added_rev > since => a > since
      BY <2>3
    <2>6. m.entries[k].updated_rev > since => since < u
      BY <2>3
    <2>7. ~(a > since) <=> a <= since
      OBVIOUS
    <2>. QED
      BY <2>1, <2>2, <2>4, <2>5, <2>6, <2>7
  <1>. QED
    BY <1>2, <1>4 DEF SplitKept

LEMMA PrimeBaselineStep ==
  ASSUME MirrorInv, NEW f \in Epoch, NEW o \in Operator, PrimeBaseline(f, o)
  PROVE  MirrorInv'
  <1>1. StateOK /\ \A e \in Epoch : RunOK(e)
    BY DEF MirrorInv
  <1>2. PICK since : since = watermarks[o]
    OBVIOUS
  <1>3. PICK bs \in Baselines : bs = baselines[f]
    BY <1>1 DEF StateOK
  <1>4. PICK b : b = change_set_since(entries, since)
    OBVIOUS
  <1>5. PICK cs : cs = Put(bs, since, b)
    OBVIOUS
  <1>6. /\ phase[f] = "live" /\ since \in Nat /\ since < mirror[f].rehydrated_at
        /\ baselines' = [baselines EXCEPT ![f] = cs]
        /\ UNCHANGED <<entries, revision, max_epoch, watermarks, minted, phase, mirror, slipped>>
    <2>1. since # Never /\ watermarks[o] \in Nat \cup {Never}
      BY <1>1, <1>2 DEF PrimeBaseline, StateOK
    <2>. QED
      BY <1>2, <1>3, <1>4, <1>5, <2>1 DEF PrimeBaseline, storeVars
  <1>7. b \in ChangeSet
    <2>1. DOMAIN entries \subseteq Identity
      BY <1>1, EntryMapFacts DEF StateOK
    <2>. QED
      BY <1>4, <2>1 DEF change_set_since, ChangeSet
  <1>8. /\ DOMAIN cs = DOMAIN bs \cup {since} /\ cs[since] = b
        /\ \A x \in DOMAIN bs : x # since => cs[x] = bs[x]
    BY <1>5 DEF Put
  <1>9. cs \in Baselines
    <2>1. DOMAIN bs \in SUBSET Nat /\ \A x \in DOMAIN bs : bs[x] \in ChangeSet
      BY DEF Baselines
    <2>2. DOMAIN bs \cup {since} \in SUBSET Nat
      BY <1>6, <2>1
    <2>3. cs \in [DOMAIN bs \cup {since} -> ChangeSet]
      BY <1>5, <1>7, <2>1 DEF Put
    <2>. QED
      BY <2>2, <2>3 DEF Baselines
  <1>10. StateOK'
    BY <1>1, <1>6, <1>9 DEF StateOK
  <1>11. ASSUME NEW e \in Epoch PROVE RunOK(e)'
    <2>1. CASE e = f
      <3>1. PICK m \in Copy : m = mirror[f]
        BY <1>1 DEF StateOK
      <3>2. ASSUME Undisturbed(f) PROVE BaselinesKept(m, cs, entries)
        <4>1. /\ Same(m.entries, entries) /\ StampsKept(m, entries)
              /\ BaselinesKept(m, bs, entries)
          BY <1>1, <1>3, <1>6, <3>1, <3>2 DEF RunOK
        <4>2. SplitKept(m, b, since, entries)
          BY <1>1, <1>4, <1>6, <3>1, <4>1, PrimedSplitKept DEF StateOK
        <4>. QED
          BY <1>6, <1>8, <3>1, <4>1, <4>2 DEF BaselinesKept
      <3>3. baselines'[f] = cs
        BY <1>1, <1>6 DEF StateOK
      <3>4. Undisturbed(f)' => Undisturbed(f)
        BY <1>6 DEF Undisturbed
      <3>5. RunOK(f)
        BY <1>1
      <3>. QED
        BY <1>6, <2>1, <3>1, <3>2, <3>3, <3>4, <3>5 DEF RunOK
    <2>2. CASE e # f
      <3>1. baselines'[e] = baselines[e] /\ minted <= minted' /\ max_epoch <= max_epoch'
        BY <1>1, <1>6, <2>2 DEF StateOK
      <3>. QED
        BY <1>1, <1>6, <1>10, <3>1, RunUntouched
    <2>. QED
      BY <2>1, <2>2
  <1>. QED
    BY <1>10, <1>11 DEF MirrorInv

\* A write reaches the copy of its writer and the store in one step.  Every
\* other run that could still take itself for the sole mutator is above the
\* writer and above the fence, so it has not written yet: it is one of
\* MissedBy, unless nothing changed.
LEMMA WriteStep ==
  ASSUME MirrorInv, NEW f \in Epoch, NEW batch \in Batch, Write(f, batch)
  PROVE  MirrorInv'
  <1>1. StateOK /\ \A e \in Epoch : RunOK(e)
    BY DEF MirrorInv
  <1>2. PICK m \in Copy : m = mirror[f]
    BY <1>1 DEF StateOK
  <1>3. PICK ents \in EntryMap : ents = entries
    BY <1>1 DEF StateOK
  <1>4. PICK rev \in Nat : rev = revision
    BY <1>1, MirrorAssumption DEF StateOK
  <1>5. PICK res : res = resolve(m.entries, batch)
    OBVIOUS
  <1>6. PICK post : post = apply_resolved(ents, rev, res.added, res.updated)
    OBVIOUS
  <1>7. PICK n : n = apply(m, res, post.revision)
    OBVIOUS
  <1>8. /\ phase[f] = "live" /\ CanWrite(f) /\ post.revision <= MaxRevision
        /\ entries' = post.entries /\ revision' = post.revision
        /\ max_epoch' = f
        /\ mirror' = [mirror EXCEPT ![f] = n]
        /\ slipped' = IF post.revision = rev THEN slipped ELSE slipped \cup MissedBy(f)
        /\ UNCHANGED <<watermarks, minted, phase, baselines>>
    BY <1>2, <1>3, <1>4, <1>5, <1>6, <1>7 DEF Write
  <1>9. CopyBehind(m, ents, rev) /\ f <= minted /\ f \in Nat
    BY <1>1, <1>2, <1>3, <1>4, <1>8, MirrorAssumption DEF RunOK
  <1>10. Resolves(m.entries, res)
    <2>1. PICK copy \in EntryMap : copy = m.entries
      BY DEF Copy
    <2>. QED
      BY <1>5, <2>1, BatchIsSequence, ResolveResolves
  <1>11. /\ res \in Resolution /\ DOMAIN res.updated \subseteq DOMAIN ents
         /\ DOMAIN res.added \cap DOMAIN res.updated = {}
    BY <1>9, <1>10 DEF Resolves, CopyBehind
  <1>12. /\ post.revision \in Nat
         /\ Applied(ents, res, post.revision, post.entries)
         /\ \/ post.revision = rev + 1
            \/ /\ post.revision = rev /\ post.entries = ents
               /\ DOMAIN res.added = {} /\ DOMAIN res.updated = {}
    BY <1>6, <1>11, StoreApplies
  <1>13. PICK to \in Nat : to = post.revision
    BY <1>12
  <1>14. PICK g : g = post.entries
    OBVIOUS
  <1>15. /\ rev <= to /\ Applied(ents, res, to, g) /\ g \in EntryMap
         /\ to = rev => g = ents /\ DOMAIN res.added = {} /\ DOMAIN res.updated = {}
    BY <1>12, <1>13, <1>14 DEF Applied
  <1>16. /\ n \in Copy /\ n.revision = to /\ n.rehydrated_at = m.rehydrated_at
         /\ Applied(m.entries, res, to, n.entries)
    BY <1>7, <1>10, <1>13, CopyApplies
  <1>17. Stamped(g, to) /\ CopyBehind(n, g, to) /\ DOMAIN ents \subseteq DOMAIN g
    <2>1. Stamped(ents, rev)
      BY <1>1, <1>3, <1>4 DEF StateOK
    <2>2. Stamped(g, to) /\ CopyBehind(n, g, to)
      BY <1>9, <1>10, <1>15, <1>16, <2>1, WriteStamps
    <2>. QED
      BY <1>15, <2>2 DEF Applied
  <1>18. max_epoch <= f /\ max_epoch \in Nat
    BY <1>1, <1>8, <1>9 DEF CanWrite, Accepts, StateOK
  <1>19. slipped \subseteq slipped' /\ slipped' \subseteq Epoch
    BY <1>1, <1>8 DEF MissedBy, StateOK
  <1>20. StateOK'
    <2>1. revision' \in 0..MaxRevision
      BY <1>8, <1>13, MirrorAssumption
    <2>2. max_epoch' \in 0..minted'
      BY <1>1, <1>8, <1>9 DEF StateOK
    <2>3. mirror' \in [Epoch -> Copy]
      BY <1>1, <1>8, <1>16 DEF StateOK
    <2>. QED
      BY <1>1, <1>8, <1>13, <1>14, <1>15, <1>17, <1>19, <2>1, <2>2, <2>3 DEF StateOK
  <1>21. RunOK(f)'
    <2>1. mirror'[f] = n /\ phase'[f] = "live" /\ baselines'[f] = baselines[f]
      BY <1>1, <1>8 DEF StateOK
    <2>2. ASSUME Undisturbed(f)'
          PROVE  /\ Same(n.entries, g) /\ StampsKept(n, g)
                 /\ BaselinesKept(n, baselines[f], g)
      <3>1. Undisturbed(f)
        BY <1>18, <1>19, <2>2 DEF Undisturbed
      <3>2. PICK bs \in Baselines : bs = baselines[f]
        BY <1>1 DEF StateOK
      <3>3. /\ Same(m.entries, ents) /\ StampsKept(m, ents)
            /\ BaselinesKept(m, bs, ents)
        BY <1>1, <1>2, <1>3, <1>8, <3>1, <3>2 DEF RunOK
      <3>. QED
        BY <1>9, <1>10, <1>15, <1>16, <3>2, <3>3, WriteStaysInStep
    <2>. QED
      BY <1>8, <1>9, <1>13, <1>14, <1>16, <1>17, <2>1, <2>2 DEF RunOK
  <1>22. ASSUME NEW e \in Epoch, e # f PROVE RunOK(e)'
    <2>1. mirror'[e] = mirror[e] /\ phase'[e] = phase[e] /\ baselines'[e] = baselines[e]
      BY <1>1, <1>8, <1>22 DEF StateOK
    <2>2. RunOK(e) /\ e \in Nat
      BY <1>1, MirrorAssumption
    <2>3. CASE to = rev
      <3>1. entries' = entries /\ revision' = revision
        BY <1>3, <1>4, <1>8, <1>13, <1>14, <1>15, <2>3
      <3>2. max_epoch <= max_epoch' /\ minted <= minted'
        BY <1>1, <1>8, <1>18 DEF StateOK
      <3>. QED
        BY <1>1, <1>19, <1>20, <2>1, <2>2, <3>1, <3>2, RunUntouched
    <2>4. CASE to # rev
      <3>1. CopyBehind(mirror[e], g, to)
        <4>1. PICK q \in Copy : q = mirror[e]
          BY <1>1 DEF StateOK
        <4>2. CopyBehind(q, ents, rev)
          BY <1>3, <1>4, <2>2, <4>1 DEF RunOK
        <4>3. q.revision <= to
          BY <1>15, <4>2 DEF CopyBehind, Copy
        <4>. QED
          BY <1>17, <4>1, <4>2, <4>3 DEF CopyBehind
      <3>2. ASSUME phase[e] \in {"snapshotted", "live"} PROVE ~Undisturbed(e)'
        <4>1. SUFFICES ASSUME f <= e PROVE e \in slipped'
          BY <1>8 DEF Undisturbed
        <4>2. e > f /\ e > max_epoch
          BY <1>9, <1>18, <1>22, <2>2, <4>1
        <4>. QED
          BY <1>8, <1>13, <2>4, <3>2, <4>2 DEF MissedBy
      <3>3. phase[e] # "none" => e <= minted
        BY <2>2 DEF RunOK
      <3>4. phase[e] = "snapshotted" => Unstamped(mirror[e].entries)
        BY <2>2 DEF RunOK
      <3>. QED
        BY <1>8, <1>13, <1>14, <2>1, <3>1, <3>2, <3>3, <3>4 DEF RunOK
    <2>. QED
      BY <2>3, <2>4
  <1>. QED
    BY <1>20, <1>21, <1>22 DEF MirrorInv

LEMMA NextMirrorInv == MirrorInv /\ [Next]_vars => MirrorInv'
  <1> SUFFICES ASSUME MirrorInv, [Next]_vars PROVE MirrorInv'
    OBVIOUS
  <1>1. CASE UNCHANGED vars
    <2>1. UNCHANGED <<entries, revision, max_epoch, watermarks, minted, phase, mirror,
                      baselines, slipped>>
      BY <1>1 DEF vars, storeVars, mirrorVars
    <2>2. StateOK'
      BY <2>1 DEF MirrorInv, StateOK
    <2>3. ASSUME NEW e \in Epoch PROVE RunOK(e)'
      BY <2>1 DEF MirrorInv, RunOK, Undisturbed
    <2>. QED
      BY <2>2, <2>3 DEF MirrorInv
  <1>. QED
    BY <1>1, AcquireStep, DetectFlowDriftStep, SupersededStep, FenceStep, ReadSnapshotStep,
       ReadRevisionStep, PrimeBaselineStep, WriteStep DEF Next

LEMMA MirrorInvAlways == Spec => []MirrorInv
  BY InitMirrorInv, NextMirrorInv, PTL DEF Spec

-----------------------------------------------------------------------------
(* The theorems.                                                           *)

\* The store and the runs' copies of it are well typed in every reachable
\* state: every entry was added at a revision the store has allocated and not
\* after it was last updated, the fence is at most the lock's epoch, and no
\* run rehydrated after the revision it works at.
THEOREM MirrorTypeCorrect == Spec => []TypeOK
  <1>1. MirrorInv => TypeOK
    <2> SUFFICES ASSUME MirrorInv PROVE TypeOK
      OBVIOUS
    <2>1. DOMAIN entries \subseteq Identity /\ \A k \in DOMAIN entries : entries[k] \in Entry
      BY EntryMapFacts DEF MirrorInv, StateOK
    <2>2. \A k \in DOMAIN entries : entries[k].first \in Time /\ entries[k].last \in Time
      BY <2>1 DEF Entry
    <2>. QED
      BY <2>1, <2>2 DEF MirrorInv, StateOK, Stamped, RunOK, CopyBehind, TypeOK
  <1>. QED
    BY <1>1, MirrorInvAlways, PTL

LEMMA SoleMutatorInStep ==
  ASSUME MirrorInv, NEW e \in Epoch, SoleMutator(e)
  PROVE  /\ Same(mirror[e].entries, entries) /\ mirror[e].revision = revision
         /\ StampsKept(mirror[e], entries)
         /\ BaselinesKept(mirror[e], baselines[e], entries)
  BY DEF MirrorInv, RunOK, Undisturbed, SoleMutator

\* For any number of runs: as long as nobody above a run has written and no
\* predecessor slipped a write in between its first read and its first
\* guarded write, its copy is the store, so every read the mirror serves
\* locally is the read the store would have served (mirror.py rehydrate,
\* write, snapshot).
THEOREM MirrorStaysInStep == Spec => []MirrorInStep
  <1>1. MirrorInv => MirrorInStep
    <2> SUFFICES ASSUME MirrorInv, NEW e \in Epoch, SoleMutator(e) PROVE InStep(e)
      BY DEF MirrorInStep
    <2>1. Same(mirror[e].entries, entries) /\ mirror[e].revision = revision
      BY SoleMutatorInStep
    <2>. QED
      BY <2>1 DEF Same, InStep, Content
  <1>. QED
    BY <1>1, MirrorInvAlways, PTL

\* The added/updated split the mirror derives, from its own stamps or from a
\* primed baseline and its stamps, is the store's, whatever the run wrote
\* between rehydrating, priming and asking (mirror.py change_set_since,
\* prime_change_baseline).
THEOREM MirrorChangeSetsExact == Spec => []ChangeSetsExact
  <1>1. MirrorInv => ChangeSetsExact
    <2> SUFFICES ASSUME MirrorInv, NEW e \in Epoch, SoleMutator(e)
                 PROVE  /\ \A since \in mirror[e].rehydrated_at..mirror[e].revision :
                             local_change_set(mirror[e], since) = change_set_since(entries, since)
                        /\ \A since \in DOMAIN baselines[e] :
                             baselined_change_set(mirror[e], baselines[e][since], since)
                                 = change_set_since(entries, since)
      BY DEF ChangeSetsExact
    <2>1. /\ Same(mirror[e].entries, entries) /\ StampsKept(mirror[e], entries)
          /\ BaselinesKept(mirror[e], baselines[e], entries)
      BY SoleMutatorInStep
    <2>2. PICK m \in Copy : m = mirror[e]
      BY DEF MirrorInv, StateOK
    <2>3. PICK M \in EntryMap : M = m.entries
      BY DEF Copy
    <2>4. PICK E \in EntryMap : E = entries
      BY DEF MirrorInv, StateOK
    <2>5. DOMAIN M = DOMAIN E
      BY <2>1, <2>2, <2>3, <2>4 DEF Same
    <2>6. ASSUME NEW since \in m.rehydrated_at..m.revision
          PROVE  local_change_set(m, since) = change_set_since(E, since)
      <3>1. PICK rh \in Nat : rh = m.rehydrated_at
        BY DEF Copy
      <3>2. since \in Nat /\ rh <= since
        BY <3>1 DEF Copy
      <3>3. ASSUME NEW k \in DOMAIN E
            PROVE  /\ M[k].added_rev > since <=> E[k].added_rev > since
                   /\ M[k].added_rev <= since <=> E[k].added_rev <= since
                   /\ since < M[k].updated_rev <=> since < E[k].updated_rev
        <4>1. PICK a \in Nat : a = E[k].added_rev
          BY EntryMapFacts DEF Entry
        <4>2. PICK u \in Nat : u = E[k].updated_rev
          BY EntryMapFacts DEF Entry
        <4>3. /\ M[k].added_rev = IF a > rh THEN a ELSE 0
              /\ M[k].updated_rev = IF u > rh THEN u ELSE 0
          BY <2>1, <2>2, <2>3, <2>4, <3>1, <4>1, <4>2 DEF StampsKept
        <4>. QED
          BY <3>2, <4>1, <4>2, <4>3
      <3>4. /\ {k \in DOMAIN M : M[k].added_rev > since} = {k \in DOMAIN E : E[k].added_rev > since}
            /\ {k \in DOMAIN M : M[k].added_rev <= since /\ since < M[k].updated_rev}
                 = {k \in DOMAIN E : E[k].added_rev <= since /\ since < E[k].updated_rev}
        BY <2>5, <3>3
      <3>. QED
        BY <2>3, <3>4 DEF local_change_set, change_set_since
    <2>7. ASSUME NEW since \in DOMAIN baselines[e]
          PROVE  baselined_change_set(m, baselines[e][since], since) = change_set_since(E, since)
      <3>1. PICK b : b = baselines[e][since]
        OBVIOUS
      <3>2. SplitKept(m, b, since, E)
        BY <2>1, <2>2, <2>4, <3>1 DEF BaselinesKept
      <3>3. /\ {k \in DOMAIN M : M[k].added_rev > since \/ k \in b.added}
                 = {k \in DOMAIN E : E[k].added_rev > since}
            /\ {k \in DOMAIN M : /\ ~(M[k].added_rev > since \/ k \in b.added)
                                 /\ k \in b.updated \/ M[k].updated_rev > since}
                 = {k \in DOMAIN E : E[k].added_rev <= since /\ since < E[k].updated_rev}
        BY <2>3, <2>5, <3>2 DEF SplitKept
      <3>. QED
        BY <2>3, <3>1, <3>3 DEF baselined_change_set, change_set_since
    <2>. QED
      BY <2>2, <2>4, <2>6, <2>7
  <1>. QED
    BY <1>1, MirrorInvAlways, PTL

\* For a batch of any length, with any repetitions: resolving it against the
\* copy and applying the result blindly does to the store, entries, stamps
\* and revision, what the store's own keyed-merge would have done
\* (mirror.py _resolve, store.py apply_resolved and write).
THEOREM MirrorResolvesAsTheStore == Spec => []ResolvedIsKeyedMerge
  <1>1. MirrorInv => ResolvedIsKeyedMerge
    <2> SUFFICES ASSUME MirrorInv, NEW e \in Epoch, SoleMutator(e), NEW batch \in Batch,
                        NEW res, res = resolve(mirror[e].entries, batch)
                 PROVE  apply_resolved(entries, revision, res.added, res.updated)
                          = write(entries, revision, batch)
      BY DEF ResolvedIsKeyedMerge
    <2>1. Same(mirror[e].entries, entries)
      BY SoleMutatorInStep
    <2>2. PICK copy \in EntryMap : copy = mirror[e].entries
      BY DEF MirrorInv, StateOK, Copy
    <2>3. PICK ents \in EntryMap : ents = entries
      BY DEF MirrorInv, StateOK
    <2>4. PICK rev \in Nat : rev = revision
      BY MirrorAssumption DEF MirrorInv, StateOK
    <2>5. batch \in Seq(Observations)
      BY BatchIsSequence
    <2>. QED
      BY <2>1, <2>2, <2>3, <2>4, <2>5, ResolveThenApplyIsWrite
  <1>. QED
    BY <1>1, MirrorInvAlways, PTL

-----------------------------------------------------------------------------
(* The lock.                                                               *)

\* A lease belongs to the newest epoch: a successor replaces it and nobody
\* else can put an older one back.
LeaseIsNewest == lease # NoLease => lease.epoch = epoch_counter

\* A run works under an epoch that was minted, and no two share one.
GrantsMinted == \A r \in Run : grant[r] <= epoch_counter

GrantsUnique ==
    \A r, s \in Run : r # s /\ grant[r] # 0 => grant[r] # grant[s]

\* What a run was granted and has not used up is what the adapter's lease
\* still says: nobody shortened, dropped or replaced it.
WindowBacked ==
    \A r \in Run : InWindow(r) => /\ lease.epoch = grant[r]
                                  /\ lease.ttl_left = window[r]

\* The inductive invariant: mutual exclusion alone is not inductive, since
\* it says nothing of the lease a run's window rests on.
LockInv ==
    /\ LockTypeOK
    /\ LeaseIsNewest
    /\ GrantsMinted
    /\ GrantsUnique
    /\ WindowBacked

LEMMA InitLockInv == LockInit => LockInv
  <1> SUFFICES ASSUME LockInit PROVE LockInv
    OBVIOUS
  <1>1. LockTypeOK
    <2>1. /\ epoch_counter \in 0..MaxEpoch
          /\ grant \in [Run -> 0..MaxEpoch]
          /\ window \in [Run -> 0..TTL]
          /\ finalizer \in 0..MaxEpoch
      BY LockAssumption DEF LockInit
    <2>2. lease \in Lease \cup {NoLease} /\ complete \in BOOLEAN
      BY Zenon DEF LockInit
    <2>. QED
      BY <2>1, <2>2 DEF LockTypeOK
  <1>2. LeaseIsNewest /\ GrantsMinted /\ GrantsUnique /\ WindowBacked
    BY DEF LockInit, LeaseIsNewest, GrantsMinted, GrantsUnique, WindowBacked,
       InWindow
  <1>. QED
    BY <1>1, <1>2 DEF LockInv

LEMMA NextLockInv == LockInv /\ [LockNext]_lockVars => LockInv'
  <1> SUFFICES ASSUME LockInv, [LockNext]_lockVars PROVE LockInv'
    OBVIOUS
  <1> USE LockAssumption DEF LockInv, LockTypeOK, Lease, NoLease, is_live
  <1>1. ASSUME NEW r \in Run, acquire(r) PROVE LockInv'
    <2>1. /\ epoch_counter' = epoch_counter + 1
          /\ lease' = [epoch |-> epoch_counter + 1, ttl_left |-> TTL]
          /\ grant' = [grant EXCEPT ![r] = epoch_counter + 1]
          /\ window' = [window EXCEPT ![r] = TTL]
          /\ epoch_counter + 1 \in 1..MaxEpoch
          /\ UNCHANGED <<complete, finalizer>>
      BY <1>1 DEF acquire
    <2>2. LockTypeOK'
      BY <2>1
    <2>3. LeaseIsNewest'
      BY <2>1 DEF LeaseIsNewest
    <2>4. GrantsMinted' /\ GrantsUnique'
      BY <2>1 DEF GrantsMinted, GrantsUnique
    <2>5. \A s \in Run : ~InWindow(s)
      BY <1>1 DEF WindowBacked, InWindow, acquire
    <2>6. WindowBacked'
      BY <2>1, <2>5 DEF WindowBacked, InWindow
    <2>. QED
      BY <2>2, <2>3, <2>4, <2>6
  <1>2. ASSUME NEW r \in Run, renew(r) PROVE LockInv'
    <2>1. /\ lease # NoLease /\ lease.epoch = grant[r] /\ grant[r] # 0
          /\ lease' = [lease EXCEPT !.ttl_left = TTL]
          /\ window' = [window EXCEPT ![r] = TTL]
          /\ UNCHANGED <<epoch_counter, complete, grant, finalizer>>
      BY <1>2 DEF renew, renewable, renewed_ttl
    <2>2. LockTypeOK'
      BY <2>1
    <2>3. LeaseIsNewest' /\ GrantsMinted' /\ GrantsUnique'
      BY <2>1 DEF LeaseIsNewest, GrantsMinted, GrantsUnique
    <2>4. \A s \in Run : s # r => ~InWindow(s)
      BY <2>1 DEF WindowBacked, InWindow, GrantsUnique
    <2>5. WindowBacked'
      BY <2>1, <2>4 DEF WindowBacked, InWindow
    <2>. QED
      BY <2>2, <2>3, <2>5
  <1>3. ASSUME NEW r \in Run, release(r) PROVE LockInv'
    <2>1. /\ lease' = IF lease.epoch = grant[r] THEN NoLease ELSE lease
          /\ grant' = [grant EXCEPT ![r] = 0]
          /\ window' = [window EXCEPT ![r] = 0]
          /\ UNCHANGED <<epoch_counter, complete, finalizer>>
          /\ grant[r] # 0
      BY <1>3 DEF release, lease_after_release
    <2>2. LockTypeOK'
      BY <2>1
    <2>3. LeaseIsNewest' /\ GrantsMinted' /\ GrantsUnique'
      BY <2>1 DEF LeaseIsNewest, GrantsMinted, GrantsUnique
    <2>4. WindowBacked'
      BY <2>1 DEF WindowBacked, InWindow, GrantsUnique
    <2>. QED
      BY <2>2, <2>3, <2>4
  <1>4. ASSUME NEW r \in Run, mark_complete(r) PROVE LockInv'
    BY <1>4 DEF mark_complete, may_mark, LeaseIsNewest, GrantsMinted,
       GrantsUnique, WindowBacked, InWindow
  <1>5. ASSUME clear_complete PROVE LockInv'
    BY <1>5 DEF clear_complete, LeaseIsNewest, GrantsMinted,
       GrantsUnique, WindowBacked, InWindow
  <1>6. ASSUME NEW r \in Run, Crash(r) PROVE LockInv'
    BY <1>6 DEF Crash, LeaseIsNewest, GrantsMinted,
       GrantsUnique, WindowBacked, InWindow
  <1>7. ASSUME Tick PROVE LockInv'
    <2>1. /\ lease # NoLease
          /\ lease' = [lease EXCEPT !.ttl_left = Countdown(lease.ttl_left)]
          /\ window' = [r \in Run |-> Countdown(window[r])]
          /\ UNCHANGED <<epoch_counter, complete, grant, finalizer>>
      BY <1>7 DEF Tick
    <2>2. LockTypeOK'
      BY <2>1 DEF Countdown
    <2>3. LeaseIsNewest' /\ GrantsMinted' /\ GrantsUnique'
      BY <2>1 DEF LeaseIsNewest, GrantsMinted, GrantsUnique
    <2>4. WindowBacked'
      BY <2>1 DEF WindowBacked, InWindow, Countdown
    <2>. QED
      BY <2>2, <2>3, <2>4
  <1>8. CASE UNCHANGED lockVars
    BY <1>8 DEF lockVars, LeaseIsNewest, GrantsMinted, GrantsUnique,
       WindowBacked, InWindow
  <1>. QED
    BY <1>1, <1>2, <1>3, <1>4, <1>5, <1>6, <1>7, <1>8 DEF LockNext

LEMMA LockInvAlways == LockSpec => []LockInv
  BY InitLockInv, NextLockInv, PTL DEF LockSpec

\* The state of the lock adapter and of the runs on it is well typed in
\* every reachable state: at most MaxEpoch grants, a lease of at most TTL.
THEOREM LockTypeCorrect == LockSpec => []LockTypeOK
  <1>1. LockInv => LockTypeOK
    BY DEF LockInv
  <1>. QED
    BY <1>1, LockInvAlways, PTL

\* Mutual exclusion for any number of runs, any TTL: two runs are never both
\* within the lease time acquire or renew last gave them.
THEOREM LockMutualExclusion == LockSpec => []LeaseMutualExclusion
  <1>1. LockInv => LeaseMutualExclusion
    BY DEF LockInv, LeaseMutualExclusion, WindowBacked, GrantsUnique, InWindow
  <1>. QED
    BY <1>1, LockInvAlways, PTL

\* The run that marks the session complete is the run of the newest epoch
\* ever granted, for any number of runs and grants and any order of their
\* stalls, crashes, releases and re-opens.
THEOREM LockOnlyNewestFinalizes == LockSpec => OnlyNewestFinalizes
  <1> DEFINE Finalizes ==
        (~complete /\ complete') \/ finalizer' # finalizer
           => finalizer' = epoch_counter
  <1>1. LockInv /\ [LockNext]_lockVars => [Finalizes]_lockVars
    <2> SUFFICES ASSUME LockInv, LockNext,
                        (~complete /\ complete') \/ finalizer' # finalizer
                 PROVE finalizer' = epoch_counter
      BY Zenon
    <2>1. PICK r \in Run : mark_complete(r)
      BY DEF LockNext, acquire, renew, release, clear_complete, Crash, Tick
    <2>. QED
      BY <2>1, LockAssumption DEF mark_complete, may_mark, LockInv, GrantsMinted, LockTypeOK
  <1>. QED
    BY <1>1, LockInvAlways, PTL DEF LockSpec, OnlyNewestFinalizes

\* The TTL lock implements the port: mapped to the epoch of its live lease,
\* it starts as FencedLock does and each step is a FencedLock step or leaves
\* the mapped state alone (a tick that ends the lease is an expiry there).
THEOREM LockImplementsPort == LockSpec => ImplementsPort
  <1>1. LockInit => Port!LockInit
    BY DEF LockInit, Port!LockInit, is_live
  <1>2. LockInv /\ [LockNext]_lockVars => [Port!LockNext]_(Port!lockVars)
    <2> SUFFICES ASSUME LockInv, [LockNext]_lockVars
                 PROVE Port!LockNext \/ UNCHANGED Port!lockVars
      OBVIOUS
    <2> USE LockAssumption DEF LockInv, LockTypeOK, Lease, NoLease, is_live,
        Port!lockVars
    <2>1. ASSUME NEW r \in Run, acquire(r) PROVE Port!acquire
      <3>1. is_live' /\ lease'.epoch = epoch_counter + 1 /\ ~is_live
        BY <2>1 DEF acquire
      <3>. QED
        BY <2>1, <3>1 DEF acquire, Port!acquire, Port!is_held
    <2>2. ASSUME NEW r \in Run, renew(r) PROVE UNCHANGED Port!lockVars
      BY <2>2 DEF renew, renewable, renewed_ttl
    <2>3. ASSUME NEW r \in Run, release(r) PROVE Port!release(grant[r])
      BY <2>3 DEF release, lease_after_release, Port!release
    <2>4. ASSUME NEW r \in Run, mark_complete(r)
          PROVE Port!mark_complete(grant[r])
      BY <2>4 DEF mark_complete, may_mark, Port!mark_complete, Port!CanFinalize
    <2>5. ASSUME clear_complete PROVE Port!clear_complete
      BY <2>5 DEF clear_complete, Port!clear_complete
    <2>6. ASSUME NEW r \in Run, Crash(r) PROVE UNCHANGED Port!lockVars
      BY <2>6 DEF Crash
    <2>7. ASSUME Tick PROVE Port!expire \/ UNCHANGED Port!lockVars
      BY <2>7 DEF Tick, Countdown, Port!expire, Port!is_held
    <2>8. CASE UNCHANGED lockVars
      BY <2>8 DEF lockVars
    <2>9. ASSUME NEW r \in Run, grant[r] # 0 PROVE grant[r] \in 1..epoch_counter
      BY <2>9 DEF GrantsMinted
    <2>. QED
      BY <2>1, <2>2, <2>3, <2>4, <2>5, <2>6, <2>7, <2>8, <2>9
      DEF LockNext, Port!LockNext, release, mark_complete, may_mark
  <1>. QED
    BY <1>1, <1>2, LockInvAlways, PTL DEF LockSpec, ImplementsPort, Port!LockSpec
=============================================================================
