------------------------- MODULE WriteBehindProofs --------------------------
(***************************************************************************)
(* What holds of the write-behind for any number of runs, of any epochs,   *)
(* and every batch, page size and fault: its three invariants.             *)
(***************************************************************************)
EXTENDS WriteBehind, FiniteSetTheorems, TLAPS

WF == INSTANCE WellFoundedInduction

-----------------------------------------------------------------------------
(* Sets of numbers, and rows in the order of their numbers.                *)

LEMMA LeastNumber ==
    ASSUME NEW S \in SUBSET Nat, S # {}
    PROVE  \E m \in S : \A n \in S : m <= n
<1> DEFINE R == {p \in Nat \X Nat : p[1] < p[2]}
<1>1. WF!OpToRel(<, Nat) = R
  BY DEF WF!OpToRel
<1>2. WF!IsWellFoundedOn(R, Nat)
  BY <1>1, WF!NatLessThanWellFounded
<1>3. \A x, y \in Nat : <<y, x>> \in R <=> y < x
  OBVIOUS
<1> HIDE DEF R
<1>4. PICK m \in S : \A y \in S : ~(<<y, m>> \in R)
  BY <1>2, WF!WFMin
<1>5. ASSUME NEW y \in S
      PROVE  m <= y
  <2>1. m \in Nat /\ y \in Nat
    OBVIOUS
  <2>2. <<y, m>> \in R <=> y < m
    BY <1>3, <2>1
  <2>3. ~(y < m)
    BY <1>4, <2>2, Zenon
  <2> QED BY <2>1, <2>3
<1> QED BY <1>5

\* s lists the n numbers of S from the lowest to the highest.
Lists(s, n, S) ==
    /\ s \in [1..n -> S]
    /\ \A i, j \in 1..n : i < j => s[i] < s[j]

\* Every finite set of numbers can be listed: the least one comes first.
LEMMA CanBeListed ==
    ASSUME NEW S \in SUBSET Nat, IsFiniteSet(S)
    PROVE  \E s : Lists(s, Cardinality(S), S)
<1> DEFINE Fails(n) == \E T \in SUBSET Nat :
             IsFiniteSet(T) /\ Cardinality(T) = n /\ ~ \E s : Lists(s, n, T)
           Bad == {n \in Nat : Fails(n)}
<1>1. SUFFICES ASSUME Bad # {} PROVE FALSE
  <2>1. Cardinality(S) \in Nat
    BY FS_CardinalityType
  <2> QED BY <2>1
<1>2. PICK n \in Bad : \A m \in Bad : n <= m
  <2>1. Bad \in SUBSET Nat
    OBVIOUS
  <2> HIDE DEF Bad
  <2> QED BY <1>1, <2>1, LeastNumber
<1>3. PICK T \in SUBSET Nat :
        IsFiniteSet(T) /\ Cardinality(T) = n /\ ~ \E s : Lists(s, n, T)
  BY <1>2
<1>4. n \in Nat /\ n # 0
  <2>1. CASE n = 0
    <3>1. Lists(<<>>, 0, T)
      BY DEF Lists
    <3> QED BY <1>3, <2>1, <3>1
  <2> QED BY <1>2, <2>1
<1>5. T # {}
  BY <1>3, <1>4, FS_EmptySet
<1>6. PICK m \in T : \A k \in T : m <= k
  BY <1>5, LeastNumber
<1>7. PICK U : U = T \ {m}
  OBVIOUS
<1>8. IsFiniteSet(U) /\ Cardinality(U) = n - 1 /\ U \in SUBSET Nat
  BY <1>3, <1>6, <1>7, FS_RemoveElement
<1>9. PICK u : Lists(u, n - 1, U)
  <2>1. n - 1 \in Nat /\ n - 1 \notin Bad
    BY <1>2, <1>4
  <2> QED BY <1>8, <2>1
<1> HIDE DEF Fails, Bad
<1>10. PICK s : s = [i \in 1..n |-> IF i = 1 THEN m ELSE u[i - 1]]
  OBVIOUS
<1>11. \A i \in 1..n : i # 1 => i - 1 \in 1..(n - 1) /\ s[i] = u[i - 1] /\ s[i] \in T /\ m < s[i]
  <2>1. SUFFICES ASSUME NEW i \in 1..n, i # 1
                 PROVE  i - 1 \in 1..(n - 1) /\ s[i] = u[i - 1] /\ s[i] \in T /\ m < s[i]
    OBVIOUS
  <2>2. i - 1 \in 1..(n - 1) /\ s[i] = u[i - 1]
    BY <1>4, <1>10, <2>1
  <2>3. u[i - 1] \in U
    BY <1>9, <2>2 DEF Lists
  <2>4. u[i - 1] \in T /\ u[i - 1] # m /\ m \in Nat /\ u[i - 1] \in Nat
    BY <1>7, <2>3
  <2>5. m <= u[i - 1]
    BY <1>6, <2>4
  <2> QED BY <2>2, <2>4, <2>5
<1>12. s[1] = m
  BY <1>4, <1>10
<1>13. ASSUME NEW i \in 1..n, NEW j \in 1..n, i < j
       PROVE  s[i] < s[j]
  <2>1. CASE i = 1
    BY <1>11, <1>12, <1>13, <2>1
  <2>2. CASE i # 1
    <3>1. j # 1 /\ i - 1 < j - 1
      BY <1>13, <2>2
    <3> QED BY <1>9, <1>11, <2>2, <3>1 DEF Lists
  <2> QED BY <2>1, <2>2
<1>14. s \in [1..n -> T]
  BY <1>4, <1>6, <1>10, <1>11, <1>12
<1> QED BY <1>3, <1>13, <1>14 DEF Lists

\* What Ascending is: it lists the set, all of it.
LEMMA AscendingLists ==
    ASSUME NEW S \in SUBSET Nat, IsFiniteSet(S)
    PROVE  /\ Cardinality(S) \in Nat
           /\ Lists(Ascending(S), Cardinality(S), S)
           /\ \A k \in S : \E i \in 1..Cardinality(S) : Ascending(S)[i] = k
<1>1. PICK n \in Nat : n = Cardinality(S)
  BY FS_CardinalityType
<1>2. PICK s : s = Ascending(S)
  OBVIOUS
<1>3. Lists(s, n, S)
  <2>1. \E t \in [1..n -> S] : \A i, j \in 1..n : i < j => t[i] < t[j]
    BY <1>1, CanBeListed DEF Lists
  <2> QED BY <1>1, <1>2, <2>1 DEF Ascending, Lists
<1>4. s \in Injection(1..n, S)
  <2>1. \A i, j \in 1..n : s[i] \in Nat /\ s[j] \in Nat /\ (i < j => s[i] < s[j])
    BY <1>3 DEF Lists
  <2>2. \A i, j \in 1..n : s[i] = s[j] => i = j
    BY <2>1
  <2> QED BY <1>3, <2>2 DEF Lists, Injection, IsInjective
<1>5. IsFiniteSet(1..n) /\ Cardinality(1..n) = Cardinality(S)
  BY <1>1, FS_Interval
<1>6. s \in Surjection(1..n, S)
  BY <1>4, <1>5, FS_Injection
<1>7. \A k \in S : \E i \in 1..n : s[i] = k
  BY <1>6 DEF Surjection
<1> QED BY <1>1, <1>2, <1>3, <1>7

-----------------------------------------------------------------------------
(* Rows, and what they are folded to.                                      *)

Row == [sequence: Nat, point: Point, at: Nat, epoch: Nat]
Seen == [first: Nat, last: Nat, epoch: Nat]
Folded == UNION {[S -> Seen] : S \in SUBSET Point}

\* Rows with numbers of their own, below a bound.
Numbered(rows) ==
    /\ rows \in SUBSET Row
    /\ \A x, y \in rows : x.sequence = y.sequence => x = y
    /\ \E n \in Nat : \A x \in rows : x.sequence <= n

InOrder(s) == \A i, j \in 1..Len(s) : i < j => s[i].sequence < s[j].sequence

\* BySequence (the sort of a find) lists all the rows, in the order of their
\* numbers.
LEMMA BySequenceSorts ==
    ASSUME NEW rows, Numbered(rows)
    PROVE  /\ BySequence(rows) \in Seq(rows)
           /\ InOrder(BySequence(rows))
           /\ \A x \in rows : \E i \in 1..Len(BySequence(rows)) : BySequence(rows)[i] = x
<1>1. PICK S : S = {x.sequence : x \in rows}
  OBVIOUS
<1>2. S \in SUBSET Nat
  BY <1>1 DEF Numbered, Row
<1>3. IsFiniteSet(S)
  <2>1. PICK n \in Nat : \A x \in rows : x.sequence <= n
    BY DEF Numbered
  <2>2. \A k \in S : k <= n
    BY <1>1, <2>1
  <2> QED BY <1>2, <2>2, FS_BoundedSetOfNaturals
<1>4. PICK s, n : s = Ascending(S) /\ n = Cardinality(S)
  OBVIOUS
<1>5. /\ n \in Nat /\ s \in [1..n -> S]
      /\ \A i, j \in 1..n : i < j => s[i] < s[j]
      /\ \A k \in S : \E i \in 1..n : s[i] = k
  BY <1>2, <1>3, <1>4, AscendingLists DEF Lists
<1>6. PICK t : t = BySequence(rows)
  OBVIOUS
<1>7. t = [i \in 1..n |-> CHOOSE x \in rows : x.sequence = s[i]]
  BY <1>1, <1>4, <1>5, <1>6 DEF BySequence
<1>8. \A i \in 1..n : t[i] \in rows /\ t[i].sequence = s[i]
  <2>1. SUFFICES ASSUME NEW i \in 1..n PROVE t[i] \in rows /\ t[i].sequence = s[i]
    OBVIOUS
  <2>2. s[i] \in S
    BY <1>5
  <2>3. \E x \in rows : x.sequence = s[i]
    BY <1>1, <2>2
  <2>4. t[i] = CHOOSE x \in rows : x.sequence = s[i]
    BY <1>7
  <2> QED BY <2>3, <2>4
<1>9. t \in Seq(rows) /\ Len(t) = n
  <2>1. t \in [1..n -> rows]
    BY <1>7, <1>8
  <2> QED BY <1>5, <2>1
<1>10. InOrder(t)
  BY <1>5, <1>8, <1>9 DEF InOrder
<1>11. ASSUME NEW x \in rows
       PROVE  \E i \in 1..n : t[i] = x
  <2>1. x.sequence \in S
    BY <1>1
  <2>2. PICK i \in 1..n : s[i] = x.sequence
    BY <1>5, <2>1
  <2>3. t[i] \in rows /\ t[i].sequence = x.sequence
    BY <1>8, <2>2
  <2> QED BY <2>3 DEF Numbered
<1> QED BY <1>6, <1>9, <1>10, <1>11

\* A page is the lowest numbers behind the cursor, and none among them is left
\* out (the sorted find of a flush, with its limit).
LEMMA PageSkipsNone ==
    ASSUME Numbered(buffer), NEW after \in Nat, NEW page, page = page_after(after)
    PROVE  /\ page \in Seq(Row) /\ InOrder(page)
           /\ \A i \in 1..Len(page) : page[i] \in buffer /\ page[i].sequence > after
           /\ page = <<>> => \A x \in buffer : x.sequence <= after
           /\ page # <<>> => \A x \in buffer :
                 after < x.sequence /\ x.sequence <= Last(page).sequence
                     => \E i \in 1..Len(page) : page[i] = x
<1>1. PICK rows : rows = {x \in buffer : x.sequence > after}
  OBVIOUS
<1>2. Numbered(rows) /\ rows \in SUBSET Row
  BY <1>1 DEF Numbered
<1>3. PICK s : s = BySequence(rows)
  OBVIOUS
<1>4. /\ s \in Seq(rows) /\ InOrder(s)
      /\ \A x \in rows : \E i \in 1..Len(s) : s[i] = x
  BY <1>2, <1>3, BySequenceSorts
<1>5. PICK k : k = IF Len(s) < PageSize THEN Len(s) ELSE PageSize
  OBVIOUS
<1>6. /\ k \in Nat /\ k <= Len(s) /\ Len(s) \in Nat
      /\ k = 0 => Len(s) = 0
  BY <1>4, <1>5, ArchiveAssumption
<1>7. page = SubSeq(s, 1, k)
  BY <1>1, <1>3, <1>5 DEF page_after
<1>8. Len(page) = k /\ page \in Seq(rows) /\ \A i \in 1..k : page[i] = s[i]
  BY <1>4, <1>6, <1>7
<1>9. \A i \in 1..Len(page) : page[i] \in rows
  BY <1>8
<1>10. InOrder(page)
  <2>1. \A i \in 1..k : i \in 1..Len(s)
    BY <1>6
  <2>2. \A i, j \in 1..k : i < j => s[i].sequence < s[j].sequence
    BY <1>4, <2>1 DEF InOrder
  <2> QED BY <1>8, <2>2 DEF InOrder
<1>11. page \in Seq(Row)
  BY <1>2, <1>8
<1>12. ASSUME page = <<>>
       PROVE  rows = {}
  <2>1. Len(s) = 0
    BY <1>6, <1>8, <1>12
  <2> QED BY <1>4, <2>1
<1>13. ASSUME page # <<>>, NEW x \in rows, x.sequence <= Last(page).sequence
       PROVE  \E i \in 1..Len(page) : page[i] = x
  <2>1. k >= 1 /\ Last(page) = s[k]
    BY <1>6, <1>8, <1>13 DEF Last
  <2>2. PICK i \in 1..Len(s) : s[i] = x
    BY <1>4
  <2>3. i <= k
    <3>1. CASE k < i
      <4>1. k \in 1..Len(s)
        BY <1>6, <2>1
      <4>2. s[k].sequence < s[i].sequence
        BY <1>4, <3>1, <4>1 DEF InOrder
      <4>3. s[k] \in Row /\ s[i] \in Row
        BY <1>2, <1>4, <4>1
      <4> QED BY <1>13, <2>1, <2>2, <4>2, <4>3 DEF Row
    <3> QED BY <1>6, <3>1
  <2> QED BY <1>8, <2>2, <2>3
<1>14. page = <<>> => \A x \in buffer : x.sequence <= after
  BY <1>1, <1>12 DEF Numbered, Row
<1> QED BY <1>1, <1>9, <1>10, <1>11, <1>13, <1>14

-----------------------------------------------------------------------------
(* Folding rows in, one after another.                                     *)

FoldRows(base, s) == FoldLeft(fold_in, base, s)

\* The function FoldLeft is made of, for the first k rows.
IsIter(f, base, s, k) ==
    f = [S \in SUBSET (1..k) |->
            IF S = {} THEN base ELSE fold_in(f[S \ {Max(S)}], s[Max(S)])]

LEMMA MaxOfInterval ==
    ASSUME NEW k \in Nat, NEW S \in SUBSET (1..k), k \in S
    PROVE  Max(S) = k
<1>1. \A y \in S : y \in Nat /\ k >= y
  OBVIOUS
<1>2. PICK m : m = Max(S)
  OBVIOUS
<1>3. m \in S /\ \A y \in S : m >= y
  BY <1>1, <1>2 DEF Max
<1>4. m = k
  BY <1>1, <1>3
<1> QED BY <1>2, <1>4

\* It exists for any number of rows: the least number for which it did not
\* would be one more than a number for which it does.
LEMMA IterExists ==
    ASSUME NEW base, NEW s, NEW n \in Nat
    PROVE  \E f : IsIter(f, base, s, n)
<1> DEFINE Bad == {k \in Nat : ~ \E f : IsIter(f, base, s, k)}
<1>1. SUFFICES ASSUME Bad # {} PROVE FALSE
  OBVIOUS
<1>2. PICK k \in Bad : \A m \in Bad : k <= m
  <2>1. Bad \in SUBSET Nat
    OBVIOUS
  <2> HIDE DEF Bad
  <2> QED BY <1>1, <2>1, LeastNumber
<1>3. k \in Nat /\ ~ \E f : IsIter(f, base, s, k)
  BY <1>2
<1>4. k # 0
  <2>1. SUFFICES ASSUME k = 0 PROVE FALSE
    OBVIOUS
  <2>2. PICK f : f = [S \in SUBSET (1..k) |-> base]
    OBVIOUS
  <2>3. \A S \in SUBSET (1..k) : S = {}
    BY <2>1
  <2>4. f = [S \in SUBSET (1..k) |->
               IF S = {} THEN base ELSE fold_in(f[S \ {Max(S)}], s[Max(S)])]
    BY <2>2, <2>3
  <2> QED BY <1>3, <2>4 DEF IsIter
<1>5. PICK h : IsIter(h, base, s, k - 1)
  <2>1. k - 1 \in Nat /\ k - 1 \notin Bad
    BY <1>2, <1>3, <1>4
  <2> QED BY <2>1
<1> HIDE DEF Bad
<1>6. PICK f : f = [S \in SUBSET (1..k) |->
                      IF k \in S THEN fold_in(h[S \ {k}], s[k]) ELSE h[S]]
  OBVIOUS
<1>7. ASSUME NEW S \in SUBSET (1..k)
      PROVE  f[S] = IF S = {} THEN base ELSE fold_in(f[S \ {Max(S)}], s[Max(S)])
  <2>1. \A T \in SUBSET (1..k) : k \notin T =>
           /\ T \in SUBSET (1..(k - 1)) /\ T \in SUBSET (1..k)
           /\ f[T] = h[T]
    BY <1>3, <1>6
  <2>2. CASE k \in S
    <3>1. Max(S) = k
      BY <1>3, <2>2, MaxOfInterval
    <3>2. f[S \ {k}] = h[S \ {k}]
      BY <2>1
    <3>3. f[S] = fold_in(h[S \ {k}], s[k])
      BY <1>6, <2>2
    <3> QED BY <2>2, <3>1, <3>2, <3>3
  <2>3. CASE k \notin S
    <3>1. S \in SUBSET (1..(k - 1)) /\ f[S] = h[S]
      BY <2>1, <2>3
    <3>2. f[S \ {Max(S)}] = h[S \ {Max(S)}]
      BY <2>1, <2>3
    <3>3. h[S] = IF S = {} THEN base ELSE fold_in(h[S \ {Max(S)}], s[Max(S)])
      BY <1>5, <3>1 DEF IsIter
    <3> QED BY <3>1, <3>2, <3>3
  <2> QED BY <2>2, <2>3
<1>8. IsIter(f, base, s, k)
  <2>1. f = [S \in SUBSET (1..k) |-> f[S]]
    BY <1>6
  <2> QED BY <1>7, <2>1 DEF IsIter
<1> QED BY <1>3, <1>8

\* The fold runs through its sequence row by row.
IsTrace(g, base, s) ==
    /\ g[0] = base
    /\ \A n \in 1..Len(s) : g[n] = fold_in(g[n - 1], s[n])
    /\ g[Len(s)] = FoldRows(base, s)

LEMMA FoldRowByRow ==
    ASSUME NEW base, NEW s \in Seq(Row)
    PROVE  \E g : IsTrace(g, base, s)
<1>1. Len(s) \in Nat /\ DOMAIN s = 1..Len(s)
  OBVIOUS
<1>2. PICK it : it = CHOOSE f : IsIter(f, base, s, Len(s))
  OBVIOUS
<1>3. IsIter(it, base, s, Len(s))
  BY <1>1, <1>2, IterExists
<1>4. FoldRows(base, s) = it[1..Len(s)]
  BY <1>1, <1>2, Zenon DEF FoldRows, FoldLeft, MapThenFoldSet, IsIter
<1>5. PICK g : g = [n \in 0..Len(s) |-> it[1..n]]
  OBVIOUS
<1>6. g[0] = base
  <2>1. 1..0 = {} /\ {} \in SUBSET (1..Len(s)) /\ 0 \in 0..Len(s)
    BY <1>1
  <2>2. it[{}] = base
    BY <1>3, <2>1 DEF IsIter
  <2> QED BY <1>5, <2>1, <2>2
<1>7. ASSUME NEW n \in 1..Len(s)
      PROVE  g[n] = fold_in(g[n - 1], s[n])
  <2>1. 1..n \in SUBSET (1..Len(s)) /\ n \in 1..n /\ 1..n # {} /\ n \in Nat
    <3>1. n \in Nat /\ n <= Len(s) /\ n >= 1
      BY <1>1
    <3>2. n \in 1..n
      BY <3>1
    <3>3. \A i \in 1..n : i \in 1..Len(s)
      BY <1>1, <3>1
    <3> QED BY <3>1, <3>2, <3>3
  <2>2. Max(1..n) = n
    BY <2>1, MaxOfInterval
  <2>3. (1..n) \ {n} = 1..(n - 1)
    BY <2>1
  <2>4. it[1..n] = fold_in(it[(1..n) \ {n}], s[n])
    BY <1>3, <2>1, <2>2 DEF IsIter
  <2>5. g[n] = it[1..n] /\ g[n - 1] = it[1..(n - 1)]
    BY <1>1, <1>5, <2>1
  <2> QED BY <2>3, <2>4, <2>5
<1>8. g[Len(s)] = it[1..Len(s)]
  BY <1>1, <1>5
<1> QED BY <1>4, <1>6, <1>7, <1>8 DEF IsTrace

\* What the first n rows of s, folded into base, come to: nothing is lost or
\* counted backwards, and the first observation stays the first.
FoldsTo(base, s, n, F) ==
    /\ F \in Folded
    /\ DOMAIN F = DOMAIN base \cup {s[i].point : i \in 1..n}
    /\ \A p \in DOMAIN base : /\ F[p].first = base[p].first
                              /\ base[p].last <= F[p].last
                              /\ base[p].epoch <= F[p].epoch
    /\ \A i \in 1..n : /\ s[i].at <= F[s[i].point].last
                       /\ s[i].epoch <= F[s[i].point].epoch
    /\ \A p \in DOMAIN F :
          /\ \/ p \in DOMAIN base /\ F[p].last = base[p].last
             \/ \E i \in 1..n : s[i].point = p /\ s[i].at = F[p].last
          /\ \/ p \in DOMAIN base /\ F[p].epoch = base[p].epoch
             \/ \E i \in 1..n : s[i].point = p /\ s[i].epoch = F[p].epoch
          /\ p \notin DOMAIN base => \E i \in 1..n :
                /\ s[i].point = p /\ s[i].at = F[p].first
                /\ \A j \in 1..(i - 1) : s[j].point # p

LEMMA FoldedFacts ==
    /\ \A F \in Folded : /\ DOMAIN F \subseteq Point
                         /\ \A p \in DOMAIN F : F[p] \in Seen
                         /\ F = [p \in DOMAIN F |-> F[p]]
    /\ \A S \in SUBSET Point : [S -> Seen] \subseteq Folded
BY DEF Folded

\* One row more (_fold_in, the UpdateOne of a flush).
LEMMA FoldOneMore ==
    ASSUME NEW base \in Folded, NEW s \in Seq(Row), NEW n \in 1..Len(s),
           NEW F, FoldsTo(base, s, n - 1, F)
    PROVE  FoldsTo(base, s, n, fold_in(F, s[n]))
<1>1. PICK row \in Row : row = s[n]
  OBVIOUS
<1>2. PICK G : G = fold_in(F, row)
  OBVIOUS
<1>3. /\ F \in Folded /\ DOMAIN F \subseteq Point /\ \A p \in DOMAIN F : F[p] \in Seen
      /\ \A p \in DOMAIN base : base[p] \in Seen
      /\ n \in Nat /\ n >= 1 /\ n <= Len(s) /\ Len(s) \in Nat
  BY FoldedFacts DEF FoldsTo
<1>4. /\ row.point \in Point /\ row.at \in Nat /\ row.epoch \in Nat
  BY DEF Row
<1>5. PICK new : new = IF row.point \in DOMAIN F THEN advanced(F[row.point], row)
                       ELSE [first |-> row.at, last |-> row.at, epoch |-> row.epoch]
  OBVIOUS
<1>6. /\ DOMAIN G = DOMAIN F \cup {row.point}
      /\ G[row.point] = new
      /\ \A p \in DOMAIN F : p # row.point => G[p] = F[p]
      /\ G = [p \in DOMAIN F \cup {row.point} |-> IF p = row.point THEN new ELSE F[p]]
  BY <1>2, <1>5 DEF fold_in
<1>8. /\ new \in Seen
      /\ row.at <= new.last /\ row.epoch <= new.epoch
      /\ row.point \in DOMAIN F =>
            /\ new.first = F[row.point].first
            /\ F[row.point].last <= new.last /\ new.last \in {F[row.point].last, row.at}
            /\ F[row.point].epoch <= new.epoch
            /\ new.epoch \in {F[row.point].epoch, row.epoch}
      /\ row.point \notin DOMAIN F =>
            new.first = row.at /\ new.last = row.at /\ new.epoch = row.epoch
  <2>1. CASE row.point \in DOMAIN F
    <3>1. PICK old \in Seen : old = F[row.point]
      BY <1>3, <2>1
    <3>2. /\ new \in Seen /\ new.first = old.first
          /\ new.last = larger(old.last, row.at) /\ new.epoch = larger(old.epoch, row.epoch)
      BY <1>4, <1>5, <2>1, <3>1 DEF advanced, Seen, larger
    <3>3. /\ old.last <= new.last /\ row.at <= new.last /\ new.last \in {old.last, row.at}
          /\ old.epoch <= new.epoch /\ row.epoch <= new.epoch
          /\ new.epoch \in {old.epoch, row.epoch}
      BY SMTT(30), <1>4, <3>1, <3>2 DEF larger, Seen
    <3> QED BY <2>1, <3>1, <3>2, <3>3
  <2>2. CASE row.point \notin DOMAIN F
    BY <1>4, <1>5, <2>2 DEF Seen
  <2> QED BY <2>1, <2>2
<1>9. G \in Folded
  <2>1. DOMAIN G \in SUBSET Point
    BY <1>3, <1>4, <1>6
  <2>2. G \in [DOMAIN G -> Seen]
    BY <1>3, <1>6, <1>8
  <2> QED BY <2>1, <2>2, FoldedFacts
<1>10. \A i \in 1..n : i \in 1..(n - 1) \/ i = n
  BY <1>3
<1>11. \A i \in 1..(n - 1) : i \in 1..n /\ s[i] \in Row /\ s[i].point \in DOMAIN F
  <2>1. \A i \in 1..(n - 1) : i \in 1..n /\ i \in 1..Len(s)
    BY <1>3
  <2> QED BY <2>1 DEF FoldsTo
<1>12. DOMAIN G = DOMAIN base \cup {s[i].point : i \in 1..n}
  BY <1>1, <1>3, <1>6, <1>10, <1>11 DEF FoldsTo
<1>13. \A p \in DOMAIN F : /\ G[p].first = F[p].first /\ F[p].last <= G[p].last
                          /\ F[p].epoch <= G[p].epoch
                          /\ F[p].last \in Nat /\ F[p].epoch \in Nat
                          /\ G[p].last \in Nat /\ G[p].epoch \in Nat
  BY <1>3, <1>6, <1>8 DEF Seen
<1>14. \A p \in DOMAIN base : /\ G[p].first = base[p].first
                             /\ base[p].last <= G[p].last
                             /\ base[p].epoch <= G[p].epoch
  <2>1. \A p \in DOMAIN base : p \in DOMAIN F /\ base[p].last \in Nat /\ base[p].epoch \in Nat
    BY <1>3 DEF FoldsTo, Seen
  <2> QED BY <1>13, <2>1 DEF FoldsTo
<1>15. ASSUME NEW i \in 1..n
       PROVE  s[i].at <= G[s[i].point].last /\ s[i].epoch <= G[s[i].point].epoch
  <2>1. CASE i = n
    BY <1>1, <1>6, <1>8, <2>1
  <2>2. CASE i \in 1..(n - 1)
    <3>1. /\ s[i].at <= F[s[i].point].last /\ s[i].epoch <= F[s[i].point].epoch
          /\ s[i].at \in Nat /\ s[i].epoch \in Nat
      BY <1>11, <2>2 DEF FoldsTo, Row
    <3>2. PICK p : p = s[i].point
      OBVIOUS
    <3>3. /\ F[p].last <= G[p].last /\ F[p].epoch <= G[p].epoch
          /\ F[p].last \in Nat /\ F[p].epoch \in Nat
          /\ G[p].last \in Nat /\ G[p].epoch \in Nat
      BY <1>11, <1>13, <2>2, <3>2
    <3> QED BY SMTT(30), <3>1, <3>2, <3>3
  <2> QED BY <1>10, <2>1, <2>2
<1>16. ASSUME NEW p \in DOMAIN G
       PROVE  /\ \/ p \in DOMAIN base /\ G[p].last = base[p].last
                 \/ \E i \in 1..n : s[i].point = p /\ s[i].at = G[p].last
              /\ \/ p \in DOMAIN base /\ G[p].epoch = base[p].epoch
                 \/ \E i \in 1..n : s[i].point = p /\ s[i].epoch = G[p].epoch
              /\ p \notin DOMAIN base => \E i \in 1..n :
                    /\ s[i].point = p /\ s[i].at = G[p].first
                    /\ \A j \in 1..(i - 1) : s[j].point # p
  <2>1. n \in 1..n /\ s[n] = row
    BY <1>1, <1>3
  <2>2. CASE p \notin DOMAIN F
    <3>1. p = row.point
      BY <1>6, <2>2
    <3>2. \A j \in 1..(n - 1) : s[j].point # p
      BY <1>11, <2>2
    <3> QED BY <1>6, <1>8, <2>1, <2>2, <3>1, <3>2
  <2>3. CASE p \in DOMAIN F
    <3>1. /\ \/ p \in DOMAIN base /\ F[p].last = base[p].last
             \/ \E i \in 1..(n - 1) : s[i].point = p /\ s[i].at = F[p].last
          /\ \/ p \in DOMAIN base /\ F[p].epoch = base[p].epoch
             \/ \E i \in 1..(n - 1) : s[i].point = p /\ s[i].epoch = F[p].epoch
          /\ p \notin DOMAIN base => \E i \in 1..(n - 1) :
                /\ s[i].point = p /\ s[i].at = F[p].first
                /\ \A j \in 1..(i - 1) : s[j].point # p
      BY <2>3 DEF FoldsTo
    <3>2. \/ G[p].last = F[p].last
          \/ s[n].point = p /\ s[n].at = G[p].last
      BY <1>6, <1>8, <2>1, <2>3
    <3>3. \/ G[p].epoch = F[p].epoch
          \/ s[n].point = p /\ s[n].epoch = G[p].epoch
      BY <1>6, <1>8, <2>1, <2>3
    <3>4. G[p].first = F[p].first
      BY <1>13, <2>3
    <3>5. \A i \in 1..(n - 1) : i \in 1..n
      BY <1>11
    <3>6. \/ p \in DOMAIN base /\ G[p].last = base[p].last
          \/ \E i \in 1..n : s[i].point = p /\ s[i].at = G[p].last
      BY <2>1, <3>1, <3>2, <3>5
    <3>7. \/ p \in DOMAIN base /\ G[p].epoch = base[p].epoch
          \/ \E i \in 1..n : s[i].point = p /\ s[i].epoch = G[p].epoch
      BY <2>1, <3>1, <3>3, <3>5
    <3>8. p \notin DOMAIN base => \E i \in 1..n :
             /\ s[i].point = p /\ s[i].at = G[p].first
             /\ \A j \in 1..(i - 1) : s[j].point # p
      BY <3>1, <3>4, <3>5
    <3> QED BY <3>6, <3>7, <3>8
  <2> QED BY <2>2, <2>3
<1> QED BY <1>1, <1>2, <1>9, <1>12, <1>14, <1>15, <1>16 DEF FoldsTo

\* So the fold of a page, or of the buffer, comes to what it should.
LEMMA FoldRowsFoldsTo ==
    ASSUME NEW base \in Folded, NEW s \in Seq(Row)
    PROVE  FoldsTo(base, s, Len(s), FoldRows(base, s))
<1>0. PICK g : IsTrace(g, base, s)
  BY FoldRowByRow
<1>1. /\ g[0] = base
      /\ \A n \in 1..Len(s) : g[n] = fold_in(g[n - 1], s[n])
      /\ g[Len(s)] = FoldRows(base, s)
  BY <1>0 DEF IsTrace
<1> DEFINE Bad == {n \in 0..Len(s) : ~FoldsTo(base, s, n, g[n])}
<1>2. SUFFICES ASSUME Bad # {} PROVE FALSE
  BY <1>1
<1>3. PICK n \in Bad : \A m \in Bad : n <= m
  <2>1. Bad \in SUBSET Nat
    OBVIOUS
  <2> HIDE DEF Bad
  <2> QED BY <1>2, <2>1, LeastNumber
<1>4. n \in 0..Len(s) /\ ~FoldsTo(base, s, n, g[n]) /\ Len(s) \in Nat
  BY <1>3
<1>5. n # 0
  <2>1. \A p \in DOMAIN base : base[p].last \in Nat /\ base[p].epoch \in Nat
    BY FoldedFacts DEF Seen
  <2>2. 1..0 = {} /\ {s[i].point : i \in 1..0} = {}
    OBVIOUS
  <2>3. \A p \in DOMAIN base : base[p].last <= base[p].last /\ base[p].epoch <= base[p].epoch
    BY <2>1
  <2>4. FoldsTo(base, s, 0, base)
    BY <2>2, <2>3, Zenon DEF FoldsTo
  <2> QED BY <1>1, <1>4, <2>4
<1>6. n \in 1..Len(s) /\ n - 1 \in 0..Len(s) /\ ~(n <= n - 1)
  BY <1>4, <1>5
<1>7. FoldsTo(base, s, n - 1, g[n - 1])
  BY <1>3, <1>6
<1> QED BY <1>1, <1>4, <1>6, <1>7, FoldOneMore

-----------------------------------------------------------------------------
(* The inductive invariant.                                                *)

Working == {"none", "gather", "audit", "allocate", "insert", "coalesce", "park", "probe"}
Flushing == {"find", "commit", "clear"}
Status == {"none", "completed", "parked", "superseded", "failed"}

TaskType == [pc: Working \cup Flushing \cup Ended, status: Status,
             source: {"none", "operator", "inbox"}, added: Nat, rows: Seq(Row),
             counts: Nat, parking: BOOLEAN, page: Seq(Row), after: Nat,
             backstop: BOOLEAN, flushed: BOOLEAN, redrives: Nat]

ArchiveShapes ==
    /\ meta \in [sequence: Nat, max_epoch: Nat]
    /\ landed \in SUBSET Row /\ buffer \in SUBSET landed
    /\ committed \in Folded /\ late \in SUBSET Point

RunShapes ==
    /\ store_epoch \in Nat /\ audit_epoch \in Nat /\ merges \in Nat
    /\ trail \in [Run -> Nat] /\ merged \in [Run -> Nat]
    /\ task \in [Run -> TaskType]

\* The rows that landed, and those on their way with a number.
Issued ==
    landed \cup {x \in Row : \E r \in Run : /\ task[r].pc = "insert"
                                            /\ \E i \in 1..Len(task[r].rows) : task[r].rows[i] = x}

\* A number is handed out once, and a higher one to no lower epoch.
Numbers ==
    /\ \A x \in Issued : /\ 0 < x.sequence /\ x.sequence <= meta.sequence
                         /\ x.epoch <= meta.max_epoch
                         /\ x.point \in Pii => cipher
    /\ \A x, y \in Issued : /\ x.sequence = y.sequence => x = y
                            /\ x.sequence < y.sequence => x.epoch <= y.epoch

\* Committed with all the row says.
Covered(x) ==
    /\ x.point \in DOMAIN committed
    /\ x.at <= committed[x.point].last /\ x.epoch <= committed[x.point].epoch

\* A row leaves the buffer only for the committed rows, and these have nothing
\* from elsewhere.
Content ==
    /\ \A x \in landed \ buffer : Covered(x)
    /\ \A p \in DOMAIN committed : /\ \E x \in RowsOf(p) : x.at = committed[p].last
                                   /\ \E x \in RowsOf(p) : x.epoch = committed[p].epoch

\* The first observation of a point is that of its lowest number.
FirstKept ==
    \A p \in DOMAIN committed : p \notin late =>
        \E x \in RowsOf(p) : /\ x.at = committed[p].first
                             /\ \A y \in RowsOf(p) : x.sequence <= y.sequence

InPage(x, page) == \E i \in 1..Len(page) : page[i] = x

\* Where a run with locals t can be.
Staged(t) ==
    /\ t.pc \in Working => t.status = "none"
    /\ t.pc # "audit" => t.added = 0
    /\ t.pc \notin {"gather", "audit", "allocate", "insert", "coalesce"} => t.counts = 0
    /\ t.page # <<>> <=> t.pc \in {"commit", "clear"}
    /\ t.pc \notin Flushing => t.after = 0
    /\ t.pc \in Flushing /\ t.status # "none" => t.backstop
    /\ t.backstop => t.status # "none"
    /\ t.flushed => t.pc = "probe" \/ t.redrives > 0

\* The run's merges are in its audit rows, or will be.
Balanced(r, t) ==
    /\ trail[r] + t.added + t.counts <= merged[r]
    /\ t.status \in Clean \cup {"none"} /\ r \notin absorbed =>
          trail[r] + t.added + t.counts = merged[r]

\* The run's own rows are ahead of its flush, or in the page.
OwnAhead(r, t) ==
    \A x \in buffer : x.epoch = EpochOf[r] =>
        /\ t.pc = "find" => t.after < x.sequence
        /\ t.page # <<>> /\ x.sequence <= Last(t.page).sequence => InPage(x, t.page)
        /\ t.pc # "probe"
        /\ t.pc = "released" /\ t.status \in Clean => t.status = "parked" /\ t.redrives > 0

\* A page is rows that landed, in order; once written they are covered.
PageOK(t) ==
    /\ InOrder(t.page)
    /\ \A i \in 1..Len(t.page) : t.page[i] \in landed /\ (t.pc = "clear" => Covered(t.page[i]))

\* A flush has passed no row of a point that is still to be committed, unless
\* the row landed late.
PassedNone(t) ==
    \A x \in landed : x.point \notin late /\ x.point \notin DOMAIN committed =>
        /\ t.after < x.sequence
        /\ t.page # <<>> /\ x.sequence <= Last(t.page).sequence => InPage(x, t.page)

Fits(r, t) ==
    /\ t \in TaskType
    /\ \A i \in 1..Len(t.rows) : t.rows[i].epoch = EpochOf[r]
    /\ Staged(t) /\ Balanced(r, t) /\ OwnAhead(r, t) /\ PageOK(t) /\ PassedNone(t)

WriteBehindInv ==
    /\ ArchiveShapes /\ RunShapes /\ Numbers /\ Content /\ FirstKept
    /\ \A r \in Run : Fits(r, task[r])

-----------------------------------------------------------------------------
(* The archive as a step of run r leaves it.                               *)

\* What the others may rely on.
Harmless(r) ==
    /\ landed \subseteq landed' /\ late \subseteq late'
    /\ \A x \in buffer' : x \in buffer \/ x.epoch = EpochOf[r]
    /\ \A x \in landed' : \/ x \in landed
                          \/ x.point \in late'
                          \/ \A n \in Passed : n < x.sequence
    /\ \A p \in DOMAIN committed : /\ p \in DOMAIN committed'
                                   /\ committed[p].last <= committed'[p].last
                                   /\ committed[p].epoch <= committed'[p].epoch

ArchiveKept(r) ==
    /\ ArchiveShapes' /\ Numbers' /\ Content' /\ FirstKept'
    /\ Harmless(r)

LEMMA CoveredKept ==
    ASSUME ArchiveShapes, ArchiveShapes', NEW r, Harmless(r), NEW x \in Row, Covered(x)
    PROVE  Covered(x)'
<1>1. PICK p : p = x.point
  OBVIOUS
<1>2. PICK a, b : a = committed[p] /\ b = committed'[p]
  OBVIOUS
<1>3. p \in DOMAIN committed /\ x.at <= a.last /\ x.epoch <= a.epoch /\ a \in Seen
  BY <1>1, <1>2, FoldedFacts DEF Covered, ArchiveShapes
<1>4. p \in DOMAIN committed' /\ a.last <= b.last /\ a.epoch <= b.epoch
  BY <1>2, <1>3 DEF Harmless
<1>5. b \in Seen
  BY <1>2, <1>4, FoldedFacts DEF ArchiveShapes
<1>6. x.at <= b.last /\ x.epoch <= b.epoch
  BY <1>3, <1>4, <1>5 DEF Seen, Row
<1> QED BY <1>1, <1>2, <1>4, <1>6 DEF Covered

LEMMA LastOfPage ==
    ASSUME NEW page \in Seq(Row), page # <<>>
    PROVE  /\ Len(page) \in 1..Len(page) /\ Last(page) = page[Len(page)]
           /\ Last(page) \in Row /\ Last(page).sequence \in Nat
<1>1. Len(page) \in Nat /\ Len(page) # 0
  OBVIOUS
<1>2. Len(page) \in 1..Len(page)
  BY <1>1
<1>3. page[Len(page)] \in Row
  BY <1>2
<1> QED BY <1>2, <1>3 DEF Last, Row

\* The other runs stay where they are.
LEMMA OthersFit ==
    ASSUME WriteBehindInv, NEW r \in Run, ArchiveKept(r), NEW q \in Run, q # r,
           trail'[q] = trail[q], merged'[q] = merged[q], absorbed \subseteq absorbed',
           NEW t, t = task[q]
    PROVE  Fits(q, t)'
<1>1. /\ Fits(q, t) /\ t \in TaskType /\ t.page \in Seq(Row)
      /\ ArchiveShapes /\ ArchiveShapes' /\ Harmless(r)
  BY DEF WriteBehindInv, Fits, TaskType, ArchiveKept
<1>2. Balanced(q, t)'
  BY <1>1 DEF Fits, Balanced
<1>3. OwnAhead(q, t)'
  <2>1. EpochOf[q] # EpochOf[r]
    BY WriteBehindAssumption
  <2>2. \A x \in buffer' : x.epoch = EpochOf[q] => x \in buffer
    BY <1>1, <2>1 DEF Harmless
  <2> QED BY <1>1, <2>2 DEF Fits, OwnAhead
<1>4. PageOK(t)'
  <2>1. InOrder(t.page) /\ \A i \in 1..Len(t.page) : t.page[i] \in landed /\ t.page[i] \in landed'
    BY <1>1 DEF Fits, PageOK, Harmless
  <2>2. ASSUME NEW i \in 1..Len(t.page), t.pc = "clear"
        PROVE  Covered(t.page[i])'
    <3>1. Covered(t.page[i]) /\ t.page[i] \in Row
      BY <1>1, <2>2 DEF Fits, PageOK
    <3> QED BY <1>1, <3>1, CoveredKept
  <2> QED BY <2>1, <2>2 DEF PageOK
<1>5. PassedNone(t)'
  <2>1. SUFFICES ASSUME NEW x \in landed', x.point \notin late', x.point \notin DOMAIN committed'
                 PROVE  /\ t.after < x.sequence
                        /\ t.page # <<>> /\ x.sequence <= Last(t.page).sequence => InPage(x, t.page)
    BY DEF PassedNone
  <2>2. x.point \notin late /\ x.point \notin DOMAIN committed /\ x \in Row
    BY <1>1, <2>1 DEF Harmless, ArchiveShapes
  <2>3. CASE x \in landed
    BY <1>1, <2>2, <2>3 DEF Fits, PassedNone
  <2>4. CASE \A n \in Passed : n < x.sequence
    <3>1. t.after < x.sequence
      BY <2>4 DEF Passed
    <3>2. ASSUME t.page # <<>> PROVE ~(x.sequence <= Last(t.page).sequence)
      <4>1. Last(t.page).sequence \in Passed
        BY <3>2 DEF Passed
      <4>2. Last(t.page).sequence \in Nat
        BY <1>1, <3>2, LastOfPage
      <4> QED BY <2>2, <2>4, <4>1, <4>2 DEF Row
    <3> QED BY <3>1, <3>2
  <2> QED BY <1>1, <2>1, <2>3, <2>4 DEF Harmless
<1>6. Staged(t)' /\ (t \in TaskType)' /\ (\A i \in 1..Len(t.rows) : t.rows[i].epoch = EpochOf[q])'
  BY <1>1 DEF Fits, Staged
<1> QED BY <1>2, <1>3, <1>4, <1>5, <1>6 DEF Fits

\* The rest of the state as a step of run r leaves it.
RunKept(r) ==
    /\ store_epoch' \in Nat /\ audit_epoch' \in Nat /\ merges' \in Nat
    /\ trail' \in [Run -> Nat] /\ merged' \in [Run -> Nat]
    /\ \A q \in Run : q # r => trail'[q] = trail[q] /\ merged'[q] = merged[q]
    /\ absorbed \subseteq absorbed'

\* One run moves; the rest of the invariant follows.
LEMMA StepKeeps ==
    ASSUME WriteBehindInv, NEW r \in Run, NEW t, Becomes(r, t), Fits(r, t)', ArchiveKept(r),
           RunKept(r)
    PROVE  WriteBehindInv'
<1>1. task \in [Run -> TaskType] /\ t \in TaskType
  BY DEF WriteBehindInv, RunShapes, Fits
<1>2. task' \in [Run -> TaskType] /\ task'[r] = t /\ \A q \in Run : q # r => task'[q] = task[q]
  BY <1>1 DEF Becomes
<1>3. ASSUME NEW q \in Run PROVE Fits(q, task[q])'
  <2>1. CASE q = r
    BY <1>2, <2>1
  <2>2. CASE q # r
    <3>1. PICK u : u = task[q]
      OBVIOUS
    <3>2. Fits(q, u)'
      BY <2>2, <3>1, OthersFit DEF RunKept
    <3> QED BY <1>2, <2>2, <3>1, <3>2
  <2> QED BY <2>1, <2>2
<1> QED BY <1>2, <1>3 DEF WriteBehindInv, RunShapes, ArchiveKept, RunKept

-----------------------------------------------------------------------------
(* What each kind of step does to the archive.                             *)

LEMMA OwnFacts ==
    ASSUME WriteBehindInv, NEW r \in Run
    PROVE  /\ task[r] \in TaskType /\ task[r].rows \in Seq(Row) /\ task[r].page \in Seq(Row)
           /\ task[r].counts \in Nat /\ task[r].added \in Nat /\ task[r].after \in Nat
           /\ task[r].redrives \in Nat
           /\ EpochOf[r] \in Nat /\ trail[r] \in Nat /\ merged[r] \in Nat
           /\ Fits(r, task[r]) /\ Staged(task[r]) /\ Balanced(r, task[r])
           /\ OwnAhead(r, task[r]) /\ PageOK(task[r]) /\ PassedNone(task[r])
           /\ \A i \in 1..Len(task[r].rows) : task[r].rows[i].epoch = EpochOf[r]
<1>1. task[r] \in TaskType /\ trail[r] \in Nat /\ merged[r] \in Nat /\ Fits(r, task[r])
  BY DEF WriteBehindInv, RunShapes
<1>2. EpochOf[r] \in Nat
  BY WriteBehindAssumption
<1> QED BY <1>1, <1>2 DEF TaskType, Fits

\* Only the run whose rows land, or are numbered, changes what is issued.
LEMMA ReceivesNoRow ==
    ASSUME WriteBehindInv, NEW r \in Run, NEW t, Becomes(r, t), t.pc # "insert",
           landed' \subseteq Issued, meta' = meta, cipher' = cipher
    PROVE  Numbers'
<1>1. task \in [Run -> TaskType]
  BY DEF WriteBehindInv, RunShapes
<1>2. task'[r] = t /\ \A q \in Run : q # r => task'[q] = task[q]
  BY <1>1 DEF Becomes
<1>3. Issued' \subseteq Issued
  <2>1. SUFFICES ASSUME NEW x \in Issued' PROVE x \in Issued
    OBVIOUS
  <2>2. CASE x \in landed'
    BY <2>2
  <2>3. CASE x \notin landed'
    <3>1. x \in Row /\ \E q \in Run : /\ task'[q].pc = "insert"
                       /\ \E i \in 1..Len(task'[q].rows) : task'[q].rows[i] = x
      BY <2>1, <2>3 DEF Issued
    <3>2. PICK q \in Run : /\ task'[q].pc = "insert"
                           /\ \E i \in 1..Len(task'[q].rows) : task'[q].rows[i] = x
      BY <3>1
    <3>3. task'[q] = task[q]
      BY <1>2, <3>2
    <3> QED BY <3>1, <3>2, <3>3 DEF Issued
  <2> QED BY <2>2, <2>3
<1>4. Numbers
  BY DEF WriteBehindInv
<1> QED BY <1>3, <1>4 DEF Numbers

\* Most steps leave the archive alone.
LEMMA QuietArchive ==
    ASSUME WriteBehindInv, NEW r \in Run, NEW t, Becomes(r, t), t.pc # "insert",
           UNCHANGED archiveVars
    PROVE  ArchiveKept(r)
<1>1. /\ meta' = meta /\ buffer' = buffer /\ committed' = committed /\ cipher' = cipher
      /\ landed' = landed /\ late' = late
  BY DEF archiveVars
<1>2. ArchiveShapes /\ Content /\ FirstKept
  BY DEF WriteBehindInv
<1>3. ArchiveShapes' /\ Content' /\ FirstKept'
  BY <1>1, <1>2 DEF ArchiveShapes, Content, Covered, FirstKept, RowsOf
<1>4. Numbers'
  BY <1>1, ReceivesNoRow DEF Issued
<1>5. \A p \in DOMAIN committed : committed[p].last \in Nat /\ committed[p].epoch \in Nat
  BY <1>2, FoldedFacts DEF ArchiveShapes, Seen
<1>6. Harmless(r)
  BY <1>1, <1>5 DEF Harmless
<1> QED BY <1>3, <1>4, <1>6 DEF ArchiveKept

LEMMA PassedNumbers ==
    ASSUME WriteBehindInv
    PROVE  Passed \subseteq Nat
<1>1. \A q \in Run : task[q].after \in Nat
  BY OwnFacts
<1>2. \A q \in Run : task[q].page # <<>> => Last(task[q].page).sequence \in Nat
  BY OwnFacts, LastOfPage
<1> QED BY <1>1, <1>2 DEF Passed

\* Rows land (insert_many), all of them or the first k.
LEMMA ArchiveInsert ==
    ASSUME WriteBehindInv, NEW r \in Run, task[r].pc = "insert",
           NEW k \in 0..Len(task[r].rows),
           insert_many({task[r].rows[i] : i \in 1..k}, Passed),
           UNCHANGED <<meta, committed, cipher>>,
           NEW t, Becomes(r, t), t.pc # "insert"
    PROVE  ArchiveKept(r)
<1>1. PICK rows : rows = {task[r].rows[i] : i \in 1..k}
  OBVIOUS
<1>2. /\ task[r].rows \in Seq(Row) /\ Len(task[r].rows) \in Nat
      /\ \A i \in 1..Len(task[r].rows) : task[r].rows[i].epoch = EpochOf[r]
  BY OwnFacts
<1>3. \A i \in 1..k : i \in 1..Len(task[r].rows)
  BY <1>2
<1>4. \A x \in rows : x \in Row /\ x.epoch = EpochOf[r] /\ x \in Issued
  <2>1. \A i \in 1..k : task[r].rows[i] \in Row
    BY <1>2, <1>3
  <2> QED BY <1>1, <1>2, <1>3, <2>1 DEF Issued
<1>5. /\ buffer' = buffer \cup rows /\ landed' = landed \cup rows
      /\ late' = late \cup {x.point : x \in {x \in rows :
                   \/ \E y \in landed : y.point = x.point /\ y.sequence > x.sequence
                   \/ \E n \in Passed : x.sequence <= n}}
      /\ meta' = meta /\ committed' = committed /\ cipher' = cipher
  BY <1>1 DEF insert_many
<1>6. ArchiveShapes /\ Content /\ FirstKept
  BY DEF WriteBehindInv
<1>7. ArchiveShapes'
  <2>1. \A x \in rows : x.point \in Point
    BY <1>4 DEF Row
  <2> QED BY <1>4, <1>5, <1>6, <2>1 DEF ArchiveShapes
<1>8. Numbers'
  <2>1. landed' \subseteq Issued
    BY <1>4, <1>5 DEF Issued
  <2> QED BY <1>5, <2>1, ReceivesNoRow
<1>9. Content'
  <2>1. \A x \in landed' \ buffer' : x \in landed \ buffer
    BY <1>5
  <2> QED BY <1>5, <1>6, <2>1 DEF Content, Covered, RowsOf
<1>10. FirstKept'
  <2>1. SUFFICES ASSUME NEW p \in DOMAIN committed, p \notin late'
                 PROVE  \E x \in RowsOf(p)' : /\ x.at = committed[p].first
                                              /\ \A y \in RowsOf(p)' : x.sequence <= y.sequence
    BY <1>5 DEF FirstKept
  <2>2. PICK x \in RowsOf(p) : /\ x.at = committed[p].first
                               /\ \A y \in RowsOf(p) : x.sequence <= y.sequence
    BY <1>5, <1>6, <2>1 DEF FirstKept
  <2>3. x \in landed /\ x.point = p /\ x \in Row
    BY <1>6, <2>2 DEF RowsOf, ArchiveShapes
  <2>4. ASSUME NEW y \in rows, y.point = p PROVE x.sequence <= y.sequence
    <3>1. ~(x.sequence > y.sequence)
      BY <1>5, <2>1, <2>3, <2>4
    <3> QED BY <1>4, <2>3, <3>1 DEF Row
  <2> QED BY <1>5, <2>2, <2>3, <2>4 DEF RowsOf
<1>11. Harmless(r)
  <2>1. \A p \in DOMAIN committed : committed[p].last \in Nat /\ committed[p].epoch \in Nat
    BY <1>6, FoldedFacts DEF ArchiveShapes, Seen
  <2>2. ASSUME NEW x \in rows, x.point \notin late', NEW n \in Passed PROVE n < x.sequence
    <3>1. ~(x.sequence <= n)
      BY <1>5, <2>2
    <3> QED BY <1>4, <3>1, PassedNumbers DEF Row
  <2> QED BY <1>4, <1>5, <2>1, <2>2 DEF Harmless
<1> QED BY <1>7, <1>8, <1>9, <1>10, <1>11 DEF ArchiveKept

\* A page is committed (bulk_write), all of it or the first k rows.
LEMMA ArchiveCommit ==
    ASSUME WriteBehindInv, NEW r \in Run, task[r].pc = "commit",
           NEW page, page = task[r].page, NEW k \in 0..Len(page),
           NEW part, part = SubSeq(page, 1, k),
           committed' = FoldRows(committed, part),
           UNCHANGED <<meta, buffer, cipher, landed, late>>,
           NEW t, Becomes(r, t), t.pc # "insert"
    PROVE  /\ ArchiveKept(r)
           /\ \A i \in 1..k : Covered(page[i])'
<1>1. page = task[r].page
  OBVIOUS
<1>2. /\ page \in Seq(Row) /\ Len(page) \in Nat /\ k \in Nat /\ k <= Len(page)
      /\ PageOK(task[r]) /\ PassedNone(task[r]) /\ Staged(task[r])
  BY <1>1, OwnFacts
<1>3. /\ part \in Seq(Row) /\ Len(part) = k
      /\ \A i \in 1..k : i \in 1..Len(page) /\ part[i] = page[i] /\ page[i] \in Row
  BY <1>1, <1>2
<1>4. ArchiveShapes /\ Content /\ FirstKept
  BY DEF WriteBehindInv
<1>5. FoldsTo(committed, part, k, committed')
  BY <1>3, <1>4, FoldRowsFoldsTo DEF ArchiveShapes
<1>6. /\ meta' = meta /\ buffer' = buffer /\ cipher' = cipher /\ landed' = landed /\ late' = late
  OBVIOUS
<1>7. ArchiveShapes'
  BY <1>4, <1>5, <1>6 DEF ArchiveShapes, FoldsTo
<1>8. Numbers'
  BY <1>6, ReceivesNoRow DEF Issued
<1>9. Harmless(r)
  BY <1>5, <1>6 DEF Harmless, FoldsTo
<1>10. \A i \in 1..k : page[i] \in landed /\ page[i] \in landed'
  BY <1>1, <1>2, <1>3, <1>6 DEF PageOK
<1>11. Content'
  <2>1. ASSUME NEW x \in landed' \ buffer' PROVE Covered(x)'
    <3>1. x \in Row /\ Covered(x)
      BY <1>4, <1>6, <2>1 DEF ArchiveShapes, Content
    <3> QED BY <1>4, <1>7, <1>9, <3>1, CoveredKept
  <2>2. ASSUME NEW p \in DOMAIN committed'
        PROVE  /\ \E x \in RowsOf(p)' : x.at = committed'[p].last
               /\ \E x \in RowsOf(p)' : x.epoch = committed'[p].epoch
    <3>1. /\ \/ p \in DOMAIN committed /\ committed'[p].last = committed[p].last
             \/ \E i \in 1..k : part[i].point = p /\ part[i].at = committed'[p].last
          /\ \/ p \in DOMAIN committed /\ committed'[p].epoch = committed[p].epoch
             \/ \E i \in 1..k : part[i].point = p /\ part[i].epoch = committed'[p].epoch
      BY <1>5, <2>2 DEF FoldsTo
    <3>2. p \in DOMAIN committed => /\ \E x \in RowsOf(p) : x.at = committed[p].last
                                    /\ \E x \in RowsOf(p) : x.epoch = committed[p].epoch
      BY <1>4 DEF Content
    <3>3. \E x \in RowsOf(p)' : x.at = committed'[p].last
      BY <1>3, <1>6, <1>10, <3>1, <3>2 DEF RowsOf
    <3>4. \E x \in RowsOf(p)' : x.epoch = committed'[p].epoch
      BY <1>3, <1>6, <1>10, <3>1, <3>2 DEF RowsOf
    <3> QED BY <3>3, <3>4
  <2> QED BY <2>1, <2>2 DEF Content
<1>12. FirstKept'
  <2>1. SUFFICES ASSUME NEW p \in DOMAIN committed', p \notin late
                 PROVE  \E x \in RowsOf(p) : /\ x.at = committed'[p].first
                                             /\ \A y \in RowsOf(p) : x.sequence <= y.sequence
    BY <1>6 DEF FirstKept, RowsOf
  <2>2. CASE p \in DOMAIN committed
    <3>1. committed'[p].first = committed[p].first
      BY <1>5, <2>2 DEF FoldsTo
    <3> QED BY <1>4, <2>1, <2>2, <3>1 DEF FirstKept
  <2>3. CASE p \notin DOMAIN committed
    <3>1. PICK i \in 1..k : /\ part[i].point = p /\ part[i].at = committed'[p].first
                            /\ \A j \in 1..(i - 1) : part[j].point # p
      BY <1>5, <2>1, <2>3 DEF FoldsTo
    <3>2. PICK x : x = page[i]
      OBVIOUS
    <3>3. x \in RowsOf(p) /\ x.at = committed'[p].first /\ x \in Row /\ i \in 1..Len(page)
      BY <1>3, <1>10, <3>1, <3>2 DEF RowsOf
    <3>4. ASSUME NEW y \in RowsOf(p) PROVE x.sequence <= y.sequence
      <4>1. y \in landed /\ y.point = p /\ y \in Row
        BY <1>4 DEF RowsOf, ArchiveShapes
      <4>2. SUFFICES ASSUME y.sequence < x.sequence PROVE FALSE
        BY <3>3, <4>1 DEF Row
      <4>3. page # <<>> /\ Last(page) = page[Len(page)] /\ Last(page).sequence \in Nat
        BY <1>2, <3>3, LastOfPage
      <4>4. InOrder(page)
        BY <1>1, <1>2 DEF PageOK
      <4>5. x.sequence <= Last(page).sequence
        <5>1. Len(page) \in 1..Len(page) /\ (i < Len(page) \/ i = Len(page))
          BY <1>2, <3>3
        <5>2. CASE i < Len(page)
          <6>1. page[i].sequence < page[Len(page)].sequence
            BY <3>3, <4>4, <5>1, <5>2 DEF InOrder
          <6>2. page[i].sequence \in Nat
            BY <3>2, <3>3 DEF Row
          <6> QED BY <3>2, <4>3, <6>1, <6>2
        <5>3. CASE i = Len(page)
          BY <3>2, <3>3, <4>3, <5>3 DEF Row
        <5> QED BY <5>1, <5>2, <5>3
      <4>6. y.sequence <= Last(page).sequence
        BY SMTT(30), <3>3, <4>1, <4>2, <4>3, <4>5 DEF Row
      <4>7. PICK j \in 1..Len(page) : page[j] = y
        BY <1>1, <1>2, <2>1, <2>3, <4>1, <4>3, <4>6 DEF PassedNone, InPage
      <4>8. j < i
        <5>1. CASE i < j
          BY SMTT(30), <3>2, <3>3, <4>1, <4>2, <4>4, <4>7, <5>1 DEF InOrder, Row
        <5>2. CASE i = j
          BY <3>2, <3>3, <4>2, <4>7, <5>2 DEF Row
        <5> QED BY <3>3, <4>7, <5>1, <5>2
      <4>9. j \in 1..(i - 1) /\ j \in 1..k
        BY <1>2, <3>1, <4>7, <4>8
      <4> QED BY <1>3, <3>1, <4>1, <4>7, <4>9
    <3> QED BY <3>3, <3>4
  <2> QED BY <2>2, <2>3
<1>13. ASSUME NEW i \in 1..k PROVE Covered(page[i])'
  <2>1. part[i] = page[i]
    BY <1>3
  <2>2. page[i].point \in DOMAIN committed'
    BY <1>5, <2>1 DEF FoldsTo
  <2> QED BY <1>5, <2>1, <2>2 DEF FoldsTo, Covered
<1>14. ArchiveKept(r)
  BY <1>7, <1>8, <1>9, <1>11, <1>12 DEF ArchiveKept
<1> QED BY <1>13, <1>14

\* Rows of a page leave the buffer (delete_many): they are committed.
LEMMA ArchiveClear ==
    ASSUME WriteBehindInv, NEW r \in Run, task[r].pc = "clear",
           NEW gone \in SUBSET cleared(task[r].page), buffer' = buffer \ gone,
           UNCHANGED <<meta, committed, cipher, landed, late>>,
           NEW t, Becomes(r, t), t.pc # "insert"
    PROVE  ArchiveKept(r)
<1>1. /\ meta' = meta /\ committed' = committed /\ cipher' = cipher /\ landed' = landed
      /\ late' = late
  OBVIOUS
<1>2. ArchiveShapes /\ Content /\ FirstKept /\ PageOK(task[r])
  BY OwnFacts DEF WriteBehindInv
<1>3. ArchiveShapes' /\ FirstKept'
  BY <1>1, <1>2 DEF ArchiveShapes, FirstKept, RowsOf
<1>4. Numbers'
  BY <1>1, ReceivesNoRow DEF Issued
<1>5. \A x \in gone : Covered(x)
  BY <1>2 DEF cleared, PageOK
<1>6. Content'
  BY <1>1, <1>2, <1>5 DEF Content, Covered, RowsOf
<1>7. \A p \in DOMAIN committed : committed[p].last \in Nat /\ committed[p].epoch \in Nat
  BY <1>2, FoldedFacts DEF ArchiveShapes, Seen
<1>8. Harmless(r)
  BY <1>1, <1>7 DEF Harmless
<1> QED BY <1>3, <1>4, <1>6, <1>8 DEF ArchiveKept

LEMMA RowsFrom ==
    ASSUME NEW n \in Nat, NEW s \in [1..n -> Row]
    PROVE  s \in Seq(Row) /\ Len(s) = n
OBVIOUS

PointsOf(rows) == {rows[i].point : i \in 1..Len(rows)}

NumberedFrom(rows, n) == [i \in 1..Len(rows) |-> [rows[i] EXCEPT !.sequence = n + i]]

\* Numbers are handed out (the find_and_modify of archive_many).
LEMMA ArchiveAllocate ==
    ASSUME WriteBehindInv, NEW r \in Run, task[r].pc = "allocate",
           NEW rows, rows = task[r].rows, NEW n, n = Len(rows),
           ~unprotected(PointsOf(rows)), admits(EpochOf[r]), allocate(n, EpochOf[r]),
           UNCHANGED <<buffer, committed, cipher, landed, late>>,
           NEW numbered, numbered = NumberedFrom(rows, meta.sequence),
           NEW t, Becomes(r, t), t.rows = numbered
    PROVE  /\ ArchiveKept(r)
           /\ numbered \in Seq(Row) /\ Len(numbered) = n
           /\ \A i \in 1..Len(numbered) : numbered[i].epoch = EpochOf[r]
<1>1. /\ rows \in Seq(Row) /\ n \in Nat /\ n = Len(rows) /\ EpochOf[r] \in Nat
      /\ \A i \in 1..n : rows[i] \in Row /\ rows[i].epoch = EpochOf[r]
  BY OwnFacts
<1>2. /\ ArchiveShapes /\ Numbers /\ Content /\ FirstKept
      /\ meta.sequence \in Nat /\ meta.max_epoch \in Nat
  BY DEF WriteBehindInv, ArchiveShapes
<1>3. /\ buffer' = buffer /\ committed' = committed /\ cipher' = cipher /\ landed' = landed
      /\ late' = late
      /\ meta' = [sequence |-> meta.sequence + n, max_epoch |-> larger(meta.max_epoch, EpochOf[r])]
      /\ meta.max_epoch <= EpochOf[r]
  BY DEF allocate, admits
<1>4. /\ meta' \in [sequence: Nat, max_epoch: Nat]
      /\ meta'.sequence = meta.sequence + n /\ meta'.max_epoch = EpochOf[r]
  BY <1>1, <1>2, <1>3 DEF larger
<1>5. \A i \in 1..n : /\ numbered[i] \in Row /\ numbered[i].sequence = meta.sequence + i
                      /\ numbered[i].epoch = EpochOf[r] /\ numbered[i].point = rows[i].point
  <2>1. SUFFICES ASSUME NEW i \in 1..n
                 PROVE  /\ numbered[i] \in Row /\ numbered[i].sequence = meta.sequence + i
                        /\ numbered[i].epoch = EpochOf[r] /\ numbered[i].point = rows[i].point
    OBVIOUS
  <2>2. PICK x \in Row : x = rows[i]
    BY <1>1
  <2>3. numbered[i] = [x EXCEPT !.sequence = meta.sequence + i]
    BY <1>1, <2>2 DEF NumberedFrom
  <2>4. x.epoch = EpochOf[r] /\ meta.sequence + i \in Nat
    BY <1>1, <1>2, <2>2
  <2> QED BY <2>2, <2>3, <2>4 DEF Row
<1>6. numbered \in Seq(Row) /\ Len(numbered) = n
  <2>1. numbered \in [1..n -> Row]
    BY <1>1, <1>5 DEF NumberedFrom
  <2> QED BY <1>1, <2>1, RowsFrom
<1>7. ArchiveShapes' /\ Content' /\ FirstKept'
  BY <1>2, <1>3, <1>4 DEF ArchiveShapes, Content, Covered, FirstKept, RowsOf
<1>8. \A x \in Issued' : x \in Issued \/ \E i \in 1..n : x = numbered[i]
  <2>1. task \in [Run -> TaskType]
    BY DEF WriteBehindInv, RunShapes
  <2>2. task'[r] = t /\ \A q \in Run : q # r => task'[q] = task[q]
    BY <2>1 DEF Becomes
  <2>3. SUFFICES ASSUME NEW x \in Issued', x \notin landed
                 PROVE  x \in Issued \/ \E i \in 1..n : x = numbered[i]
    BY DEF Issued
  <2>4. x \in Row /\ \E q \in Run : /\ task'[q].pc = "insert"
                     /\ \E i \in 1..Len(task'[q].rows) : task'[q].rows[i] = x
    BY <1>3, <2>3 DEF Issued
  <2>5. PICK q \in Run : /\ task'[q].pc = "insert"
                         /\ \E i \in 1..Len(task'[q].rows) : task'[q].rows[i] = x
    BY <2>4
  <2>6. CASE q = r
    BY <1>6, <2>2, <2>5, <2>6
  <2>7. CASE q # r
    <3>1. task'[q] = task[q]
      BY <2>2, <2>7
    <3>2. task[q].pc = "insert" /\ \E i \in 1..Len(task[q].rows) : task[q].rows[i] = x
      BY <2>5, <3>1
    <3> QED BY <2>4, <3>2 DEF Issued
  <2> QED BY <2>6, <2>7
<1>9. \A x \in Issued : /\ x \in Row /\ 0 < x.sequence /\ x.sequence <= meta.sequence
                        /\ x.epoch <= meta.max_epoch /\ (x.point \in Pii => cipher)
  BY <1>2 DEF Issued, Numbers, ArchiveShapes
<1>10. \A i \in 1..n : numbered[i].point \in Pii => cipher
  BY <1>1, <1>5 DEF unprotected, PointsOf
<1>11. Numbers'
  <2>1. ASSUME NEW x \in Issued'
        PROVE  /\ 0 < x.sequence /\ x.sequence <= meta'.sequence
               /\ x.epoch <= meta'.max_epoch /\ (x.point \in Pii => cipher')
    <3>1. CASE x \in Issued
      <4>1. /\ x.sequence \in Nat /\ x.epoch \in Nat /\ 0 < x.sequence
            /\ x.sequence <= meta.sequence /\ x.epoch <= meta.max_epoch
            /\ x.point \in Pii => cipher
        BY <1>9, <3>1 DEF Row
      <4> QED BY SMTT(30), <1>1, <1>2, <1>3, <1>4, <4>1
    <3>2. CASE \E i \in 1..n : x = numbered[i]
      <4>1. PICK i \in 1..n : x = numbered[i]
        BY <3>2
      <4>2. /\ x.sequence = meta.sequence + i /\ x.epoch = EpochOf[r]
            /\ x.point \in Pii => cipher
        BY <1>5, <1>10, <4>1
      <4> QED BY <1>1, <1>2, <1>3, <1>4, <4>1, <4>2
    <3> QED BY <1>8, <3>1, <3>2
  <2>2. ASSUME NEW x \in Issued', NEW y \in Issued'
        PROVE  /\ x.sequence = y.sequence => x = y
               /\ x.sequence < y.sequence => x.epoch <= y.epoch
    <3>1. CASE x \in Issued /\ y \in Issued
      BY <1>2, <3>1 DEF Numbers
    <3>2. CASE x \in Issued /\ \E i \in 1..n : y = numbered[i]
      <4>1. PICK i \in 1..n : y = numbered[i]
        BY <3>2
      <4>2. y.sequence = meta.sequence + i /\ y.epoch = EpochOf[r]
        BY <1>5, <4>1
      <4>3. /\ x.sequence \in Nat /\ x.epoch \in Nat
            /\ x.sequence <= meta.sequence /\ x.epoch <= meta.max_epoch
        BY <1>9, <3>2 DEF Row
      <4> QED BY <1>1, <1>2, <1>3, <4>1, <4>2, <4>3
    <3>3. CASE y \in Issued /\ \E i \in 1..n : x = numbered[i]
      <4>1. PICK i \in 1..n : x = numbered[i]
        BY <3>3
      <4>2. x.sequence = meta.sequence + i
        BY <1>5, <4>1
      <4>3. y.sequence \in Nat /\ y.sequence <= meta.sequence
        BY <1>9, <3>3 DEF Row
      <4> QED BY <1>1, <1>2, <4>1, <4>2, <4>3
    <3>4. CASE (\E i \in 1..n : x = numbered[i]) /\ \E i \in 1..n : y = numbered[i]
      <4>1. PICK i \in 1..n, j \in 1..n : x = numbered[i] /\ y = numbered[j]
        BY <3>4
      <4>2. /\ x.sequence = meta.sequence + i /\ x.epoch = EpochOf[r]
            /\ y.sequence = meta.sequence + j /\ y.epoch = EpochOf[r]
        BY <1>5, <4>1
      <4>3. x.sequence = y.sequence => i = j
        BY <1>1, <1>2, <4>1, <4>2
      <4> QED BY <1>1, <4>1, <4>2, <4>3
    <3> QED BY <1>8, <3>1, <3>2, <3>3, <3>4
  <2> QED BY <2>1, <2>2 DEF Numbers
<1>12. \A p \in DOMAIN committed : committed[p].last \in Nat /\ committed[p].epoch \in Nat
  BY <1>2, FoldedFacts DEF ArchiveShapes, Seen
<1>13. Harmless(r)
  BY <1>3, <1>12 DEF Harmless
<1> QED BY <1>1, <1>5, <1>6, <1>7, <1>11, <1>13 DEF ArchiveKept

\* A call that fails half way does part of that.
LEMMA PartOfCallKeeps ==
    ASSUME WriteBehindInv, NEW r \in Run, PartOfCall(r), UNCHANGED <<meta, cipher>>,
           NEW t, Becomes(r, t), t.pc # "insert"
    PROVE  ArchiveKept(r)
<1>1. CASE /\ task[r].pc = "insert"
           /\ \E k \in 0..Len(task[r].rows) :
                 insert_many({task[r].rows[i] : i \in 1..k}, Passed)
           /\ UNCHANGED committed
  BY <1>1, ArchiveInsert
<1>2. CASE /\ task[r].pc = "commit"
           /\ \E k \in 0..Len(task[r].page) : bulk_write(SubSeq(task[r].page, 1, k))
           /\ UNCHANGED <<buffer, landed, late>>
  <2>1. PICK page : page = task[r].page
    OBVIOUS
  <2>2. PICK k \in 0..Len(page) : bulk_write(SubSeq(page, 1, k))
    BY <1>2, <2>1
  <2>3. PICK part : part = SubSeq(page, 1, k)
    OBVIOUS
  <2>4. committed' = FoldRows(committed, part)
    BY <2>2, <2>3, Zenon DEF bulk_write, FoldRows
  <2> QED BY <1>2, <2>1, <2>2, <2>3, <2>4, ArchiveCommit
<1>3. CASE /\ task[r].pc = "clear"
           /\ \E gone \in SUBSET cleared(task[r].page) : buffer' = buffer \ gone
           /\ UNCHANGED <<committed, landed, late>>
  BY <1>3, ArchiveClear
<1>4. CASE UNCHANGED archiveVars
  BY <1>4, QuietArchive
<1> QED BY <1>1, <1>2, <1>3, <1>4, Zenon DEF PartOfCall

LEMMA QuietRun ==
    ASSUME WriteBehindInv, NEW r,
           UNCHANGED <<store_epoch, audit_epoch, merges, trail, merged, absorbed>>
    PROVE  RunKept(r)
BY DEF WriteBehindInv, RunShapes, RunKept

\* Audit rows are appended that stand for n merges.
LEMMA AppendRun ==
    ASSUME WriteBehindInv, NEW r \in Run, NEW n \in Nat, append_many(r, n),
           UNCHANGED <<store_epoch, merges, merged, absorbed>>
    PROVE  RunKept(r) /\ trail'[r] = trail[r] + n
<1>1. EpochOf[r] \in Nat /\ trail \in [Run -> Nat] /\ trail[r] + n \in Nat
  BY OwnFacts DEF WriteBehindInv, RunShapes
<1>2. trail' = [trail EXCEPT ![r] = trail[r] + n] /\ audit_epoch' = EpochOf[r]
  BY DEF append_many
<1> QED BY <1>1, <1>2 DEF WriteBehindInv, RunShapes, RunKept

-----------------------------------------------------------------------------
(* The run that moves.                                                     *)

\* Between flushes, with no page and no cursor, the archive asks nothing of it.
LEMMA AtRestFits ==
    ASSUME ArchiveShapes', Numbers', NEW r, NEW t, t.page = <<>>, t.after = 0, t.pc # "probe",
           t.pc = "released" /\ t.status \in Clean =>
               \/ t.status = "parked" /\ t.redrives > 0
               \/ \A x \in buffer' : x.epoch # EpochOf[r]
    PROVE  OwnAhead(r, t)' /\ PageOK(t)' /\ PassedNone(t)'
<1>1. \A x \in landed' : 0 < x.sequence
  BY DEF Numbers, Issued
<1>2. buffer' \subseteq landed'
  BY DEF ArchiveShapes
<1>3. Len(t.page) = 0 /\ 1..0 = {}
  OBVIOUS
<1> QED BY <1>1, <1>2, <1>3 DEF OwnAhead, PageOK, PassedNone, InOrder

LEMMA FreshFacts ==
    /\ Fresh \in TaskType
    /\ Fresh.pc = "none" /\ Fresh.status = "none" /\ Fresh.rows = <<>> /\ Fresh.page = <<>>
    /\ Fresh.after = 0 /\ Fresh.added = 0 /\ Fresh.counts = 0
    /\ Fresh.flushed = FALSE /\ Fresh.backstop = FALSE
<1>1. Fresh \in TaskType
  BY DEF Fresh, TaskType, Working, Status
<1>2. /\ Fresh.pc = "none" /\ Fresh.status = "none" /\ Fresh.rows = <<>> /\ Fresh.page = <<>>
      /\ Fresh.after = 0 /\ Fresh.added = 0 /\ Fresh.counts = 0
  BY DEF Fresh
<1>3. Fresh.flushed = FALSE /\ Fresh.backstop = FALSE
  BY DEF Fresh
<1> QED BY <1>1, <1>2, <1>3

\* A run that leaves the loop.
LEMMA LeaveFits ==
    ASSUME WriteBehindInv, NEW r \in Run, ArchiveShapes', Numbers',
           NEW status \in Status \ {"none"},
           NEW t, t = [Fresh EXCEPT !.pc = IF task[r].flushed THEN "released" ELSE "find",
                                    !.status = status, !.backstop = TRUE,
                                    !.redrives = task[r].redrives],
           trail' \in [Run -> Nat], merged' \in [Run -> Nat], trail'[r] <= merged'[r],
           status \in Clean =>
               /\ r \in absorbed' \/ trail'[r] = merged'[r]
               /\ task[r].flushed => \/ status = "parked" /\ task[r].redrives > 0
                                     \/ \A x \in buffer' : x.epoch # EpochOf[r]
    PROVE  Fits(r, t)'
<1>1. task[r].redrives \in Nat
  BY OwnFacts
<1>2. /\ t \in TaskType /\ t.pc \in {"released", "find"} /\ t.status = status
      /\ (t.pc = "released" => task[r].flushed)
      /\ t.rows = <<>> /\ t.page = <<>> /\ t.after = 0 /\ t.added = 0 /\ t.counts = 0
      /\ t.backstop /\ ~t.flushed /\ t.redrives = task[r].redrives
  <2>1. PICK pc : pc = IF task[r].flushed THEN "released" ELSE "find"
    OBVIOUS
  <2>2. PICK n \in Nat : n = task[r].redrives
    BY <1>1
  <2>3. pc \in {"released", "find"} /\ (pc = "released" => task[r].flushed)
    BY <2>1
  <2>4. PICK u : u = Fresh
    OBVIOUS
  <2>5. t = [u EXCEPT !.pc = pc, !.status = status, !.backstop = TRUE, !.redrives = n]
    BY <2>1, <2>2, <2>4
  <2>6. pc \in Working \cup Flushing \cup Ended /\ status \in Status
    BY <2>3 DEF Flushing, Ended
  <2>7. u \in TaskType
    BY <2>4, FreshFacts
  <2>8. /\ t \in TaskType /\ t.pc = pc /\ t.status = status /\ t.redrives = n
        /\ t.rows = u.rows /\ t.page = u.page /\ t.after = u.after
        /\ t.added = u.added /\ t.counts = u.counts
    BY <2>2, <2>5, <2>6, <2>7 DEF TaskType
  <2>9. t.backstop = TRUE /\ t.flushed = u.flushed
    BY <2>5, <2>7 DEF TaskType
  <2> QED BY <2>2, <2>3, <2>4, <2>8, <2>9, FreshFacts
<1>3. OwnAhead(r, t)' /\ PageOK(t)' /\ PassedNone(t)'
  <2>1. t.page = <<>> /\ t.after = 0 /\ t.pc # "probe"
    BY <1>2
  <2>2. t.pc = "released" /\ t.status \in Clean =>
           \/ t.status = "parked" /\ t.redrives > 0
           \/ \A x \in buffer' : x.epoch # EpochOf[r]
    BY <1>2
  <2> QED BY <2>1, <2>2, AtRestFits
<1>4. Staged(t)'
  BY <1>2 DEF Staged, Working, Flushing, Status
<1>5. Balanced(r, t)'
  BY <1>2 DEF Balanced
<1>6. \A i \in 1..Len(t.rows) : t.rows[i].epoch = EpochOf[r]
  BY <1>2
<1> QED BY <1>2, <1>3, <1>4, <1>5, <1>6 DEF Fits

\* A run that goes on, or comes to the flush.
LEMMA WorkKeeps ==
    ASSUME WriteBehindInv, NEW r \in Run, NEW t \in TaskType, Becomes(r, t),
           ArchiveKept(r), RunKept(r),
           t.pc \in (Working \ {"none", "probe"}) \cup {"find"},
           t.status = "none", t.page = <<>>, t.after = 0,
           \A i \in 1..Len(t.rows) : t.rows[i].epoch = EpochOf[r],
           t.pc # "audit" => t.added = 0,
           t.pc \in {"park", "find"} => t.counts = 0,
           ~t.backstop, t.flushed => t.redrives > 0,
           trail'[r] + t.added + t.counts <= merged'[r],
           r \notin absorbed' => trail'[r] + t.added + t.counts = merged'[r]
    PROVE  WriteBehindInv'
<1>1. ArchiveShapes' /\ Numbers'
  BY DEF ArchiveKept
<1>2. OwnAhead(r, t)' /\ PageOK(t)' /\ PassedNone(t)'
  <2>1. t.pc # "probe" /\ t.pc # "released"
    BY DEF Working
  <2> QED BY <1>1, <2>1, AtRestFits
<1>3. Staged(t)'
  BY DEF Staged, Working, Flushing
<1>4. Balanced(r, t)'
  BY DEF Balanced
<1>5. Fits(r, t)'
  BY <1>2, <1>3, <1>4 DEF Fits
<1> QED BY <1>5, StepKeeps

\* A run that leaves the loop; cleanly only from where it parks or completes.
LEMMA LeaveKeeps ==
    ASSUME WriteBehindInv, NEW r \in Run, NEW status \in Status \ {"none"}, Leave(r, status),
           UNCHANGED archiveVars \/ (PartOfCall(r) /\ UNCHANGED <<meta, cipher>>),
           RunKept(r), UNCHANGED <<trail, merged>>,
           status = "parked" => task[r].pc = "park",
           status = "completed" => task[r].pc = "probe" /\ UNCHANGED archiveVars
    PROVE  WriteBehindInv'
<1>1. PICK t : t = [Fresh EXCEPT !.pc = IF task[r].flushed THEN "released" ELSE "find",
                                 !.status = status, !.backstop = TRUE,
                                 !.redrives = task[r].redrives]
  OBVIOUS
<1>2. Becomes(r, t)
  BY <1>1 DEF Leave
<1>3. t.pc # "insert"
  BY <1>1, FreshFacts DEF TaskType
<1>4. ArchiveKept(r)
  BY <1>2, <1>3, QuietArchive, PartOfCallKeeps
<1>5. ArchiveShapes' /\ Numbers'
  BY <1>4 DEF ArchiveKept
<1>6. trail' \in [Run -> Nat] /\ merged' \in [Run -> Nat] /\ absorbed \subseteq absorbed'
  BY DEF RunKept
<1>7. /\ Staged(task[r]) /\ Balanced(r, task[r]) /\ OwnAhead(r, task[r])
      /\ task[r].counts \in Nat /\ task[r].added \in Nat /\ trail[r] \in Nat /\ merged[r] \in Nat
  BY OwnFacts
<1>8. trail'[r] <= merged'[r]
  BY <1>7 DEF Balanced
<1>9. ASSUME status \in Clean
      PROVE  /\ r \in absorbed' \/ trail'[r] = merged'[r]
             /\ task[r].flushed => \/ status = "parked" /\ task[r].redrives > 0
                                   \/ \A x \in buffer' : x.epoch # EpochOf[r]
  <2>1. \/ status = "parked" /\ task[r].pc = "park"
        \/ status = "completed" /\ task[r].pc = "probe"
    BY <1>9 DEF Clean
  <2>2. task[r].status = "none" /\ task[r].added = 0 /\ task[r].counts = 0
    BY <1>7, <2>1 DEF Staged, Working
  <2>3. r \in absorbed' \/ trail'[r] = merged'[r]
    BY <1>6, <1>7, <2>2 DEF Balanced
  <2>4. CASE status = "parked"
    BY <1>7, <2>1, <2>3, <2>4 DEF Staged
  <2>5. CASE status = "completed"
    <3>1. buffer' = buffer /\ task[r].pc = "probe"
      BY <2>5 DEF archiveVars
    <3> QED BY <1>7, <2>3, <3>1 DEF OwnAhead
  <2> QED BY <2>1, <2>4, <2>5
<1>10. Fits(r, t)'
  BY <1>1, <1>5, <1>6, <1>8, <1>9, LeaveFits
<1> QED BY <1>2, <1>4, <1>10, StepKeeps

-----------------------------------------------------------------------------
(* Each action keeps the invariant.                                        *)

LEMMA InitWriteBehindInv == Init => WriteBehindInv
<1>1. SUFFICES ASSUME Init PROVE WriteBehindInv
  OBVIOUS
<1>2. /\ meta = [sequence |-> 0, max_epoch |-> 0] /\ buffer = {} /\ landed = {} /\ late = {}
      /\ committed = <<>> /\ store_epoch = 0 /\ audit_epoch = 0 /\ merges = 0
      /\ trail = [r \in Run |-> 0] /\ merged = [r \in Run |-> 0] /\ task = [r \in Run |-> Fresh]
  BY <1>1 DEF Init, ArchiveInit
<1>3. DOMAIN committed = {} /\ committed \in Folded
  <2>1. committed \in [{} -> Seen] /\ {} \in SUBSET Point
    BY <1>2
  <2> QED BY <2>1, FoldedFacts
<1>4. ArchiveShapes
  BY <1>2, <1>3 DEF ArchiveShapes
<1>5. RunShapes
  BY <1>2, FreshFacts DEF RunShapes
<1>6. Issued = {}
  BY <1>2, FreshFacts DEF Issued
<1>7. Numbers /\ Content /\ FirstKept
  BY <1>2, <1>3, <1>6 DEF Numbers, Content, FirstKept
<1>8. ASSUME NEW r \in Run PROVE Fits(r, task[r])
  <2>1. PICK t : t = Fresh
    OBVIOUS
  <2>2. task[r] = t /\ trail[r] = 0 /\ merged[r] = 0
    BY <1>2, <2>1
  <2>3. Staged(t)
    BY <2>1, FreshFacts DEF Staged, Working, Flushing
  <2>4. Balanced(r, t)
    BY <2>1, <2>2, FreshFacts DEF Balanced
  <2>5. OwnAhead(r, t) /\ PassedNone(t)
    BY <1>2 DEF OwnAhead, PassedNone
  <2>6. Len(t.page) = 0 /\ Len(t.rows) = 0 /\ 1..0 = {}
    BY <2>1, FreshFacts
  <2>7. PageOK(t)
    BY <2>6 DEF PageOK, InOrder
  <2> QED BY <2>1, <2>2, <2>3, <2>4, <2>5, <2>6, <2>7, FreshFacts DEF Fits
<1> QED BY <1>4, <1>5, <1>7, <1>8 DEF WriteBehindInv

\* A run at work, short of the probe.
LEMMA WorkingFacts ==
    ASSUME WriteBehindInv, NEW r \in Run, NEW u, u = task[r], u.pc \in Working \ {"probe"}
    PROVE  /\ u \in TaskType /\ u.rows \in Seq(Row) /\ u.counts \in Nat /\ u.added \in Nat
           /\ u.status = "none" /\ u.page = <<>> /\ u.after = 0
           /\ u.pc # "audit" => u.added = 0
           /\ ~u.backstop /\ (u.flushed => u.redrives > 0)
           /\ trail[r] + u.added + u.counts <= merged[r]
           /\ r \notin absorbed => trail[r] + u.added + u.counts = merged[r]
           /\ \A i \in 1..Len(u.rows) : u.rows[i].epoch = EpochOf[r]
<1>1. u \in TaskType /\ Fits(r, u) /\ Staged(u) /\ Balanced(r, u)
  BY OwnFacts
<1>2. u.rows \in Seq(Row) /\ u.counts \in Nat /\ u.added \in Nat
  BY <1>1 DEF TaskType
<1>3. /\ u.status = "none" /\ u.page = <<>> /\ u.after = 0
      /\ u.pc # "audit" => u.added = 0
      /\ ~u.backstop /\ (u.flushed => u.redrives > 0)
  BY <1>1 DEF Staged, Working, Flushing
<1> QED BY <1>1, <1>2, <1>3 DEF Fits, Balanced

LEMMA GrantKeeps ==
    ASSUME WriteBehindInv, NEW r \in Run, Grant(r)
    PROVE  WriteBehindInv'
<1>1. PICK u : u = task[r]
  OBVIOUS
<1>2. PICK t : t = [u EXCEPT !.pc = "gather"]
  OBVIOUS
<1>3. /\ Becomes(r, t) /\ UNCHANGED archiveVars /\ u.pc = "none"
      /\ UNCHANGED <<store_epoch, audit_epoch, merges, trail, merged, absorbed>>
  BY <1>1, <1>2 DEF Grant
<1>4. u \in TaskType /\ Fits(r, u) /\ Staged(u) /\ Balanced(r, u)
  BY <1>1, OwnFacts
<1>5. t \in TaskType
  BY <1>2, <1>4 DEF TaskType, Working
<1>6. /\ t.pc = "gather" /\ t.status = u.status /\ t.rows = u.rows
      /\ t.page = u.page /\ t.after = u.after /\ t.added = u.added /\ t.counts = u.counts
      /\ t.redrives = u.redrives /\ t.flushed = u.flushed /\ t.backstop = u.backstop
  BY <1>2, <1>4 DEF TaskType
<1>7. /\ u.status = "none" /\ u.page = <<>> /\ u.after = 0 /\ u.added = 0 /\ u.counts = 0
      /\ ~u.backstop /\ (u.flushed => u.redrives > 0)
  BY <1>3, <1>4 DEF Staged, Working, Flushing
<1>8. /\ trail'[r] + t.added + t.counts <= merged'[r]
      /\ r \notin absorbed' => trail'[r] + t.added + t.counts = merged'[r]
  BY <1>3, <1>4, <1>6, <1>7 DEF Balanced
<1>9. ArchiveKept(r) /\ RunKept(r)
  BY <1>3, <1>6, QuietArchive, QuietRun
<1>10. \A i \in 1..Len(t.rows) : t.rows[i].epoch = EpochOf[r]
  BY <1>4, <1>6 DEF Fits
<1>11. t.pc \in (Working \ {"none", "probe"}) \cup {"find"}
  BY <1>6 DEF Working
<1> QED BY <1>3, <1>5, <1>6, <1>7, <1>8, <1>9, <1>10, <1>11, WorkKeeps

\* The audit rows of a merge are no more than its outcomes.
LEMMA AuditedBound ==
    ASSUME NEW batch \in Seq(Point)
    PROVE  audited(batch) \in Nat /\ audited(batch) <= Len(batch)
<1>1. PICK S : S = {i \in 1..Len(batch) : /\ batch[i] \notin store \cup Quiet
                                          /\ \A j \in 1..(i - 1) : batch[j] # batch[i]}
  OBVIOUS
<1>2. S \subseteq 1..Len(batch) /\ audited(batch) = Cardinality(S) /\ Len(batch) \in Nat
  BY <1>1 DEF audited
<1>3. IsFiniteSet(1..Len(batch)) /\ Cardinality(1..Len(batch)) = Len(batch)
  <2>1. PICK n \in Nat : n = Len(batch)
    BY <1>2
  <2>2. /\ IsFiniteSet(1..n)
        /\ Cardinality(1..n) = IF 1 > n THEN 0 ELSE n - 1 + 1
    BY FS_Interval
  <2>3. Cardinality(1..n) = n
    BY <2>2
  <2> QED BY <2>1, <2>2, <2>3
<1>4. IsFiniteSet(S) /\ Cardinality(S) <= Cardinality(1..Len(batch))
  BY <1>2, <1>3, FS_Subset
<1>5. Cardinality(S) \in Nat
  BY <1>4, FS_CardinalityType
<1> QED BY <1>2, <1>3, <1>4, <1>5

LEMMA ArchiveRowsType ==
    ASSUME merges \in Nat, NEW batch \in Seq(Point), NEW epoch \in Nat,
           NEW rows, rows = archive_rows(batch, epoch)
    PROVE  rows \in Seq(Row) /\ \A i \in 1..Len(rows) : rows[i].epoch = epoch
<1>1. PICK S : S = {i \in 1..Len(batch) : batch[i] \notin Ephemeral}
  OBVIOUS
<1>2. S \subseteq 1..Len(batch) /\ Len(batch) \in Nat
  BY <1>1
<1>3. S \in SUBSET Nat /\ IsFiniteSet(S)
  <2>1. IsFiniteSet(1..Len(batch))
    BY <1>2, FS_Interval
  <2>2. IsFiniteSet(S)
    BY <1>2, <2>1, FS_Subset
  <2> QED BY <1>2, <2>2
<1>4. PICK n \in Nat : n = Cardinality(S)
  BY <1>3, AscendingLists
<1>5. PICK kept : kept = Ascending(S)
  OBVIOUS
<1>6. kept \in [1..n -> S]
  BY <1>3, <1>4, <1>5, AscendingLists DEF Lists
<1>7. rows = [i \in 1..n |-> [sequence |-> 0, point |-> batch[kept[i]],
                              at |-> merges + 1, epoch |-> epoch]]
  BY <1>1, <1>4, <1>5, <1>6 DEF archive_rows
<1>8. ASSUME NEW i \in 1..n PROVE rows[i] \in Row /\ rows[i].epoch = epoch
  <2>1. kept[i] \in 1..Len(batch)
    BY <1>2, <1>6
  <2>2. batch[kept[i]] \in Point
    BY <2>1
  <2> QED BY <1>7, <2>2 DEF Row
<1>9. rows \in [1..n -> Row]
  BY <1>7, <1>8
<1>10. rows \in Seq(Row) /\ Len(rows) = n
  BY <1>9, RowsFrom
<1> QED BY <1>8, <1>10

LEMMA MergeKeeps ==
    ASSUME WriteBehindInv, NEW r \in Run, NEW source \in {"operator", "inbox"},
           NEW batch \in Batches, Merge(r, source, batch)
    PROVE  WriteBehindInv'
<1>1. /\ task[r].pc = "gather" /\ UNCHANGED archiveVars
      /\ UNCHANGED <<audit_epoch, trail, absorbed>>
  BY DEF Merge
<1>2. CASE EpochOf[r] < store_epoch
  <2>1. Leave(r, "superseded") /\ UNCHANGED <<store_epoch, merged, merges>>
    BY <1>2 DEF Merge
  <2>2. RunKept(r)
    BY <1>1, <2>1, QuietRun
  <2> QED BY <1>1, <2>1, <2>2, LeaveKeeps DEF Status
<1>3. CASE ~(EpochOf[r] < store_epoch)
  <2>1. PICK u : u = task[r]
    OBVIOUS
  <2>2. PICK n, rows : n = audited(batch) /\ rows = archive_rows(batch, EpochOf[r])
    OBVIOUS
  <2>3. PICK t : t = [u EXCEPT !.pc = "audit", !.source = source, !.added = n,
                               !.counts = @ + (Len(batch) - n), !.rows = rows]
    OBVIOUS
  <2>4. /\ Becomes(r, t) /\ store_epoch' = EpochOf[r] /\ merges' = merges + 1
        /\ merged' = [merged EXCEPT ![r] = merged[r] + Len(batch)]
    BY <1>3, <2>1, <2>2, <2>3 DEF Merge
  <2>5. /\ batch \in Seq(Point) /\ Len(batch) \in Nat
        /\ EpochOf[r] \in Nat /\ merges \in Nat /\ trail[r] \in Nat /\ merged[r] \in Nat
        /\ audit_epoch \in Nat /\ trail \in [Run -> Nat] /\ merged \in [Run -> Nat]
    BY OwnFacts, WriteBehindAssumption DEF WriteBehindInv, RunShapes
  <2>6. n \in Nat /\ n <= Len(batch)
    BY <2>2, <2>5, AuditedBound
  <2>7. rows \in Seq(Row) /\ \A i \in 1..Len(rows) : rows[i].epoch = EpochOf[r]
    BY <2>2, <2>5, ArchiveRowsType
  <2>8. /\ u \in TaskType /\ u.counts \in Nat /\ u.added = 0
        /\ u.status = "none" /\ u.page = <<>> /\ u.after = 0
        /\ ~u.backstop /\ (u.flushed => u.redrives > 0)
        /\ trail[r] + u.added + u.counts <= merged[r]
        /\ r \notin absorbed => trail[r] + u.added + u.counts = merged[r]
    BY <1>1, <2>1, WorkingFacts DEF Working
  <2>9. u.counts + (Len(batch) - n) \in Nat
    BY <2>5, <2>6, <2>8
  <2>10. t \in TaskType
    BY <2>3, <2>6, <2>7, <2>8, <2>9 DEF TaskType, Working
  <2>11. /\ t.pc = "audit" /\ t.added = n /\ t.counts = u.counts + (Len(batch) - n)
         /\ t.rows = rows /\ t.status = u.status /\ t.page = u.page /\ t.after = u.after
         /\ t.redrives = u.redrives /\ t.flushed = u.flushed /\ t.backstop = u.backstop
    BY <2>3, <2>8 DEF TaskType
  <2>12. RunKept(r) /\ merged'[r] = merged[r] + Len(batch)
    BY <1>1, <2>4, <2>5 DEF RunKept
  <2>13. ArchiveKept(r)
    BY <1>1, <2>4, <2>11, QuietArchive
  <2>14. /\ trail'[r] + t.added + t.counts <= merged'[r]
         /\ r \notin absorbed' => trail'[r] + t.added + t.counts = merged'[r]
    BY <1>1, <2>5, <2>6, <2>8, <2>11, <2>12
  <2>15. t.pc \in (Working \ {"none", "probe"}) \cup {"find"}
    BY <2>11 DEF Working
  <2> QED BY <2>4, <2>7, <2>8, <2>10, <2>11, <2>12, <2>13, <2>14, <2>15, WorkKeeps
<1> QED BY <1>2, <1>3

LEMMA AppendAuditKeeps ==
    ASSUME WriteBehindInv, NEW r \in Run, AppendAudit(r)
    PROVE  WriteBehindInv'
<1>1. /\ task[r].pc = "audit" /\ UNCHANGED archiveVars
      /\ UNCHANGED <<store_epoch, merged, absorbed, merges>>
  BY DEF AppendAudit
<1>2. CASE Leave(r, "superseded") /\ UNCHANGED <<audit_epoch, trail>>
  <2>1. RunKept(r)
    BY <1>1, <1>2, QuietRun
  <2> QED BY <1>1, <1>2, <2>1, LeaveKeeps DEF Status
<1>3. ASSUME ~(Leave(r, "superseded") /\ UNCHANGED <<audit_epoch, trail>>)
      PROVE  WriteBehindInv'
  <2>1. PICK u : u = task[r]
    OBVIOUS
  <2>2. /\ u \in TaskType /\ u.rows \in Seq(Row) /\ u.counts \in Nat /\ u.added \in Nat
        /\ u.status = "none" /\ u.page = <<>> /\ u.after = 0
        /\ ~u.backstop /\ (u.flushed => u.redrives > 0)
        /\ trail[r] + u.added + u.counts <= merged[r]
        /\ r \notin absorbed => trail[r] + u.added + u.counts = merged[r]
        /\ \A i \in 1..Len(u.rows) : u.rows[i].epoch = EpochOf[r]
    BY <1>1, <2>1, WorkingFacts DEF Working
  <2>3. /\ IF u.added > 0 THEN append_many(r, u.added) ELSE UNCHANGED <<audit_epoch, trail>>
        /\ IF u.rows = <<>>
           THEN Becomes(r, [u EXCEPT !.pc = "gather", !.source = "none", !.added = 0])
           ELSE Becomes(r, [u EXCEPT !.pc = "allocate", !.added = 0])
    BY <1>3, <2>1 DEF AppendAudit
  <2>4. RunKept(r) /\ trail'[r] = trail[r] + u.added /\ trail[r] \in Nat /\ merged[r] \in Nat
    <3>1. trail[r] \in Nat /\ merged[r] \in Nat
      BY OwnFacts
    <3>2. CASE u.added > 0
      BY <1>1, <2>2, <2>3, <3>1, <3>2, AppendRun
    <3>3. CASE u.added = 0
      BY <1>1, <2>3, <3>1, <3>3, QuietRun
    <3> QED BY <2>2, <3>2, <3>3
  <2>5. PICK t : /\ Becomes(r, t)
                 /\ t \in {[u EXCEPT !.pc = "gather", !.source = "none", !.added = 0],
                           [u EXCEPT !.pc = "allocate", !.added = 0]}
    BY <2>3
  <2>6. t \in TaskType
    <3>1. CASE t = [u EXCEPT !.pc = "gather", !.source = "none", !.added = 0]
      BY <2>2, <3>1 DEF TaskType, Working
    <3>2. CASE t = [u EXCEPT !.pc = "allocate", !.added = 0]
      BY <2>2, <3>2 DEF TaskType, Working
    <3> QED BY <2>5, <3>1, <3>2
  <2>7. /\ t.pc \in {"gather", "allocate"} /\ t.added = 0 /\ t.counts = u.counts
        /\ t.rows = u.rows /\ t.status = u.status /\ t.page = u.page /\ t.after = u.after
        /\ t.redrives = u.redrives /\ t.flushed = u.flushed /\ t.backstop = u.backstop
    BY <2>2, <2>5 DEF TaskType
  <2>8. ArchiveKept(r)
    BY <1>1, <2>5, <2>7, QuietArchive
  <2>9. /\ trail'[r] + t.added + t.counts <= merged'[r]
        /\ r \notin absorbed' => trail'[r] + t.added + t.counts = merged'[r]
    BY <1>1, <2>2, <2>4, <2>7
  <2>10. t.pc \in (Working \ {"none", "probe"}) \cup {"find"} /\ t.pc \notin {"park", "find"}
    BY <2>7 DEF Working
  <2> QED BY <2>2, <2>4, <2>5, <2>6, <2>7, <2>8, <2>9, <2>10, WorkKeeps
<1> QED BY <1>2, <1>3

\* A failure of the bookkeeping, whatever part of the call it came to.
LEMMA BookkeepingRaisesKeeps ==
    ASSUME WriteBehindInv, NEW r \in Run, BookkeepingRaises(r),
           task[r].pc \in {"audit", "allocate", "insert"},
           UNCHANGED archiveVars \/ (PartOfCall(r) /\ UNCHANGED <<meta, cipher>>),
           UNCHANGED <<store_epoch, audit_epoch, trail, merged, merges>>
    PROVE  WriteBehindInv'
<1>1. CASE task[r].source # "inbox"
  <2>1. Leave(r, "failed") /\ UNCHANGED absorbed
    BY <1>1 DEF BookkeepingRaises
  <2>2. RunKept(r)
    BY <2>1, QuietRun
  <2> QED BY <2>1, <2>2, LeaveKeeps DEF Status
<1>2. CASE task[r].source = "inbox"
  <2>1. PICK u : u = task[r]
    OBVIOUS
  <2>2. PICK t : t = [u EXCEPT !.pc = "gather", !.source = "none", !.added = 0, !.rows = <<>>]
    OBVIOUS
  <2>3. Becomes(r, t) /\ absorbed' = absorbed \cup {r}
    BY <1>2, <2>1, <2>2 DEF BookkeepingRaises
  <2>4. /\ u \in TaskType /\ u.counts \in Nat /\ u.added \in Nat
        /\ u.status = "none" /\ u.page = <<>> /\ u.after = 0
        /\ ~u.backstop /\ (u.flushed => u.redrives > 0)
        /\ trail[r] + u.added + u.counts <= merged[r]
        /\ trail[r] \in Nat /\ merged[r] \in Nat
    BY <2>1, WorkingFacts, OwnFacts DEF Working
  <2>5. <<>> \in Seq(Row)
    OBVIOUS
  <2>6. t \in TaskType
    BY <2>2, <2>4, <2>5 DEF TaskType, Working
  <2>7. /\ t.pc = "gather" /\ t.added = 0 /\ t.counts = u.counts
        /\ t.rows = <<>> /\ t.status = u.status /\ t.page = u.page /\ t.after = u.after
        /\ t.redrives = u.redrives /\ t.flushed = u.flushed /\ t.backstop = u.backstop
    BY <2>2, <2>4 DEF TaskType
  <2>8. ArchiveKept(r)
    BY <2>3, <2>7, QuietArchive, PartOfCallKeeps
  <2>9. RunKept(r)
    BY <2>3 DEF RunKept, WriteBehindInv, RunShapes
  <2>10. /\ trail'[r] + t.added + t.counts <= merged'[r]
         /\ r \in absorbed'
    BY <2>3, <2>4, <2>7
  <2>11. t.pc \in (Working \ {"none", "probe"}) \cup {"find"} /\ Len(t.rows) = 0
    BY <2>7 DEF Working
  <2> QED BY <2>3, <2>4, <2>6, <2>7, <2>8, <2>9, <2>10, <2>11, WorkKeeps
<1> QED BY <1>1, <1>2

LEMMA AllocateKeeps ==
    ASSUME WriteBehindInv, NEW r \in Run, Allocate(r)
    PROVE  WriteBehindInv'
<1>1. /\ task[r].pc = "allocate"
      /\ UNCHANGED <<buffer, committed, cipher, landed, late, store_epoch, audit_epoch, trail,
                     merged, merges>>
  BY DEF Allocate
<1>2. PICK u : u = task[r]
  OBVIOUS
<1>3. CASE BookkeepingRaises(r) /\ UNCHANGED meta
  <2>1. UNCHANGED archiveVars
    BY <1>1, <1>3 DEF archiveVars
  <2> QED BY <1>1, <1>3, <2>1, BookkeepingRaisesKeeps
<1>4. CASE Leave(r, "superseded") /\ UNCHANGED <<meta, absorbed>>
  <2>1. UNCHANGED archiveVars
    BY <1>1, <1>4 DEF archiveVars
  <2>2. RunKept(r)
    BY <1>1, <1>4, QuietRun
  <2> QED BY <1>1, <1>4, <2>1, <2>2, LeaveKeeps DEF Status
<1>5. ASSUME ~(BookkeepingRaises(r) /\ UNCHANGED meta),
             ~(Leave(r, "superseded") /\ UNCHANGED <<meta, absorbed>>)
      PROVE  WriteBehindInv'
  <2>1. PICK rows : rows = u.rows
    OBVIOUS
  <2>2. PICK numbered : numbered = [i \in 1..Len(rows) |->
                                      [rows[i] EXCEPT !.sequence = meta.sequence + i]]
    OBVIOUS
  <2>3. PICK t : t = [u EXCEPT !.pc = "insert", !.rows = numbered]
    OBVIOUS
  <2>4. /\ ~unprotected({rows[i].point : i \in 1..Len(rows)})
        /\ admits(EpochOf[r]) /\ allocate(Len(rows), EpochOf[r])
        /\ Becomes(r, t) /\ UNCHANGED absorbed
    BY <1>2, <1>5, <2>1, <2>2, <2>3 DEF Allocate
  <2>5. /\ u \in TaskType /\ u.counts \in Nat /\ u.added = 0
        /\ u.status = "none" /\ u.page = <<>> /\ u.after = 0
        /\ ~u.backstop /\ (u.flushed => u.redrives > 0)
        /\ trail[r] + u.added + u.counts <= merged[r]
        /\ r \notin absorbed => trail[r] + u.added + u.counts = merged[r]
    BY <1>1, <1>2, WorkingFacts DEF Working
  <2>6. /\ t.pc = "insert" /\ t.added = u.added /\ t.counts = u.counts
        /\ t.rows = numbered /\ t.status = u.status /\ t.page = u.page /\ t.after = u.after
        /\ t.redrives = u.redrives /\ t.flushed = u.flushed /\ t.backstop = u.backstop
    BY <2>3, <2>5 DEF TaskType
  <2>7. /\ ArchiveKept(r) /\ numbered \in Seq(Row)
        /\ \A i \in 1..Len(numbered) : numbered[i].epoch = EpochOf[r]
    <3>1. PICK n : n = Len(rows)
      OBVIOUS
    <3>2. /\ rows = task[r].rows /\ allocate(n, EpochOf[r])
          /\ UNCHANGED <<buffer, committed, cipher, landed, late>> /\ t.rows = numbered
      BY <1>1, <1>2, <2>1, <2>4, <2>6, <3>1
    <3>3. task[r].pc = "allocate" /\ Becomes(r, t) /\ admits(EpochOf[r])
      BY <1>1, <2>4
    <3>4. ~unprotected(PointsOf(rows)) /\ numbered = NumberedFrom(rows, meta.sequence)
      BY <2>2, <2>4 DEF PointsOf, NumberedFrom
    <3> QED BY <3>1, <3>2, <3>3, <3>4, ArchiveAllocate
  <2>8. t \in TaskType
    BY <2>3, <2>5, <2>7 DEF TaskType, Working
  <2>9. RunKept(r)
    BY <1>1, <2>4, QuietRun
  <2>10. /\ trail'[r] + t.added + t.counts <= merged'[r]
         /\ r \notin absorbed' => trail'[r] + t.added + t.counts = merged'[r]
    BY <1>1, <2>4, <2>5, <2>6
  <2>11. t.pc \in (Working \ {"none", "probe"}) \cup {"find"}
    BY <2>6 DEF Working
  <2> QED BY <2>4, <2>5, <2>6, <2>7, <2>8, <2>9, <2>10, <2>11, WorkKeeps
<1> QED BY <1>3, <1>4, <1>5

LEMMA InsertKeeps ==
    ASSUME WriteBehindInv, NEW r \in Run, Insert(r)
    PROVE  WriteBehindInv'
<1>1. PICK u : u = task[r]
  OBVIOUS
<1>2. PICK t : t = [u EXCEPT !.pc = "gather", !.source = "none", !.rows = <<>>]
  OBVIOUS
<1>3. /\ u.pc = "insert" /\ Becomes(r, t)
      /\ insert_many({u.rows[i] : i \in 1..Len(u.rows)}, Passed)
      /\ UNCHANGED <<meta, committed, cipher>>
      /\ UNCHANGED <<store_epoch, audit_epoch, merges, trail, merged, absorbed>>
  BY <1>1, <1>2 DEF Insert, runVars
<1>4. /\ u \in TaskType /\ u.rows \in Seq(Row) /\ u.added = 0
      /\ u.status = "none" /\ u.page = <<>> /\ u.after = 0
      /\ ~u.backstop /\ (u.flushed => u.redrives > 0)
      /\ trail[r] + u.added + u.counts <= merged[r]
      /\ r \notin absorbed => trail[r] + u.added + u.counts = merged[r]
  BY <1>1, <1>3, WorkingFacts DEF Working
<1>5. <<>> \in Seq(Row) /\ Len(u.rows) \in 0..Len(u.rows)
  BY <1>4
<1>6. t \in TaskType
  BY <1>2, <1>4, <1>5 DEF TaskType, Working
<1>7. /\ t.pc = "gather" /\ t.added = u.added /\ t.counts = u.counts
      /\ t.rows = <<>> /\ t.status = u.status /\ t.page = u.page /\ t.after = u.after
      /\ t.redrives = u.redrives /\ t.flushed = u.flushed /\ t.backstop = u.backstop
  BY <1>2, <1>4 DEF TaskType
<1>8. ArchiveKept(r) /\ RunKept(r)
  BY <1>1, <1>3, <1>5, <1>7, ArchiveInsert, QuietRun
<1>9. /\ trail'[r] + t.added + t.counts <= merged'[r]
      /\ r \notin absorbed' => trail'[r] + t.added + t.counts = merged'[r]
  BY <1>3, <1>4, <1>7
<1>10. t.pc \in (Working \ {"none", "probe"}) \cup {"find"} /\ Len(t.rows) = 0
  BY <1>7 DEF Working
<1> QED BY <1>3, <1>4, <1>6, <1>7, <1>8, <1>9, <1>10, WorkKeeps

LEMMA CloseGatherKeeps ==
    ASSUME WriteBehindInv, NEW r \in Run, CloseGather(r)
    PROVE  WriteBehindInv'
<1>1. PICK u : u = task[r]
  OBVIOUS
<1>2. PICK parking \in BOOLEAN :
         Becomes(r, [u EXCEPT !.pc = closing_step(parking), !.parking = parking])
  BY <1>1 DEF CloseGather
<1>3. PICK t : t = [u EXCEPT !.pc = "coalesce", !.parking = parking]
  OBVIOUS
<1>4. /\ u.pc = "gather" /\ Becomes(r, t) /\ UNCHANGED archiveVars
      /\ UNCHANGED <<store_epoch, audit_epoch, merges, trail, merged, absorbed>>
  BY <1>1, <1>2, <1>3 DEF CloseGather, closing_step, runVars
<1>5. /\ u \in TaskType /\ u.added = 0
      /\ u.status = "none" /\ u.page = <<>> /\ u.after = 0
      /\ ~u.backstop /\ (u.flushed => u.redrives > 0)
      /\ trail[r] + u.added + u.counts <= merged[r]
      /\ r \notin absorbed => trail[r] + u.added + u.counts = merged[r]
      /\ \A i \in 1..Len(u.rows) : u.rows[i].epoch = EpochOf[r]
  BY <1>1, <1>4, WorkingFacts DEF Working
<1>6. t \in TaskType
  BY <1>3, <1>5 DEF TaskType, Working
<1>7. /\ t.pc = "coalesce" /\ t.added = u.added /\ t.counts = u.counts
      /\ t.rows = u.rows /\ t.status = u.status /\ t.page = u.page /\ t.after = u.after
      /\ t.redrives = u.redrives /\ t.flushed = u.flushed /\ t.backstop = u.backstop
  BY <1>3, <1>5 DEF TaskType
<1>8. ArchiveKept(r) /\ RunKept(r)
  BY <1>4, <1>7, QuietArchive, QuietRun
<1>9. /\ trail'[r] + t.added + t.counts <= merged'[r]
      /\ r \notin absorbed' => trail'[r] + t.added + t.counts = merged'[r]
  BY <1>4, <1>5, <1>7
<1>10. t.pc \in (Working \ {"none", "probe"}) \cup {"find"}
  BY <1>7 DEF Working
<1> QED BY <1>4, <1>5, <1>6, <1>7, <1>8, <1>9, <1>10, WorkKeeps

LEMMA AppendCoalescedKeeps ==
    ASSUME WriteBehindInv, NEW r \in Run, AppendCoalesced(r)
    PROVE  WriteBehindInv'
<1>1. /\ task[r].pc = "coalesce" /\ UNCHANGED archiveVars
      /\ UNCHANGED <<store_epoch, merged, absorbed, merges>>
  BY DEF AppendCoalesced
<1>2. CASE Leave(r, "superseded") /\ UNCHANGED <<audit_epoch, trail>>
  <2>1. RunKept(r)
    BY <1>1, <1>2, QuietRun
  <2> QED BY <1>1, <1>2, <2>1, LeaveKeeps DEF Status
<1>3. ASSUME ~(Leave(r, "superseded") /\ UNCHANGED <<audit_epoch, trail>>)
      PROVE  WriteBehindInv'
  <2>1. PICK u : u = task[r]
    OBVIOUS
  <2>2. PICK pc : pc = IF u.parking THEN "park" ELSE "find"
    OBVIOUS
  <2>3. PICK t : t = [u EXCEPT !.pc = pc, !.counts = 0, !.after = 0]
    OBVIOUS
  <2>4. /\ u \in TaskType /\ u.counts \in Nat /\ u.added = 0
        /\ u.status = "none" /\ u.page = <<>> /\ u.after = 0
        /\ ~u.backstop /\ (u.flushed => u.redrives > 0)
        /\ trail[r] + u.added + u.counts <= merged[r]
        /\ r \notin absorbed => trail[r] + u.added + u.counts = merged[r]
        /\ \A i \in 1..Len(u.rows) : u.rows[i].epoch = EpochOf[r]
    BY <1>1, <2>1, WorkingFacts DEF Working
  <2>5. /\ IF u.counts > 0 THEN append_many(r, u.counts) ELSE UNCHANGED <<audit_epoch, trail>>
        /\ Becomes(r, t)
    BY <1>3, <2>1, <2>2, <2>3 DEF AppendCoalesced
  <2>6. RunKept(r) /\ trail'[r] = trail[r] + u.counts /\ trail[r] \in Nat /\ merged[r] \in Nat
    <3>1. trail[r] \in Nat /\ merged[r] \in Nat
      BY OwnFacts
    <3>2. CASE u.counts > 0
      BY <1>1, <2>4, <2>5, <3>1, <3>2, AppendRun
    <3>3. CASE u.counts = 0
      BY <1>1, <2>5, <3>1, <3>3, QuietRun
    <3> QED BY <2>4, <3>2, <3>3
  <2>7. pc \in {"park", "find"} /\ pc \in Working \cup Flushing \cup Ended
    BY <2>2 DEF Working, Flushing
  <2>8. t \in TaskType
    BY <2>3, <2>4, <2>7 DEF TaskType
  <2>9. /\ t.pc = pc /\ t.added = u.added /\ t.counts = 0
        /\ t.rows = u.rows /\ t.status = u.status /\ t.page = u.page /\ t.after = 0
        /\ t.redrives = u.redrives /\ t.flushed = u.flushed /\ t.backstop = u.backstop
    BY <2>3, <2>4 DEF TaskType
  <2>10. ArchiveKept(r)
    BY <1>1, <2>5, <2>7, <2>9, QuietArchive
  <2>11. /\ trail'[r] + t.added + t.counts <= merged'[r]
         /\ r \notin absorbed' => trail'[r] + t.added + t.counts = merged'[r]
    BY <1>1, <2>4, <2>6, <2>9
  <2>12. t.pc \in (Working \ {"none", "probe"}) \cup {"find"}
    BY <2>7, <2>9 DEF Working
  <2> QED BY <2>4, <2>5, <2>6, <2>7, <2>8, <2>9, <2>10, <2>11, <2>12, WorkKeeps
<1> QED BY <1>2, <1>3

LEMMA ParkKeeps ==
    ASSUME WriteBehindInv, NEW r \in Run, Park(r)
    PROVE  WriteBehindInv'
<1>1. /\ task[r].pc = "park" /\ UNCHANGED archiveVars
      /\ UNCHANGED <<store_epoch, merged, absorbed, merges>>
  BY DEF Park
<1>2. CASE Leave(r, "superseded") /\ UNCHANGED <<audit_epoch, trail>>
  <2>1. RunKept(r)
    BY <1>1, <1>2, QuietRun
  <2> QED BY <1>1, <1>2, <2>1, LeaveKeeps DEF Status
<1>3. CASE append_many(r, 0) /\ Leave(r, "parked")
  <2>1. RunKept(r)
    BY <1>1, <1>3, AppendRun
  <2>2. trail' = trail
    <3>1. trail \in [Run -> Nat] /\ trail' = [trail EXCEPT ![r] = trail[r] + 0]
      BY <1>3 DEF append_many, WriteBehindInv, RunShapes
    <3>2. trail[r] + 0 = trail[r]
      BY <3>1
    <3> QED BY <3>1, <3>2
  <2> QED BY <1>1, <1>3, <2>1, <2>2, LeaveKeeps DEF Status
<1> QED BY <1>2, <1>3 DEF Park

\* A page is found, or there is none (the find of flush).
LEMMA FlushFindKeeps ==
    ASSUME WriteBehindInv, NEW r \in Run, FlushFind(r)
    PROVE  WriteBehindInv'
<1>1. PICK u : u = task[r]
  OBVIOUS
<1>2. PICK page : page = page_after(u.after)
  OBVIOUS
<1>3. /\ u.pc = "find" /\ UNCHANGED archiveVars
      /\ UNCHANGED <<store_epoch, audit_epoch, merges, trail, merged, absorbed>>
  BY <1>1 DEF FlushFind, runVars
<1>4. /\ u \in TaskType /\ u.after \in Nat /\ Fits(r, u) /\ Staged(u) /\ Balanced(r, u)
      /\ OwnAhead(r, u) /\ PassedNone(u) /\ ArchiveShapes /\ Numbers /\ RunKept(r)
      /\ \A i \in 1..Len(u.rows) : u.rows[i].epoch = EpochOf[r]
  BY <1>1, <1>3, OwnFacts, QuietRun DEF WriteBehindInv
<1>5. /\ u.added = 0 /\ u.counts = 0 /\ u.page = <<>> /\ (u.status # "none" => u.backstop)
      /\ (u.backstop => u.status # "none") /\ (u.flushed => u.redrives > 0)
  BY <1>3, <1>4 DEF Staged, Flushing
<1>6. \A x \in landed : x \in Issued /\ x \in Row /\ 0 < x.sequence
  BY <1>4 DEF Numbers, Issued, ArchiveShapes
<1>7. Numbered(buffer)
  <2>1. \A x \in buffer : x \in Issued /\ x \in Row
    BY <1>4, <1>6 DEF ArchiveShapes
  <2>2. meta.sequence \in Nat
    BY <1>4 DEF ArchiveShapes
  <2> QED BY <1>4, <2>1, <2>2 DEF Numbered, Numbers
<1>8. /\ page \in Seq(Row) /\ InOrder(page)
      /\ \A i \in 1..Len(page) : page[i] \in buffer /\ page[i].sequence > u.after
      /\ page = <<>> => \A x \in buffer : x.sequence <= u.after
      /\ page # <<>> => \A x \in buffer :
            u.after < x.sequence /\ x.sequence <= Last(page).sequence => InPage(x, page)
  <2>1. PICK after \in Nat : after = u.after
    BY <1>4
  <2>2. page = page_after(after)
    BY <1>2, <2>1
  <2>3. /\ page \in Seq(Row) /\ InOrder(page)
        /\ \A i \in 1..Len(page) : page[i] \in buffer /\ page[i].sequence > after
        /\ page = <<>> => \A x \in buffer : x.sequence <= after
        /\ page # <<>> => \A x \in buffer :
              after < x.sequence /\ x.sequence <= Last(page).sequence
                  => \E i \in 1..Len(page) : page[i] = x
    BY <1>7, <2>2, PageSkipsNone
  <2> QED BY <2>1, <2>3 DEF InPage
<1>9. \A x \in buffer : x \in landed /\ x \in Row
  BY <1>4, <1>6 DEF ArchiveShapes
<1>10. /\ buffer' = buffer /\ landed' = landed /\ late' = late /\ committed' = committed
  BY <1>3 DEF archiveVars
<1>11. ASSUME page # <<>>, NEW t, t = [u EXCEPT !.pc = "commit", !.page = page], Becomes(r, t)
       PROVE  WriteBehindInv'
  <2>1. t \in TaskType
    BY <1>4, <1>8, <1>11 DEF TaskType, Flushing
  <2>2. /\ t.pc = "commit" /\ t.page = page /\ t.after = u.after /\ t.status = u.status
        /\ t.added = u.added /\ t.counts = u.counts /\ t.rows = u.rows
        /\ t.redrives = u.redrives /\ t.flushed = u.flushed /\ t.backstop = u.backstop
    BY <1>4, <1>11 DEF TaskType
  <2>3. Staged(t)'
    BY <1>5, <1>11, <2>2 DEF Staged, Working, Flushing
  <2>4. Balanced(r, t)'
    BY <1>3, <1>4, <2>2 DEF Balanced
  <2>5. OwnAhead(r, t)'
    <3>1. ASSUME NEW x \in buffer, x.epoch = EpochOf[r], x.sequence <= Last(page).sequence
          PROVE  InPage(x, page)
      <4>1. u.after < x.sequence
        BY <1>3, <1>4, <3>1 DEF OwnAhead
      <4> QED BY <1>8, <1>11, <3>1, <4>1
    <3> QED BY <1>10, <2>2, <3>1 DEF OwnAhead
  <2>6. PageOK(t)'
    BY <1>8, <1>9, <1>10, <2>2 DEF PageOK
  <2>7. PassedNone(t)'
    <3>1. ASSUME NEW x \in landed, x.point \notin late, x.point \notin DOMAIN committed
          PROVE  /\ u.after < x.sequence
                 /\ x.sequence <= Last(page).sequence => InPage(x, page)
      <4>1. u.after < x.sequence
        BY <1>4, <3>1 DEF PassedNone
      <4>2. x \in buffer
        BY <3>1 DEF WriteBehindInv, Content, Covered
      <4> QED BY <1>8, <1>11, <4>1, <4>2
    <3> QED BY <1>10, <2>2, <3>1 DEF PassedNone
  <2>8. Fits(r, t)'
    BY <1>4, <2>1, <2>2, <2>3, <2>4, <2>5, <2>6, <2>7 DEF Fits
  <2>9. ArchiveKept(r)
    BY <1>3, <1>11, <2>2, QuietArchive
  <2> QED BY <1>4, <1>11, <2>8, <2>9, StepKeeps
<1>12. page = <<>> => \A x \in buffer : x.epoch # EpochOf[r]
  <2>1. ASSUME page = <<>>, NEW x \in buffer, x.epoch = EpochOf[r] PROVE FALSE
    <3>1. x.sequence <= u.after /\ u.after < x.sequence /\ x.sequence \in Nat
      BY <1>3, <1>4, <1>8, <1>9, <2>1 DEF OwnAhead, Row
    <3> QED BY <1>4, <3>1
  <2> QED BY <2>1
<1>13. ASSUME page = <<>>, u.backstop, NEW t, t = [u EXCEPT !.pc = "released", !.after = 0],
              Becomes(r, t)
       PROVE  WriteBehindInv'
  <2>1. t \in TaskType
    BY <1>4, <1>13 DEF TaskType, Ended
  <2>2. /\ t.pc = "released" /\ t.page = u.page /\ t.after = 0 /\ t.status = u.status
        /\ t.added = u.added /\ t.counts = u.counts /\ t.rows = u.rows
        /\ t.redrives = u.redrives /\ t.flushed = u.flushed /\ t.backstop = u.backstop
    BY <1>4, <1>13 DEF TaskType
  <2>3. Staged(t)'
    BY <1>5, <2>2 DEF Staged, Working, Flushing
  <2>4. Balanced(r, t)'
    BY <1>3, <1>4, <2>2 DEF Balanced
  <2>5. ArchiveKept(r)
    BY <1>3, <1>13, <2>2, QuietArchive
  <2>6. OwnAhead(r, t)' /\ PageOK(t)' /\ PassedNone(t)'
    <3>1. ArchiveShapes' /\ Numbers'
      BY <2>5 DEF ArchiveKept
    <3>2. t.page = <<>> /\ t.after = 0 /\ t.pc # "probe"
      BY <1>5, <2>2
    <3>3. \A x \in buffer' : x.epoch # EpochOf[r]
      BY <1>10, <1>12, <1>13
    <3> QED BY <3>1, <3>2, <3>3, AtRestFits
  <2>7. Fits(r, t)'
    BY <1>4, <2>1, <2>2, <2>3, <2>4, <2>6 DEF Fits
  <2> QED BY <1>4, <1>13, <2>5, <2>7, StepKeeps
<1>14. ASSUME page = <<>>, ~u.backstop,
              NEW t, t = [u EXCEPT !.pc = "probe", !.flushed = TRUE, !.after = 0], Becomes(r, t)
       PROVE  WriteBehindInv'
  <2>1. t \in TaskType
    BY <1>4, <1>14 DEF TaskType, Working
  <2>2. /\ t.pc = "probe" /\ t.page = u.page /\ t.after = 0 /\ t.status = u.status
        /\ t.added = u.added /\ t.counts = u.counts /\ t.rows = u.rows
        /\ t.redrives = u.redrives /\ t.backstop = u.backstop
    BY <1>4, <1>14 DEF TaskType
  <2>3. Staged(t)'
    BY <1>5, <1>14, <2>2 DEF Staged, Working, Flushing
  <2>4. Balanced(r, t)'
    BY <1>3, <1>4, <2>2 DEF Balanced
  <2>5. ArchiveKept(r)
    BY <1>3, <1>14, <2>2, QuietArchive
  <2>6. Len(t.page) = 0 /\ 1..0 = {}
    BY <1>5, <2>2
  <2>7. OwnAhead(r, t)'
    BY <1>10, <1>12, <1>14 DEF OwnAhead
  <2>8. PageOK(t)'
    BY <2>6 DEF PageOK, InOrder
  <2>9. PassedNone(t)'
    BY <1>5, <1>6, <1>10, <2>2 DEF PassedNone
  <2>10. Fits(r, t)'
    BY <1>4, <2>1, <2>2, <2>3, <2>4, <2>7, <2>8, <2>9 DEF Fits
  <2> QED BY <1>4, <1>14, <2>5, <2>10, StepKeeps
<1>15. \/ page # <<>> /\ Becomes(r, [u EXCEPT !.pc = "commit", !.page = page])
       \/ page = <<>> /\ u.backstop /\ Becomes(r, [u EXCEPT !.pc = "released", !.after = 0])
       \/ page = <<>> /\ ~u.backstop
          /\ Becomes(r, [u EXCEPT !.pc = "probe", !.flushed = TRUE, !.after = 0])
  BY <1>1, <1>2 DEF FlushFind
<1>16. CASE page # <<>> /\ Becomes(r, [u EXCEPT !.pc = "commit", !.page = page])
  <2>1. PICK t : t = [u EXCEPT !.pc = "commit", !.page = page]
    OBVIOUS
  <2> QED BY <1>11, <1>16, <2>1
<1>17. CASE page = <<>> /\ u.backstop /\ Becomes(r, [u EXCEPT !.pc = "released", !.after = 0])
  <2>1. PICK t : t = [u EXCEPT !.pc = "released", !.after = 0]
    OBVIOUS
  <2> QED BY <1>13, <1>17, <2>1
<1>18. CASE /\ page = <<>> /\ ~u.backstop
            /\ Becomes(r, [u EXCEPT !.pc = "probe", !.flushed = TRUE, !.after = 0])
  <2>1. PICK t : t = [u EXCEPT !.pc = "probe", !.flushed = TRUE, !.after = 0]
    OBVIOUS
  <2> QED BY <1>14, <1>18, <2>1
<1> QED BY <1>15, <1>16, <1>17, <1>18

\* A page is written (the bulk_write of flush).
LEMMA FlushCommitKeeps ==
    ASSUME WriteBehindInv, NEW r \in Run, FlushCommit(r)
    PROVE  WriteBehindInv'
<1>1. PICK u : u = task[r]
  OBVIOUS
<1>2. PICK t : t = [u EXCEPT !.pc = "clear"]
  OBVIOUS
<1>3. PICK page : page = u.page
  OBVIOUS
<1>4. /\ u.pc = "commit" /\ Becomes(r, t) /\ UNCHANGED <<meta, buffer, cipher, landed, late>>
      /\ UNCHANGED <<store_epoch, audit_epoch, merges, trail, merged, absorbed>>
  BY <1>1, <1>2 DEF FlushCommit, runVars
<1>5. committed' = FoldRows(committed, page)
  BY <1>1, <1>3, Zenon DEF FlushCommit, bulk_write, FoldRows
<1>6. /\ u \in TaskType /\ page \in Seq(Row) /\ Fits(r, u) /\ Staged(u) /\ Balanced(r, u)
      /\ OwnAhead(r, u) /\ PageOK(u) /\ PassedNone(u) /\ RunKept(r)
      /\ \A i \in 1..Len(u.rows) : u.rows[i].epoch = EpochOf[r]
  BY <1>1, <1>3, <1>4, OwnFacts, QuietRun
<1>7. Len(page) \in 0..Len(page) /\ page = SubSeq(page, 1, Len(page))
  BY <1>6
<1>8. t \in TaskType
  BY <1>2, <1>6 DEF TaskType, Flushing
<1>9. /\ t.pc = "clear" /\ t.page = page /\ t.after = u.after /\ t.status = u.status
      /\ t.added = u.added /\ t.counts = u.counts /\ t.rows = u.rows
      /\ t.redrives = u.redrives /\ t.flushed = u.flushed /\ t.backstop = u.backstop
  BY <1>2, <1>3, <1>6 DEF TaskType
<1>10. ArchiveKept(r) /\ \A i \in 1..Len(page) : Covered(page[i])'
  <2>1. page = task[r].page /\ task[r].pc = "commit" /\ t.pc # "insert"
    BY <1>1, <1>3, <1>4, <1>9
  <2> QED BY <1>4, <1>5, <1>7, <2>1, ArchiveCommit
<1>11. Staged(t)'
  BY <1>3, <1>4, <1>6, <1>9 DEF Staged, Working, Flushing
<1>12. Balanced(r, t)'
  BY <1>4, <1>6, <1>9 DEF Balanced
<1>13. OwnAhead(r, t)'
  BY <1>3, <1>4, <1>6, <1>9 DEF OwnAhead
<1>14. PageOK(t)'
  BY <1>3, <1>4, <1>6, <1>9, <1>10 DEF PageOK
<1>15. PassedNone(t)'
  <2>1. DOMAIN committed \subseteq DOMAIN committed'
    BY <1>10 DEF ArchiveKept, Harmless
  <2> QED BY <1>3, <1>4, <1>6, <1>9, <2>1 DEF PassedNone
<1>16. Fits(r, t)'
  BY <1>6, <1>8, <1>9, <1>11, <1>12, <1>13, <1>14, <1>15 DEF Fits
<1> QED BY <1>4, <1>6, <1>10, <1>16, StepKeeps

\* A page written is cleared, and the cursor moves past it.
LEMMA FlushClearKeeps ==
    ASSUME WriteBehindInv, NEW r \in Run, FlushClear(r)
    PROVE  WriteBehindInv'
<1>1. PICK u : u = task[r]
  OBVIOUS
<1>2. PICK page : page = u.page
  OBVIOUS
<1>3. PICK last : last = Last(page).sequence
  OBVIOUS
<1>4. PICK t : t = [u EXCEPT !.pc = "find", !.page = <<>>, !.after = last]
  OBVIOUS
<1>5. /\ u.pc = "clear" /\ Becomes(r, t) /\ buffer' = buffer \ cleared(page)
      /\ UNCHANGED <<meta, committed, cipher, landed, late>>
      /\ UNCHANGED <<store_epoch, audit_epoch, merges, trail, merged, absorbed>>
  BY <1>1, <1>2, <1>3, <1>4 DEF FlushClear, runVars
<1>6. /\ u \in TaskType /\ page \in Seq(Row) /\ Fits(r, u) /\ Staged(u) /\ Balanced(r, u)
      /\ OwnAhead(r, u) /\ PageOK(u) /\ PassedNone(u) /\ RunKept(r) /\ ArchiveShapes
      /\ \A i \in 1..Len(u.rows) : u.rows[i].epoch = EpochOf[r]
  BY <1>1, <1>2, <1>5, OwnFacts, QuietRun DEF WriteBehindInv
<1>7. page # <<>> /\ last \in Nat
  <2>1. page # <<>>
    BY <1>2, <1>5, <1>6 DEF Staged
  <2> QED BY <1>3, <1>6, <2>1, LastOfPage
<1>8. t \in TaskType
  <2>1. <<>> \in Seq(Row)
    OBVIOUS
  <2> QED BY <1>4, <1>6, <1>7, <2>1 DEF TaskType, Flushing
<1>9. /\ t.pc = "find" /\ t.page = <<>> /\ t.after = last /\ t.status = u.status
      /\ t.added = u.added /\ t.counts = u.counts /\ t.rows = u.rows
      /\ t.redrives = u.redrives /\ t.flushed = u.flushed /\ t.backstop = u.backstop
  BY <1>4, <1>6 DEF TaskType
<1>10. ArchiveKept(r)
  <2>1. PICK gone : gone = cleared(page)
    OBVIOUS
  <2>2. /\ gone \in SUBSET cleared(task[r].page) /\ buffer' = buffer \ gone
        /\ task[r].pc = "clear" /\ t.pc # "insert"
    BY <1>1, <1>2, <1>5, <1>9, <2>1
  <2> QED BY <1>5, <2>2, ArchiveClear
<1>11. Staged(t)'
  BY <1>5, <1>6, <1>9 DEF Staged, Working, Flushing
<1>12. Balanced(r, t)'
  BY <1>5, <1>6, <1>9 DEF Balanced
<1>13. OwnAhead(r, t)'
  <2>1. ASSUME NEW x \in buffer', x.epoch = EpochOf[r] PROVE last < x.sequence
    <3>1. x \in buffer /\ x \notin cleared(page) /\ x.sequence \in Nat
      BY <1>5, <1>6, <2>1 DEF ArchiveShapes, Row
    <3>2. ~InPage(x, page)
      BY <3>1 DEF cleared, InPage
    <3>3. ~(x.sequence <= last)
      BY <1>2, <1>3, <1>6, <1>7, <2>1, <3>1, <3>2 DEF OwnAhead
    <3> QED BY <1>7, <3>1, <3>3
  <2> QED BY <1>9, <2>1 DEF OwnAhead
<1>14. PageOK(t)'
  <2>1. Len(t.page) = 0 /\ 1..0 = {}
    BY <1>9
  <2> QED BY <2>1 DEF PageOK, InOrder
<1>15. PassedNone(t)'
  <2>1. ASSUME NEW x \in landed, x.point \notin late, x.point \notin DOMAIN committed
        PROVE  last < x.sequence
    <3>1. x.sequence \in Nat
      BY <1>6 DEF ArchiveShapes, Row
    <3>2. ASSUME x.sequence <= last PROVE FALSE
      <4>1. InPage(x, page)
        BY <1>2, <1>3, <1>6, <1>7, <2>1, <3>2 DEF PassedNone
      <4>2. Covered(x)
        BY <1>2, <1>5, <1>6, <4>1 DEF InPage, PageOK
      <4> QED BY <2>1, <4>2 DEF Covered
    <3> QED BY <1>7, <3>1, <3>2
  <2> QED BY <1>5, <1>9, <2>1 DEF PassedNone
<1>16. Fits(r, t)'
  BY <1>6, <1>8, <1>9, <1>11, <1>12, <1>13, <1>14, <1>15 DEF Fits
<1> QED BY <1>5, <1>6, <1>10, <1>16, StepKeeps

LEMMA ProbeKeeps ==
    ASSUME WriteBehindInv, NEW r \in Run, Probe(r)
    PROVE  WriteBehindInv'
<1>1. /\ task[r].pc = "probe" /\ UNCHANGED archiveVars
      /\ UNCHANGED <<store_epoch, audit_epoch, merges, trail, merged, absorbed>>
  BY DEF Probe, runVars
<1>2. RunKept(r)
  BY <1>1, QuietRun
<1>3. CASE Leave(r, "completed") \/ Leave(r, "superseded")
  BY <1>1, <1>2, <1>3, LeaveKeeps DEF Status
<1>4. CASE Becomes(r, [task[r] EXCEPT !.pc = "gather", !.redrives = @ + 1])
  <2>1. PICK u : u = task[r]
    OBVIOUS
  <2>2. PICK n \in Nat : n = u.redrives + 1 /\ n > 0
    <3>1. u.redrives \in Nat
      BY <2>1, OwnFacts
    <3> QED BY <3>1
  <2>3. PICK t : t = [u EXCEPT !.pc = "gather", !.redrives = n]
    OBVIOUS
  <2>4. /\ u \in TaskType /\ u.redrives \in Nat /\ Staged(u) /\ Balanced(r, u) /\ Becomes(r, t)
        /\ \A i \in 1..Len(u.rows) : u.rows[i].epoch = EpochOf[r]
    BY <1>4, <2>1, <2>3, <2>2, OwnFacts
  <2>5. t \in TaskType
    BY <2>3, <2>4 DEF TaskType, Working
  <2>6. /\ t.pc = "gather" /\ t.added = u.added /\ t.counts = u.counts
        /\ t.rows = u.rows /\ t.status = u.status /\ t.page = u.page /\ t.after = u.after
        /\ t.redrives > 0 /\ t.backstop = u.backstop
    BY <2>3, <2>4, <2>2 DEF TaskType
  <2>7. /\ u.status = "none" /\ u.page = <<>> /\ u.after = 0 /\ u.added = 0 /\ u.counts = 0
        /\ ~u.backstop
    BY <1>1, <2>1, <2>4 DEF Staged, Working, Flushing
  <2>8. /\ trail'[r] + t.added + t.counts <= merged'[r]
        /\ r \notin absorbed' => trail'[r] + t.added + t.counts = merged'[r]
    BY <1>1, <2>4, <2>6, <2>7 DEF Balanced
  <2>9. ArchiveKept(r)
    BY <1>1, <2>4, <2>6, QuietArchive
  <2>10. t.pc \in (Working \ {"none", "probe"}) \cup {"find"}
    BY <2>6 DEF Working
  <2> QED BY <1>2, <2>4, <2>5, <2>6, <2>7, <2>8, <2>9, <2>10, WorkKeeps
<1> QED BY <1>3, <1>4 DEF Probe

\* A run that is over with a failure.
LEMMA FailedFits ==
    ASSUME WriteBehindInv, NEW r \in Run, ArchiveKept(r), UNCHANGED <<trail, merged>>,
           NEW t \in TaskType, t.pc \in Ended, t.status = "failed", t.page = <<>>, t.after = 0,
           t.added = 0, t.counts = 0, t.flushed => t.redrives > 0,
           \A i \in 1..Len(t.rows) : t.rows[i].epoch = EpochOf[r]
    PROVE  Fits(r, t)'
<1>1. ArchiveShapes' /\ Numbers'
  BY DEF ArchiveKept
<1>2. OwnAhead(r, t)' /\ PageOK(t)' /\ PassedNone(t)'
  <2>1. t.pc # "probe" /\ t.status \notin Clean
    BY DEF Ended, Clean
  <2> QED BY <1>1, <2>1, AtRestFits
<1>3. Staged(t)'
  BY DEF Staged, Working, Flushing, Ended
<1>4. Balanced(r, t)'
  <2>1. /\ Balanced(r, task[r]) /\ trail[r] \in Nat /\ merged[r] \in Nat
        /\ task[r].added \in Nat /\ task[r].counts \in Nat
    BY OwnFacts
  <2>2. trail[r] <= merged[r]
    BY <2>1 DEF Balanced
  <2>3. t.status \notin Clean \cup {"none"} /\ trail[r] + t.added + t.counts = trail[r]
    BY <2>1 DEF Clean
  <2> QED BY <2>2, <2>3 DEF Balanced
<1> QED BY <1>2, <1>3, <1>4 DEF Fits

LEMMA CallFailsKeeps ==
    ASSUME WriteBehindInv, NEW r \in Run, CallFails(r)
    PROVE  WriteBehindInv'
<1>1. /\ task[r].pc \notin {"none", "gather"} \cup Ended /\ PartOfCall(r)
      /\ UNCHANGED <<meta, cipher>>
      /\ UNCHANGED <<store_epoch, audit_epoch, trail, merged, merges>>
  BY DEF CallFails
<1>2. CASE task[r].pc \in {"audit", "allocate", "insert"}
  <2>1. BookkeepingRaises(r)
    BY <1>2 DEF CallFails
  <2> QED BY <1>1, <1>2, <2>1, BookkeepingRaisesKeeps
<1>3. CASE task[r].pc \notin {"audit", "allocate", "insert"}
  <2>1. PICK u : u = task[r]
    OBVIOUS
  <2>2. /\ UNCHANGED absorbed
        /\ IF u.backstop
           THEN Becomes(r, [u EXCEPT !.pc = "released", !.status = "failed",
                                     !.page = <<>>, !.after = 0])
           ELSE Leave(r, "failed")
    BY <1>3, <2>1 DEF CallFails
  <2>3. RunKept(r)
    BY <1>1, <2>2, QuietRun
  <2>4. CASE ~u.backstop
    <3>1. Leave(r, "failed")
      BY <2>2, <2>4
    <3> QED BY <1>1, <2>3, <3>1, LeaveKeeps DEF Status
  <2>5. CASE u.backstop
    <3>1. PICK t : t = [u EXCEPT !.pc = "released", !.status = "failed",
                                 !.page = <<>>, !.after = 0]
      OBVIOUS
    <3>2. Becomes(r, t)
      BY <2>2, <2>5, <3>1
    <3>3. /\ u \in TaskType /\ Staged(u)
          /\ \A i \in 1..Len(u.rows) : u.rows[i].epoch = EpochOf[r]
      BY <2>1, OwnFacts
    <3>4. <<>> \in Seq(Row)
      OBVIOUS
    <3>5. t \in TaskType
      BY <3>1, <3>3, <3>4 DEF TaskType, Ended, Status
    <3>6. /\ t.pc = "released" /\ t.status = "failed" /\ t.page = <<>> /\ t.after = 0
          /\ t.added = u.added /\ t.counts = u.counts /\ t.rows = u.rows
          /\ t.redrives = u.redrives /\ t.flushed = u.flushed
      BY <3>1, <3>3 DEF TaskType
    <3>7. u.pc \in Flushing
      BY <1>1, <2>1, <2>5, <3>3 DEF TaskType, Staged
    <3>8. u.added = 0 /\ u.counts = 0 /\ (u.flushed => u.redrives > 0)
      BY <3>3, <3>7 DEF Staged, Flushing
    <3>9. ArchiveKept(r)
      BY <1>1, <3>2, <3>6, PartOfCallKeeps
    <3>10. Fits(r, t)'
      BY <1>1, <3>3, <3>5, <3>6, <3>8, <3>9, FailedFits DEF Ended
    <3> QED BY <2>3, <3>2, <3>9, <3>10, StepKeeps
  <2> QED BY <2>4, <2>5
<1> QED BY <1>2, <1>3

LEMMA CrashKeeps ==
    ASSUME WriteBehindInv, NEW r \in Run, Crash(r)
    PROVE  WriteBehindInv'
<1>1. PICK u : u = Fresh
  OBVIOUS
<1>2. PICK t : t = [u EXCEPT !.pc = "dead", !.status = "failed"]
  OBVIOUS
<1>3. /\ PartOfCall(r) /\ UNCHANGED <<meta, cipher>> /\ Becomes(r, t)
      /\ UNCHANGED <<store_epoch, audit_epoch, merges, trail, merged, absorbed>>
  BY <1>1, <1>2 DEF Crash, runVars
<1>4. /\ u \in TaskType /\ u.rows = <<>> /\ u.page = <<>> /\ u.after = 0 /\ u.added = 0
      /\ u.counts = 0 /\ u.flushed = FALSE
  BY <1>1, FreshFacts
<1>5. t \in TaskType
  BY <1>2, <1>4 DEF TaskType, Ended, Status
<1>6. /\ t.pc = "dead" /\ t.status = "failed" /\ t.page = u.page /\ t.after = u.after
      /\ t.added = u.added /\ t.counts = u.counts /\ t.rows = u.rows /\ t.flushed = u.flushed
  BY <1>2, <1>4 DEF TaskType
<1>7. ArchiveKept(r) /\ RunKept(r)
  BY <1>3, <1>6, PartOfCallKeeps, QuietRun
<1>8. Len(t.rows) = 0 /\ t.pc \in Ended
  BY <1>4, <1>6 DEF Ended
<1>9. Fits(r, t)'
  BY <1>3, <1>4, <1>5, <1>6, <1>7, <1>8, FailedFits
<1> QED BY <1>3, <1>7, <1>9, StepKeeps

LEMMA NextWriteBehindInv == WriteBehindInv /\ [Next]_vars => WriteBehindInv'
<1>1. SUFFICES ASSUME WriteBehindInv, [Next]_vars PROVE WriteBehindInv'
  OBVIOUS
<1>2. CASE UNCHANGED vars
  <2>1. /\ meta' = meta /\ buffer' = buffer /\ committed' = committed /\ cipher' = cipher
        /\ landed' = landed /\ late' = late /\ task' = task /\ store_epoch' = store_epoch
        /\ audit_epoch' = audit_epoch /\ merges' = merges /\ trail' = trail
        /\ merged' = merged /\ absorbed' = absorbed
    BY <1>2 DEF vars, archiveVars, runVars
  <2>2. ArchiveShapes' /\ RunShapes'
    BY <1>1, <2>1 DEF WriteBehindInv, ArchiveShapes, RunShapes
  <2>3. Numbers'
    BY <1>1, <2>1 DEF WriteBehindInv, Numbers, Issued
  <2>4. Content' /\ FirstKept'
    BY <1>1, <2>1 DEF WriteBehindInv, Content, Covered, FirstKept, RowsOf
  <2>5. ASSUME NEW r \in Run PROVE Fits(r, task[r])'
    BY <1>1, <2>1 DEF WriteBehindInv, Fits, Staged, Balanced, OwnAhead, PageOK, Covered,
       PassedNone
  <2> QED BY <2>2, <2>3, <2>4, <2>5 DEF WriteBehindInv
<1>3. ASSUME NEW r \in Run, Grant(r) \/ CallFails(r) \/ Crash(r) PROVE WriteBehindInv'
  BY <1>1, <1>3, GrantKeeps, CallFailsKeeps, CrashKeeps
<1>4. ASSUME NEW r \in Run, RunStep(r) PROVE WriteBehindInv'
  BY <1>1, <1>4, MergeKeeps, AppendAuditKeeps, AllocateKeeps, InsertKeeps, CloseGatherKeeps,
     AppendCoalescedKeeps, ParkKeeps, FlushFindKeeps, FlushCommitKeeps, FlushClearKeeps,
     ProbeKeeps DEF RunStep
<1>5. CASE AllDone
  BY <1>2, <1>5 DEF AllDone
<1> QED BY <1>1, <1>2, <1>3, <1>4, <1>5 DEF Next

LEMMA WriteBehindInvAlways == Spec => []WriteBehindInv
<1>1. Init => WriteBehindInv
  BY InitWriteBehindInv
<1>2. WriteBehindInv /\ [Next]_vars => WriteBehindInv'
  BY NextWriteBehindInv
<1> QED BY <1>1, <1>2, PTL DEF Spec

-----------------------------------------------------------------------------
(* The theorems.                                                           *)

\* TypeOK: the archive's numbers are unique and rise with the epochs, no
\* personal data was buffered in the clear, and no audit row or count stands for
\* a merge that did not happen (archive_many, _merge_bookkeeping).
THEOREM WriteBehindTypeCorrect == Spec => []TypeOK
<1>1. ASSUME WriteBehindInv PROVE TypeOK
  <2>1. ArchiveType
    <3>1. ArchiveShapes /\ Numbers /\ landed \subseteq Issued
      BY <1>1 DEF WriteBehindInv, Issued
    <3> QED BY <3>1 DEF ArchiveShapes, Numbers, ArchiveType
  <2>2. ASSUME NEW r \in Run
        PROVE  /\ task[r].pc \in {"none", "gather", "audit", "allocate", "insert",
                     "coalesce", "park", "find", "commit", "clear", "probe"} \cup Ended
               /\ trail[r] <= merged[r]
               /\ task[r].counts <= merged[r] - trail[r]
    <3>1. /\ task[r] \in TaskType /\ Balanced(r, task[r]) /\ trail[r] \in Nat /\ merged[r] \in Nat
          /\ task[r].counts \in Nat /\ task[r].added \in Nat
      BY <1>1, OwnFacts
    <3>2. task[r].pc \in Working \cup Flushing \cup Ended
      BY <3>1 DEF TaskType
    <3>3. trail[r] + task[r].added + task[r].counts <= merged[r]
      BY <3>1 DEF Balanced
    <3>4. trail[r] <= merged[r] /\ task[r].counts <= merged[r] - trail[r]
      BY <3>1, <3>3
    <3> QED BY <3>2, <3>4 DEF Working, Flushing
  <2> QED BY <2>1, <2>2 DEF TypeOK
<1> QED BY <1>1, WriteBehindInvAlways, PTL

\* ArchiveFaithful, for any number of runs and flushes side by side: what read
\* answers is what the rows that landed say (flush, read and _fold_in).
THEOREM ArchiveAnswersForRows == Spec => []ArchiveFaithful
<1>1. ASSUME WriteBehindInv PROVE ArchiveFaithful
  <2>1. ArchiveShapes /\ Numbers /\ Content /\ FirstKept
    BY <1>1 DEF WriteBehindInv
  <2>2. \A x \in landed : x \in Row /\ x \in Issued
    BY <2>1 DEF ArchiveShapes, Issued
  <2>3. Numbered(buffer)
    <3>1. \A x \in buffer : x \in Issued /\ x \in Row
      BY <2>1, <2>2 DEF ArchiveShapes
    <3>2. meta.sequence \in Nat
      BY <2>1 DEF ArchiveShapes
    <3> QED BY <2>1, <3>1, <3>2 DEF Numbered, Numbers
  <2>4. PICK s : s = BySequence(buffer)
    OBVIOUS
  <2>5. /\ s \in Seq(buffer) /\ InOrder(s) /\ \A x \in buffer : \E i \in 1..Len(s) : s[i] = x
    BY <2>3, <2>4, BySequenceSorts
  <2>6. /\ s \in Seq(Row) /\ Len(s) \in Nat
        /\ \A i \in 1..Len(s) : s[i] \in buffer /\ s[i] \in landed /\ s[i] \in Row
    <3>1. \A i \in 1..Len(s) : s[i] \in buffer
      BY <2>5
    <3>2. \A x \in buffer : x \in landed /\ x \in Row
      BY <2>1, <2>2 DEF ArchiveShapes
    <3>3. Len(s) \in Nat /\ s \in [1..Len(s) -> Row]
      BY <2>5, <3>1, <3>2
    <3> QED BY <3>1, <3>2, <3>3, RowsFrom
  <2>7. PICK answer : answer = read
    OBVIOUS
  <2>8. FoldsTo(committed, s, Len(s), answer)
    <3>1. answer = FoldRows(committed, s)
      BY <2>4, <2>7, Zenon DEF read, FoldRows
    <3> QED BY <2>1, <2>6, <3>1, FoldRowsFoldsTo DEF ArchiveShapes
  <2>9. \A x \in landed : x \notin buffer => Covered(x)
    BY <2>1 DEF Content
  <2>10. \A p \in DOMAIN committed : /\ \E x \in RowsOf(p) : x.at = committed[p].last
                                    /\ \E x \in RowsOf(p) : x.epoch = committed[p].epoch
    BY <2>1 DEF Content
  <2>11. DOMAIN answer = {x.point : x \in landed}
    <3>1. ASSUME NEW p \in DOMAIN answer PROVE \E x \in landed : x.point = p
      BY <2>6, <2>8, <2>10 DEF FoldsTo, RowsOf
    <3>2. ASSUME NEW x \in landed PROVE x.point \in DOMAIN answer
      <4>1. CASE x \in buffer
        BY <2>5, <2>8, <4>1 DEF FoldsTo
      <4>2. CASE x \notin buffer
        BY <2>8, <2>9, <4>2 DEF FoldsTo, Covered
      <4> QED BY <4>1, <4>2
    <3> QED BY <3>1, <3>2
  <2>12. ASSUME NEW p \in DOMAIN answer
         PROVE  /\ \A x \in RowsOf(p) : x.at <= answer[p].last /\ x.epoch <= answer[p].epoch
                /\ \E x \in RowsOf(p) : x.at = answer[p].last
                /\ \E x \in RowsOf(p) : x.epoch = answer[p].epoch
                /\ p \notin late => \E x \in RowsOf(p) :
                      x.at = answer[p].first /\ \A y \in RowsOf(p) : x.sequence <= y.sequence
    <3>1. ASSUME NEW x \in RowsOf(p)
          PROVE  x.at <= answer[p].last /\ x.epoch <= answer[p].epoch
      <4>1. x \in landed /\ x.point = p /\ x \in Row
        BY <2>2 DEF RowsOf
      <4>2. CASE x \in buffer
        BY SMTT(30), <2>5, <2>8, <4>1, <4>2 DEF FoldsTo
      <4>3. CASE x \notin buffer
        <5>1. PICK old, new : old = committed[p] /\ new = answer[p]
          OBVIOUS
        <5>2. p \in DOMAIN committed /\ x.at <= old.last /\ x.epoch <= old.epoch
          BY <2>9, <4>1, <4>3, <5>1 DEF Covered
        <5>3. old.last <= new.last /\ old.epoch <= new.epoch
          BY <2>8, <5>1, <5>2 DEF FoldsTo
        <5>4. old \in Seen /\ new \in Seen
          BY <2>1, <2>8, <2>12, <5>1, <5>2, FoldedFacts DEF ArchiveShapes, FoldsTo
        <5> QED BY <4>1, <5>1, <5>2, <5>3, <5>4 DEF Row, Seen
      <4> QED BY <4>2, <4>3
    <3>2. \E x \in RowsOf(p) : x.at = answer[p].last
      <4>1. \/ p \in DOMAIN committed /\ answer[p].last = committed[p].last
            \/ \E i \in 1..Len(s) : s[i].point = p /\ s[i].at = answer[p].last
        BY <2>8, <2>12 DEF FoldsTo
      <4> QED BY <2>6, <2>10, <4>1 DEF RowsOf
    <3>3. \E x \in RowsOf(p) : x.epoch = answer[p].epoch
      <4>1. \/ p \in DOMAIN committed /\ answer[p].epoch = committed[p].epoch
            \/ \E i \in 1..Len(s) : s[i].point = p /\ s[i].epoch = answer[p].epoch
        BY <2>8, <2>12 DEF FoldsTo
      <4> QED BY <2>6, <2>10, <4>1 DEF RowsOf
    <3>4. ASSUME p \notin late, p \in DOMAIN committed
          PROVE  \E x \in RowsOf(p) :
                    x.at = answer[p].first /\ \A y \in RowsOf(p) : x.sequence <= y.sequence
      <4>1. answer[p].first = committed[p].first
        BY <2>8, <3>4 DEF FoldsTo
      <4> QED BY <2>1, <3>4, <4>1 DEF FirstKept
    <3>5. ASSUME p \notin DOMAIN committed
          PROVE  \E x \in RowsOf(p) :
                    x.at = answer[p].first /\ \A y \in RowsOf(p) : x.sequence <= y.sequence
      <4>1. PICK i \in 1..Len(s) : /\ s[i].point = p /\ s[i].at = answer[p].first
                                   /\ \A j \in 1..(i - 1) : s[j].point # p
        BY <2>8, <2>12, <3>5 DEF FoldsTo
      <4>2. PICK x \in RowsOf(p) : x = s[i] /\ x \in Row
        BY <2>6, <4>1 DEF RowsOf
      <4>3. ASSUME NEW y \in RowsOf(p) PROVE x.sequence <= y.sequence
        <5>1. y \in landed /\ y.point = p /\ y \in Row
          BY <2>2 DEF RowsOf
        <5>2. y \in buffer
          BY <2>9, <3>5, <5>1 DEF Covered
        <5>3. PICK j \in 1..Len(s) : s[j] = y
          BY <2>5, <5>2
        <5>4. j \notin 1..(i - 1)
          BY <4>1, <5>1, <5>3
        <5>5. i < j \/ i = j
          BY <2>6, <4>1, <5>3, <5>4
        <5>6. CASE i < j
          <6>1. s[i].sequence < s[j].sequence
            BY <2>5, <4>1, <5>3, <5>6 DEF InOrder
          <6>2. x.sequence \in Nat /\ y.sequence \in Nat
            BY <4>2, <5>1 DEF Row
          <6> QED BY <4>2, <5>3, <6>1, <6>2
        <5>7. CASE i = j
          BY <4>2, <5>3, <5>7 DEF Row
        <5> QED BY <5>5, <5>6, <5>7
      <4> QED BY <4>1, <4>2, <4>3
    <3> QED BY <3>1, <3>2, <3>3, <3>4, <3>5
  <2> QED BY <2>7, <2>11, <2>12 DEF ArchiveFaithful
<1> QED BY <1>1, WriteBehindInvAlways, PTL

\* CleanEndAccounted: a clean end leaves the audit trail even with the merges and
\* no archive row of the run unflushed, but for the two exceptions the property
\* names (orchestrator.py:375, 396-398, 458).
THEOREM CleanEndIsAccounted == Spec => []CleanEndAccounted
<1>1. ASSUME WriteBehindInv PROVE CleanEndAccounted
  <2>1. SUFFICES ASSUME NEW r \in Run, task[r].pc = "released", task[r].status \in Clean
                 PROVE  /\ r \in absorbed \/ trail[r] = merged[r]
                        /\ \/ task[r].status = "parked" /\ task[r].redrives > 0
                           \/ \A x \in buffer : x.epoch # EpochOf[r]
    BY DEF CleanEndAccounted
  <2>2. /\ Staged(task[r]) /\ Balanced(r, task[r]) /\ OwnAhead(r, task[r])
        /\ trail[r] \in Nat /\ merged[r] \in Nat
    BY <1>1, OwnFacts
  <2>3. task[r].added = 0 /\ task[r].counts = 0
    BY <2>1, <2>2 DEF Staged
  <2>4. r \in absorbed \/ trail[r] = merged[r]
    BY <2>1, <2>2, <2>3 DEF Balanced
  <2>5. \A x \in buffer : x.epoch = EpochOf[r] =>
           task[r].status = "parked" /\ task[r].redrives > 0
    BY <2>1, <2>2 DEF OwnAhead
  <2> QED BY <2>4, <2>5
<1> QED BY <1>1, WriteBehindInvAlways, PTL
=============================================================================
