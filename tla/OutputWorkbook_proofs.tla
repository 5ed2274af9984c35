------------------------- MODULE OutputWorkbook_proofs -------------------------
(***************************************************************************)
(* Theorems about OutputWorkbook for any workbooks, captions, answers and  *)
(* numbers of runs.                                                        *)
(***************************************************************************)
EXTENDS OutputWorkbook, TLAPS, FiniteSetTheorems, NaturalsInduction,
        WellFoundedInduction

----------------------------------------------------------------------------
(* Sets of numbers: their first, last and nth elements                     *)

LEMMA LeastNumber ==
  ASSUME NEW T \in SUBSET Nat, T # {}
  PROVE  \E m \in T : \A k \in T : m <= k
<1> DEFINE R == {ss \in Nat \X Nat : ss[1] < ss[2]}
<1>1. IsWellFoundedOn(R, Nat)
  BY NatLessThanWellFounded DEF OpToRel
<1>2. \E x \in T : \A y \in T : ~(<<y, x>> \in R)
  <2> HIDE DEF R
  <2> QED
    BY <1>1, WFMin
<1>3. PICK m \in T : \A y \in T : ~(<<y, m>> \in R)
  BY <1>2
<1>4. \A y \in T : ~(y < m)
  BY <1>3
<1> QED
  BY <1>4

LEMMA FirstIsLeast ==
  ASSUME NEW S, \A s \in S : s \in Nat, S # {}
  PROVE  First(S) \in S /\ \A k \in S : First(S) <= k
BY LeastNumber DEF First

LEMMA LastIsGreatest ==
  ASSUME NEW n \in Nat, NEW S, \A s \in S : s \in 1..n, S # {}
  PROVE  Last(S) \in S /\ \A k \in S : k <= Last(S)
<1> DEFINE T == {n - k : k \in S}
<1>1. T \in SUBSET Nat /\ T # {}
  OBVIOUS
<1>2. PICK m \in T : \A j \in T : m <= j
  <2> HIDE DEF T
  <2> QED
    BY <1>1, LeastNumber
<1>3. PICK k \in S : m = n - k
  BY <1>2
<1>4. \A j \in S : j <= k
  <2> TAKE j \in S
  <2>1. n - j \in T
    OBVIOUS
  <2>2. m <= n - j
    BY <1>2, <2>1
  <2> QED
    BY <1>3, <2>2
<1> QED
  BY <1>4 DEF Last

\* How many elements come up to q.
Rank(S, q) == Cardinality({k \in S : k <= q})

LEMMA UpTo ==
  ASSUME NEW n \in Nat, NEW S, \A s \in S : s \in 1..n
  PROVE  /\ IsFiniteSet(S) /\ Cardinality(S) \in 0..n
         /\ \A q : Rank(S, q) \in 0..Cardinality(S)
<1>1. IsFiniteSet(1..n) /\ Cardinality(1..n) = n
  BY FS_Interval
<1>2. IsFiniteSet(S) /\ Cardinality(S) \in 0..n
  BY <1>1, FS_Subset, FS_CardinalityType
<1>3. ASSUME NEW q PROVE Rank(S, q) \in 0..Cardinality(S)
  <2>1. {k \in S : k <= q} \in SUBSET S
    OBVIOUS
  <2> QED
    BY <1>2, <2>1, FS_Subset, FS_CardinalityType DEF Rank
<1> QED
  BY <1>2, <1>3

LEMMA RankRises ==
  ASSUME NEW n \in Nat, NEW S, \A s \in S : s \in 1..n, NEW p \in S, NEW q \in S, p < q
  PROVE  Rank(S, p) < Rank(S, q)
<1> DEFINE P == {k \in S : k <= p}
           Q == {k \in S : k <= q}
<1>1. P \in SUBSET Q /\ q \in Q /\ q \notin P
  OBVIOUS
<1>2. IsFiniteSet(S) /\ Q \in SUBSET S
  BY UpTo
<1> HIDE DEF P, Q
<1>3. IsFiniteSet(Q)
  BY <1>2, FS_Subset
<1>4. Cardinality(P) <= Cardinality(Q) /\ Cardinality(P) # Cardinality(Q)
  BY <1>1, <1>3, FS_Subset
<1>5. Cardinality(P) \in Nat /\ Cardinality(Q) \in Nat
  BY <1>1, <1>3, FS_Subset, FS_CardinalityType
<1> QED
  BY <1>4, <1>5 DEF Rank, P, Q

LEMMA RankOfNext ==
  ASSUME NEW n \in Nat, NEW S, \A s \in S : s \in 1..n, NEW q \in S, NEW p \in S,
         p < q, \A k \in S : k < q => k <= p
  PROVE  Rank(S, q) = Rank(S, p) + 1
<1> DEFINE P == {k \in S : k <= p}
           Q == {k \in S : k <= q}
<1>1. Q = P \cup {q} /\ q \notin P
  OBVIOUS
<1>2. IsFiniteSet(P)
  BY UpTo, FS_Subset
<1> HIDE DEF P, Q
<1>3. Cardinality(Q) = Cardinality(P) + 1
  BY <1>1, <1>2, FS_AddElement
<1> QED
  BY <1>3 DEF Rank, P, Q

\* The ranks are all the numbers up to the size of the set.
LEMMA RankOnto ==
  ASSUME NEW n \in Nat, NEW S, \A s \in S : s \in 1..n, NEW m \in 1..Cardinality(S)
  PROVE  \E q \in S : Rank(S, q) = m
<1>1. IsFiniteSet(S) /\ Cardinality(S) \in 0..n
  BY UpTo
<1>2. S # {}
  BY <1>1, FS_EmptySet
<1>3. \A k \in S : Rank(S, k) \in Nat
  BY UpTo
<1>4. PICK z \in S : \A k \in S : k <= z
  BY <1>2, LastIsGreatest
<1>5. Rank(S, z) = Cardinality(S)
  <2>1. {k \in S : k <= z} = S
    BY <1>4
  <2> QED
    BY <2>1, Zenon DEF Rank
<1>6. PICK q \in S : Rank(S, q) >= m /\ \A k \in S : Rank(S, k) >= m => q <= k
  <2> DEFINE T == {k \in S : Rank(S, k) >= m}
  <2>1. z \in T /\ T \in SUBSET Nat
    BY <1>1, <1>5
  <2> QED
    BY <2>1, LeastNumber
<1>7. CASE Rank(S, q) = m
  BY <1>7
<1>8. CASE Rank(S, q) > m
  <2> DEFINE P == {k \in S : k < q}
  <2>1. P # {}
    <3> SUFFICES ASSUME P = {} PROVE FALSE
      OBVIOUS
    <3>1. {k \in S : k <= q} = {q}
      OBVIOUS
    <3>2. Rank(S, q) = 1
      BY <3>1, FS_Singleton, Zenon DEF Rank
    <3> QED
      BY <1>8, <3>2
  <2>2. PICK p \in P : \A k \in P : k <= p
    BY <2>1, LastIsGreatest
  <2>3. p \in S /\ p < q /\ \A k \in S : k < q => k <= p
    BY <2>2
  <2>4. Rank(S, q) = Rank(S, p) + 1
    BY <2>3, RankOfNext
  <2>5. Rank(S, p) >= m
    BY <1>3, <1>8, <2>3, <2>4
  <2> QED
    BY <1>6, <2>3, <2>5
<1> QED
  BY <1>3, <1>6, <1>7, <1>8

\* The nth element has rank n, and no other has.
LEMMA NthHasRank ==
  ASSUME NEW n \in Nat, NEW S, \A s \in S : s \in 1..n, NEW m \in 1..Cardinality(S)
  PROVE  Nth(S, m) \in S /\ Rank(S, Nth(S, m)) = m
<1>1. \E q \in S : Rank(S, q) = m
  BY RankOnto
<1>2. Nth(S, m) = CHOOSE q \in S : Rank(S, q) = m
  BY Zenon DEF Nth, Rank
<1> QED
  BY <1>1, <1>2, Zenon

LEMMA NthOfRank ==
  ASSUME NEW n \in Nat, NEW S, \A s \in S : s \in 1..n, NEW q \in S
  PROVE  Rank(S, q) \in 1..Cardinality(S) /\ Nth(S, Rank(S, q)) = q
<1>1. Rank(S, q) \in 0..Cardinality(S) /\ Cardinality(S) \in Nat
  BY UpTo
<1>2. Rank(S, q) # 0
  <2> DEFINE Q == {k \in S : k <= q}
  <2>1. q \in Q /\ Q \in SUBSET S
    OBVIOUS
  <2>2. IsFiniteSet(Q)
    BY <2>1, UpTo, FS_Subset
  <2> HIDE DEF Q
  <2>3. Cardinality(Q) # 0
    BY <2>1, <2>2, FS_EmptySet
  <2> QED
    BY <2>3 DEF Rank, Q
<1>3. Rank(S, q) \in 1..Cardinality(S)
  BY <1>1, <1>2
<1>4. PICK m \in 1..Cardinality(S) : m = Rank(S, q)
  BY <1>3
<1>5. PICK p \in S : p = Nth(S, m) /\ Rank(S, p) = m
  BY NthHasRank
<1>6. ~(p < q) /\ ~(q < p)
  BY <1>1, <1>4, <1>5, RankRises
<1> QED
  BY <1>3, <1>4, <1>5, <1>6

LEMMA NthRises ==
  ASSUME NEW n \in Nat, NEW S, \A s \in S : s \in 1..n,
         NEW l \in 1..Cardinality(S), NEW m \in 1..Cardinality(S), l < m
  PROVE  Nth(S, l) < Nth(S, m)
<1>1. PICK p \in S : p = Nth(S, l) /\ Rank(S, p) = l
  BY NthHasRank
<1>2. PICK q \in S : q = Nth(S, m) /\ Rank(S, q) = m
  BY NthHasRank
<1>3. ~(q < p) /\ p # q
  BY <1>1, <1>2, RankRises, UpTo
<1> QED
  BY <1>1, <1>2, <1>3

----------------------------------------------------------------------------
(* Workbooks without the sheets of one name                                *)

IsBook(b) == Len(b) \in Nat /\ b = [i \in 1..Len(b) |-> b[i]]

Others(b, name) == {i \in 1..Len(b) : b[i].name # name}

LEMMA WithoutIs ==
  ASSUME NEW b, IsBook(b), NEW name
  PROVE  /\ Without(b, name) = [n \in 1..Cardinality(Others(b, name)) |->
                                   b[Nth(Others(b, name), n)]]
         /\ Cardinality(Others(b, name)) \in 0..Len(b)
         /\ Others(b, name) \subseteq 1..Len(b)
<1>1. DOMAIN b \ Named(b, name) = Others(b, name)
  BY DEF Named, Others, IsBook
<1>2. Without(b, name) = [n \in 1..Cardinality(Others(b, name)) |->
                             b[Nth(Others(b, name), n)]]
  BY <1>1, Zenon DEF Without
<1>3. Len(b) \in Nat /\ \A i \in Others(b, name) : i \in 1..Len(b)
  BY DEF IsBook, Others
<1>4. Cardinality(Others(b, name)) \in 0..Len(b)
  BY <1>3, UpTo
<1> QED
  BY <1>2, <1>3, <1>4

\* They are all there, in their order.
LEMMA WithoutKeeps ==
  ASSUME NEW b, IsBook(b), NEW name, NEW w, w = Without(b, name)
  PROVE  /\ IsBook(w) /\ Len(w) = Cardinality(Others(b, name))
         /\ \A n \in 1..Len(w) :
               /\ Nth(Others(b, name), n) \in Others(b, name)
               /\ w[n] = b[Nth(Others(b, name), n)]
         /\ \A i \in Others(b, name) :
               /\ Rank(Others(b, name), i) \in 1..Len(w)
               /\ Nth(Others(b, name), Rank(Others(b, name), i)) = i
         /\ \A m, n \in 1..Len(w) :
               m < n => Nth(Others(b, name), m) < Nth(Others(b, name), n)
<1> DEFINE S == Others(b, name)
<1>2. Len(b) \in Nat /\ \A i \in S : i \in 1..Len(b)
  BY DEF IsBook, Others
<1>0. w = [n \in 1..Cardinality(S) |-> b[Nth(S, n)]]
  BY WithoutIs
<1> SUFFICES
      /\ IsBook(w) /\ Len(w) = Cardinality(S)
      /\ \A n \in 1..Len(w) : Nth(S, n) \in S /\ w[n] = b[Nth(S, n)]
      /\ \A i \in S : Rank(S, i) \in 1..Len(w) /\ Nth(S, Rank(S, i)) = i
      /\ \A m, n \in 1..Len(w) : m < n => Nth(S, m) < Nth(S, n)
  OBVIOUS
<1> HIDE DEF S
<1>3. Cardinality(S) \in Nat /\ w = [n \in 1..Cardinality(S) |-> b[Nth(S, n)]]
  <2>1. Cardinality(S) \in 0..Len(b)
    BY <1>2, UpTo
  <2> QED
    BY <1>0, <1>2, <2>1
<1>4. IsBook(w) /\ Len(w) = Cardinality(S)
  BY <1>3 DEF IsBook
<1>5. \A n \in 1..Len(w) : Nth(S, n) \in S /\ w[n] = b[Nth(S, n)]
  BY <1>2, <1>3, <1>4, NthHasRank
<1>6. \A i \in S : Rank(S, i) \in 1..Len(w) /\ Nth(S, Rank(S, i)) = i
  BY <1>2, <1>4, NthOfRank
<1>7. \A m, n \in 1..Len(w) : m < n => Nth(S, m) < Nth(S, n)
  BY <1>2, <1>4, NthRises
<1> QED
  BY <1>4, <1>5, <1>6, <1>7

LEMMA AppendIs ==
  ASSUME NEW b, IsBook(b), NEW s
  PROVE  /\ IsBook(Append(b, s)) /\ Len(Append(b, s)) = Len(b) + 1
         /\ \A i \in 1..Len(b) : Append(b, s)[i] = b[i]
         /\ Append(b, s)[Len(b) + 1] = s
<1>1. PICK V : V = {b[i] : i \in 1..Len(b)} \cup {s}
  OBVIOUS
<1>2. s \in V /\ \A i \in 1..Len(b) : b[i] \in V
  BY <1>1
<1>3. b \in Seq(V)
  <2>1. b \in [1..Len(b) -> V] /\ Len(b) \in Nat
    BY <1>2 DEF IsBook
  <2> QED
    BY <2>1
<1>4. /\ Append(b, s) \in Seq(V) /\ Len(Append(b, s)) = Len(b) + 1
      /\ \A i \in 1..Len(b) : Append(b, s)[i] = b[i]
      /\ Append(b, s)[Len(b) + 1] = s
  BY <1>2, <1>3
<1>5. PICK c : c = Append(b, s)
  OBVIOUS
<1>6. IsBook(c)
  <2>1. c \in Seq(V)
    BY <1>4, <1>5
  <2> QED
    BY <2>1 DEF IsBook
<1> QED
  BY <1>4, <1>5, <1>6

LEMMA SameBook ==
  ASSUME NEW b, NEW c, IsBook(b), IsBook(c), Len(b) = Len(c),
         \A i \in 1..Len(b) : b[i] = c[i]
  PROVE  b = c
BY DEF IsBook

LEMMA WithoutAppend ==
  ASSUME NEW b, IsBook(b), NEW s, NEW name, s.name # name
  PROVE  Without(Append(b, s), name) = Append(Without(b, name), s)
<1>1. PICK c : c = Append(b, s)
  OBVIOUS
<1>2. /\ IsBook(c) /\ Len(c) = Len(b) + 1 /\ Len(b) \in Nat
      /\ \A i \in 1..Len(b) : c[i] = b[i]
      /\ c[Len(b) + 1] = s
  BY <1>1, AppendIs DEF IsBook
<1>3. PICK S, T : S = Others(b, name) /\ T = Others(c, name)
  OBVIOUS
<1>4. PICK l \in Nat : l = Len(b) + 1
  BY <1>2
<1>5. T = S \cup {l} /\ l \notin S /\ \A i \in S : i \in 1..Len(b)
  BY <1>2, <1>3, <1>4 DEF Others
<1>6. \A i \in T : i \in 1..l
  BY <1>2, <1>4, <1>5
<1>7. Cardinality(T) = Cardinality(S) + 1 /\ Cardinality(S) \in Nat
  <2>1. IsFiniteSet(S) /\ Cardinality(S) \in 0..Len(b)
    BY <1>2, <1>5, UpTo
  <2>2. Cardinality(S \cup {l}) = Cardinality(S) + 1
    BY <1>5, <2>1, FS_AddElement
  <2>3. Cardinality(S) \in Nat
    BY <1>2, <2>1
  <2>4. Cardinality(T) = Cardinality(S) + 1
    BY <1>5, <2>2, Zenon
  <2> QED
    BY <2>3, <2>4
<1>8. Rank(T, l) = Cardinality(S) + 1
  <2>1. {k \in T : k <= l} = T
    BY <1>6
  <2>2. Rank(T, l) = Cardinality(T)
    BY <2>1, Zenon DEF Rank
  <2> QED
    BY <1>7, <2>2
<1>9. \A i \in S : Rank(T, i) = Rank(S, i)
  <2> TAKE i \in S
  <2>1. {k \in T : k <= i} = {k \in S : k <= i}
    BY <1>2, <1>4, <1>5
  <2> QED
    BY <2>1, Zenon DEF Rank
<1>10. PICK v, w : v = Without(c, name) /\ w = Without(b, name)
  OBVIOUS
<1>11. /\ IsBook(v) /\ Len(v) = Cardinality(S) + 1
       /\ \A n \in 1..Len(v) : v[n] = c[Nth(T, n)]
  BY <1>2, <1>3, <1>7, <1>10, WithoutKeeps
<1>12. /\ IsBook(w) /\ Len(w) = Cardinality(S)
       /\ \A n \in 1..Len(w) : w[n] = b[Nth(S, n)] /\ Nth(S, n) \in S
  BY <1>3, <1>10, WithoutKeeps
<1>13. v[Len(w) + 1] = s
  <2>1. Nth(T, Rank(T, l)) = l
    BY <1>4, <1>5, <1>6, NthOfRank
  <2> QED
    BY <1>2, <1>4, <1>7, <1>8, <1>11, <1>12, <2>1
<1>14. ASSUME NEW n \in 1..Len(w) PROVE v[n] = w[n]
  <2>1. PICK i \in S : i = Nth(S, n) /\ w[n] = b[i]
    BY <1>12
  <2>2. Rank(S, i) = n
    BY <1>2, <1>5, <1>12, <2>1, NthHasRank
  <2>3. i \in T /\ Nth(T, Rank(T, i)) = i
    BY <1>4, <1>5, <1>6, NthOfRank
  <2>4. n \in 1..Len(v)
    BY <1>7, <1>11, <1>12
  <2> QED
    BY <1>2, <1>5, <1>9, <1>11, <2>1, <2>2, <2>3, <2>4
<1>15. IsBook(Append(w, s)) /\ Len(Append(w, s)) = Len(v)
  BY <1>11, <1>12, AppendIs
<1>16. \A n \in 1..Len(v) : v[n] = Append(w, s)[n]
  BY <1>7, <1>11, <1>12, <1>13, <1>14, AppendIs
<1> QED
  BY <1>1, <1>10, <1>11, <1>15, <1>16, SameBook

\* The sheets that stay, in the order of the upload.
Own(b) == Without(Without(b, AUTOMATED_SHEET), LATEST_REVISIONS_SHEET)

Added == {AUTOMATED_SHEET, LATEST_REVISIONS_SHEET}

\* f says where in b each sheet of o is.
OwnAt(f, b, o) ==
    /\ \A n \in 1..Len(o) : /\ f[n] \in 1..Len(b)
                            /\ o[n] = b[f[n]]
                            /\ o[n].name \notin Added
    /\ \A m, n \in 1..Len(o) : m < n => f[m] < f[n]
    /\ \A i \in 1..Len(b) : b[i].name \notin Added =>
          \E n \in 1..Len(o) : f[n] = i

LEMMA OwnKeeps ==
  ASSUME NEW b, IsBook(b), NEW o, o = Own(b)
  PROVE  IsBook(o) /\ \E f : OwnAt(f, b, o)
<1>1. PICK w : w = Without(b, AUTOMATED_SHEET)
  OBVIOUS
<1>2. o = Without(w, LATEST_REVISIONS_SHEET)
  BY <1>1, Zenon DEF Own
<1>3. PICK S, T : /\ S = Others(b, AUTOMATED_SHEET)
                  /\ T = Others(w, LATEST_REVISIONS_SHEET)
  OBVIOUS
<1>4. /\ IsBook(w)
      /\ \A n \in 1..Len(w) : Nth(S, n) \in S /\ w[n] = b[Nth(S, n)]
      /\ \A i \in S : Rank(S, i) \in 1..Len(w) /\ Nth(S, Rank(S, i)) = i
      /\ \A m, n \in 1..Len(w) : m < n => Nth(S, m) < Nth(S, n)
  BY <1>1, <1>3, WithoutKeeps
<1>5. /\ IsBook(o)
      /\ \A n \in 1..Len(o) : Nth(T, n) \in T /\ o[n] = w[Nth(T, n)]
      /\ \A i \in T : Rank(T, i) \in 1..Len(o) /\ Nth(T, Rank(T, i)) = i
      /\ \A m, n \in 1..Len(o) : m < n => Nth(T, m) < Nth(T, n)
  BY <1>2, <1>3, <1>4, WithoutKeeps
<1>6. /\ \A i : i \in S <=> i \in 1..Len(b) /\ b[i].name # AUTOMATED_SHEET
      /\ \A i : i \in T <=> i \in 1..Len(w) /\ w[i].name # LATEST_REVISIONS_SHEET
  BY <1>3 DEF Others
<1>7. PICK f : f = [n \in 1..Len(o) |-> Nth(S, Nth(T, n))]
  OBVIOUS
<1>8. ASSUME NEW n \in 1..Len(o)
      PROVE  f[n] \in 1..Len(b) /\ o[n] = b[f[n]] /\ o[n].name \notin Added
  BY <1>4, <1>5, <1>6, <1>7 DEF Added
<1>9. ASSUME NEW m \in 1..Len(o), NEW n \in 1..Len(o), m < n
      PROVE  f[m] < f[n]
  <2>1. Nth(T, m) \in 1..Len(w) /\ Nth(T, n) \in 1..Len(w)
    BY <1>5, <1>6
  <2>2. Nth(T, m) < Nth(T, n)
    BY <1>5, <1>9
  <2>3. Nth(S, Nth(T, m)) < Nth(S, Nth(T, n))
    BY <1>4, <2>1, <2>2
  <2> QED
    BY <1>7, <2>3
<1>10. ASSUME NEW i \in 1..Len(b), b[i].name \notin Added
       PROVE  \E n \in 1..Len(o) : f[n] = i
  <2>1. i \in S
    BY <1>6, <1>10 DEF Added
  <2>2. PICK j \in 1..Len(w) : Nth(S, j) = i
    BY <1>4, <2>1
  <2>3. w[j] = b[i]
    BY <1>4, <2>2
  <2>4. j \in T
    BY <1>6, <1>10, <2>3 DEF Added
  <2>5. PICK n \in 1..Len(o) : Nth(T, n) = j
    BY <1>5, <2>4
  <2> QED
    BY <1>7, <2>2, <2>5
<1>11. OwnAt(f, b, o)
  BY <1>8, <1>9, <1>10 DEF OwnAt
<1> QED
  BY <1>5, <1>11

----------------------------------------------------------------------------
(* Which sheet is found                                                    *)

Candidates == DOMAIN QE_SHEET

\* The last sheet with the first name that any sheet has ...
FoundExactly(b, i) ==
    \E k \in Candidates :
       /\ \A j \in Candidates : j < k =>
             \A m \in 1..Len(b) : b[m].name # QE_SHEET[j]
       /\ b[i].name = QE_SHEET[k]
       /\ \A m \in 1..Len(b) : b[m].name = QE_SHEET[k] => m <= i

\* ... or the first sheet that contains the first name that any contains.
FoundPartly(b, i) ==
    /\ \A j \in Candidates : \A m \in 1..Len(b) : b[m].name # QE_SHEET[j]
    /\ \E k \in Candidates :
          /\ \A j \in Candidates : j < k =>
                \A m \in 1..Len(b) : <<b[m].name, QE_SHEET[j]>> \notin Contains
          /\ <<b[i].name, QE_SHEET[k]>> \in Contains
          /\ \A m \in 1..Len(b) :
                <<b[m].name, QE_SHEET[k]>> \in Contains => i <= m

Found(b, i) == i \in 1..Len(b) /\ (FoundExactly(b, i) \/ FoundPartly(b, i))

\* What find_sheet would find, by name or by part of a name.
Findable(b) ==
    \E i \in 1..Len(b), k \in Candidates :
       b[i].name = QE_SHEET[k] \/ <<b[i].name, QE_SHEET[k]>> \in Contains

LEMMA CandidatesAre ==
  /\ \A k \in Candidates : k \in Nat
  /\ \A k \in Candidates : QE_SHEET[k] \notin Added
<1>1. QE_SHEET \in Seq(STRING \ Added)
  BY OutputAssumption DEF Added
<1> QED
  BY <1>1 DEF Candidates

LEMMA FindSheetFinds ==
  ASSUME NEW b, IsBook(b), Findable(b)
  PROVE  Found(b, FindSheet(b))
<1> DEFINE exact == {k \in DOMAIN QE_SHEET : Named(b, QE_SHEET[k]) # {}}
           within(k) == {i \in DOMAIN b : <<b[i].name, QE_SHEET[k]>> \in Contains}
           partly == {k \in DOMAIN QE_SHEET : within(k) # {}}
<1>1. FindSheet(b) = IF exact # {} THEN Last(Named(b, QE_SHEET[First(exact)]))
                                   ELSE First(within(First(partly)))
  BY Zenon DEF FindSheet
<1>2. DOMAIN b = 1..Len(b) /\ Len(b) \in Nat
  BY DEF IsBook
<1>3. (\A k \in exact : k \in Nat) /\ (\A k \in partly : k \in Nat)
  BY CandidatesAre DEF Candidates
<1>4. CASE exact # {}
  <2>1. PICK k \in exact : k = First(exact) /\ \A j \in exact : k <= j
    <3> HIDE DEF exact
    <3> QED
      BY <1>3, <1>4, FirstIsLeast
  <2>2. \A j \in Candidates : j < k =>
           \A m \in 1..Len(b) : b[m].name # QE_SHEET[j]
    <3> SUFFICES ASSUME NEW j \in Candidates, j < k, NEW m \in 1..Len(b),
                        b[m].name = QE_SHEET[j]
                 PROVE  FALSE
      OBVIOUS
    <3>1. m \in Named(b, QE_SHEET[j])
      BY <1>2 DEF Named
    <3>2. j \in exact
      BY <3>1 DEF Candidates
    <3> HIDE DEF exact
    <3> QED
      BY <1>3, <2>1, <3>2, CandidatesAre
  <2>3. PICK S : S = Named(b, QE_SHEET[k])
    OBVIOUS
  <2>4. /\ S # {}
        /\ \A m : m \in S <=> m \in 1..Len(b) /\ b[m].name = QE_SHEET[k]
    BY <1>2, <2>1, <2>3 DEF Named
  <2>5. Last(S) \in S /\ \A m \in S : m <= Last(S)
    BY <1>2, <2>4, LastIsGreatest
  <2>6. FindSheet(b) = Last(S)
    BY <1>1, <1>4, <2>1, <2>3, Zenon
  <2>7. FoundExactly(b, FindSheet(b)) /\ FindSheet(b) \in 1..Len(b)
    <3>1. k \in Candidates
      BY DEF Candidates
    <3> QED
      BY <2>2, <2>4, <2>5, <2>6, <3>1 DEF FoundExactly
  <2> QED
    BY <2>7 DEF Found
<1>5. CASE exact = {}
  <2>1. \A j \in Candidates : \A m \in 1..Len(b) : b[m].name # QE_SHEET[j]
    <3> SUFFICES ASSUME NEW j \in Candidates, NEW m \in 1..Len(b),
                        b[m].name = QE_SHEET[j]
                 PROVE  FALSE
      OBVIOUS
    <3>1. m \in Named(b, QE_SHEET[j])
      BY <1>2 DEF Named
    <3> QED
      BY <1>5, <3>1 DEF Candidates
  <2>2. partly # {}
    <3>1. PICK i \in 1..Len(b), k \in Candidates :
             <<b[i].name, QE_SHEET[k]>> \in Contains
      BY <2>1 DEF Findable
    <3>2. i \in within(k)
      BY <1>2, <3>1
    <3> QED
      BY <3>2 DEF Candidates
  <2>3. PICK k \in partly : k = First(partly) /\ \A j \in partly : k <= j
    <3> HIDE DEF partly
    <3> QED
      BY <1>3, <2>2, FirstIsLeast
  <2>4. \A j \in Candidates : j < k =>
           \A m \in 1..Len(b) : <<b[m].name, QE_SHEET[j]>> \notin Contains
    <3> SUFFICES ASSUME NEW j \in Candidates, j < k, NEW m \in 1..Len(b),
                        <<b[m].name, QE_SHEET[j]>> \in Contains
                 PROVE  FALSE
      OBVIOUS
    <3>1. m \in within(j)
      BY <1>2
    <3>2. j \in partly
      BY <3>1 DEF Candidates
    <3> HIDE DEF partly
    <3> QED
      BY <1>3, <2>3, <3>2, CandidatesAre
  <2>5. PICK S : S = within(k)
    OBVIOUS
  <2>6. /\ S # {}
        /\ \A m : m \in S <=> /\ m \in 1..Len(b)
                              /\ <<b[m].name, QE_SHEET[k]>> \in Contains
    BY <1>2, <2>3, <2>5
  <2>7. First(S) \in S /\ \A m \in S : First(S) <= m
    <3>1. \A m \in S : m \in Nat
      <4> TAKE m \in S
      <4>1. m \in 1..Len(b)
        BY <2>6
      <4> QED
        BY <1>2, <4>1
    <3> QED
      BY <2>6, <3>1, FirstIsLeast
  <2>8. FindSheet(b) = First(S)
    BY <1>1, <1>5, <2>3, <2>5, Zenon
  <2>9. FoundPartly(b, FindSheet(b)) /\ FindSheet(b) \in 1..Len(b)
    <3>1. k \in Candidates
      BY DEF Candidates
    <3> QED
      BY <2>1, <2>4, <2>6, <2>7, <2>8, <3>1 DEF FoundPartly
  <2> QED
    BY <2>9 DEF Found
<1> QED
  BY <1>4, <1>5

LEMMA FoundOnce ==
  ASSUME NEW b, IsBook(b), NEW i, NEW j, Found(b, i), Found(b, j)
  PROVE  i = j
<1>1. Len(b) \in Nat /\ i \in 1..Len(b) /\ j \in 1..Len(b)
  BY DEF IsBook, Found
<1>2. CASE FoundExactly(b, i) /\ FoundExactly(b, j)
  <2>1. PICK k \in Candidates :
           /\ \A q \in Candidates : q < k =>
                 \A m \in 1..Len(b) : b[m].name # QE_SHEET[q]
           /\ b[i].name = QE_SHEET[k]
           /\ \A m \in 1..Len(b) : b[m].name = QE_SHEET[k] => m <= i
    BY <1>2 DEF FoundExactly
  <2>2. PICK l \in Candidates :
           /\ \A q \in Candidates : q < l =>
                 \A m \in 1..Len(b) : b[m].name # QE_SHEET[q]
           /\ b[j].name = QE_SHEET[l]
           /\ \A m \in 1..Len(b) : b[m].name = QE_SHEET[l] => m <= j
    BY <1>2 DEF FoundExactly
  <2>3. ~(k < l) /\ ~(l < k)
    BY <1>1, <2>1, <2>2
  <2>4. k = l
    BY <2>3, CandidatesAre
  <2>5. i <= j /\ j <= i
    BY <1>1, <2>1, <2>2, <2>4
  <2> QED
    BY <1>1, <2>5
<1>3. CASE FoundPartly(b, i) /\ FoundPartly(b, j)
  <2>1. PICK k \in Candidates :
           /\ \A q \in Candidates : q < k =>
                 \A m \in 1..Len(b) : <<b[m].name, QE_SHEET[q]>> \notin Contains
           /\ <<b[i].name, QE_SHEET[k]>> \in Contains
           /\ \A m \in 1..Len(b) :
                 <<b[m].name, QE_SHEET[k]>> \in Contains => i <= m
    BY <1>3 DEF FoundPartly
  <2>2. PICK l \in Candidates :
           /\ \A q \in Candidates : q < l =>
                 \A m \in 1..Len(b) : <<b[m].name, QE_SHEET[q]>> \notin Contains
           /\ <<b[j].name, QE_SHEET[l]>> \in Contains
           /\ \A m \in 1..Len(b) :
                 <<b[m].name, QE_SHEET[l]>> \in Contains => j <= m
    BY <1>3 DEF FoundPartly
  <2>3. ~(k < l) /\ ~(l < k)
    BY <1>1, <2>1, <2>2
  <2>4. k = l
    BY <2>3, CandidatesAre
  <2>5. i <= j /\ j <= i
    BY <1>1, <2>1, <2>2, <2>4
  <2> QED
    BY <1>1, <2>5
<1>4. ~(FoundExactly(b, i) /\ FoundPartly(b, j))
  BY <1>1 DEF FoundExactly, FoundPartly
<1>5. ~(FoundPartly(b, i) /\ FoundExactly(b, j))
  BY <1>1 DEF FoundExactly, FoundPartly
<1> QED
  BY <1>2, <1>3, <1>4, <1>5 DEF Found

\* The sheet is the employee's, or the one an earlier run added: the last but
\* one, before the other added sheet.
Steady(b, i) ==
    \/ b[i].name \notin Added
    \/ /\ i = Len(b) - 1
       /\ b[i].name = AUTOMATED_SHEET
       /\ b[Len(b)].name = LATEST_REVISIONS_SHEET

\* Where the two added sheets are.
Ends(c, o, a, l) ==
    /\ IsBook(c) /\ Len(c) = Len(o) + 2 /\ Len(o) \in Nat
    /\ \A n \in 1..Len(o) : c[n] = o[n]
    /\ c[Len(o) + 1] = a /\ c[Len(o) + 2] = l

LEMMA TwoMore ==
  ASSUME NEW o, IsBook(o), NEW a, NEW l
  PROVE  Ends(Append(Append(o, a), l), o, a, l)
<1>0. PICK c : c = Append(Append(o, a), l)
  OBVIOUS
<1>1. PICK d : d = Append(o, a)
  OBVIOUS
<1>2. /\ IsBook(d) /\ Len(d) = Len(o) + 1 /\ Len(o) \in Nat
      /\ \A n \in 1..Len(o) : d[n] = o[n]
      /\ d[Len(o) + 1] = a
  BY <1>1, AppendIs DEF IsBook
<1>3. /\ IsBook(c) /\ Len(c) = Len(d) + 1
      /\ \A n \in 1..Len(d) : c[n] = d[n]
      /\ c[Len(d) + 1] = l
  BY <1>0, <1>1, <1>2, AppendIs
<1>4. Ends(c, o, a, l)
  BY <1>2, <1>3 DEF Ends
<1> QED
  BY <1>0, <1>4, Zenon

FoundAgain(c, s, a) == \E j : Found(c, j) /\ Steady(c, j) /\ c[j] \in {s, a}

\* In the workbook that is handed out the same sheet is found again, or the
\* automated one.
LEMMA SourceAgain ==
  ASSUME NEW b, IsBook(b), NEW i, Found(b, i), Steady(b, i),
         NEW a, a.name = AUTOMATED_SHEET,
         NEW l, l.name = LATEST_REVISIONS_SHEET,
         NEW c, c = Append(Append(Own(b), a), l)
  PROVE  IsBook(c) /\ FoundAgain(c, b[i], a)
<1>1. PICK o : o = Own(b)
  OBVIOUS
<1>2. IsBook(o)
  BY <1>1, OwnKeeps
<1>3. PICK f : OwnAt(f, b, o)
  BY <1>1, OwnKeeps
<1>4. PICK N \in Nat : N = Len(o)
  BY <1>2 DEF IsBook
<1>5. /\ IsBook(c) /\ Len(c) = N + 2
      /\ \A n \in 1..N : c[n] = o[n]
      /\ c[N + 1] = a /\ c[N + 2] = l
  <2>1. c = Append(Append(o, a), l)
    BY <1>1, Zenon
  <2>2. Ends(c, o, a, l)
    BY <1>2, <2>1, TwoMore, Zenon
  <2> QED
    BY <1>4, <2>2 DEF Ends
<1>6. /\ i \in 1..Len(b) /\ Len(b) \in Nat
      /\ \A n \in 1..N : /\ f[n] \in 1..Len(b)
                         /\ c[n] = b[f[n]]
                         /\ c[n].name \notin Added
      /\ \A m, n \in 1..N : m < n => f[m] < f[n]
      /\ \A q \in 1..Len(b) : b[q].name \notin Added =>
            \E n \in 1..N : f[n] = q
  BY <1>3, <1>4, <1>5 DEF OwnAt, Found, IsBook
<1>7. \A m \in 1..Len(c) : m \in 1..N \/ m = N + 1 \/ m = N + 2
  BY <1>4, <1>5
<1>a. ASSUME FoundPartly(b, i)
      PROVE  \A j \in Candidates : \A n \in 1..N : c[n].name # QE_SHEET[j]
  <2>1. \A j \in Candidates : \A m \in 1..Len(b) : b[m].name # QE_SHEET[j]
    BY <1>a DEF FoundPartly
  <2> TAKE j \in Candidates
  <2> TAKE n \in 1..N
  <2>2. f[n] \in 1..Len(b) /\ c[n] = b[f[n]]
    BY <1>6
  <2> QED
    BY <2>1, <2>2
<1>8. /\ \A k \in Candidates : k \in Nat /\ QE_SHEET[k] \notin Added
      /\ a.name \in Added /\ l.name \in Added
      /\ \A k \in Candidates : <<l.name, QE_SHEET[k]>> \notin Contains
      /\ a.name # l.name
  BY CandidatesAre, OutputAssumption DEF Added, Candidates
<1>9. ASSUME FoundPartly(b, i), Steady(c, N + 1),
             NEW k \in Candidates,
             <<a.name, QE_SHEET[k]>> \in Contains,
             \A j \in Candidates : j < k => <<a.name, QE_SHEET[j]>> \notin Contains,
             \A j \in Candidates : j <= k => \A n \in 1..N :
                <<c[n].name, QE_SHEET[j]>> \notin Contains
      PROVE  Found(c, N + 1)
  <2>1. \A j \in Candidates : \A m \in 1..Len(c) : c[m].name # QE_SHEET[j]
    <3> TAKE j \in Candidates
    <3> TAKE m \in 1..Len(c)
    <3>1. CASE m \in 1..N
      BY <1>9, <1>a, <3>1
    <3>2. CASE m = N + 1 \/ m = N + 2
      BY <1>5, <1>8, <3>2
    <3> QED
      BY <1>7, <3>1, <3>2
  <2>2. \A j \in Candidates : j < k =>
           \A m \in 1..Len(c) : <<c[m].name, QE_SHEET[j]>> \notin Contains
    <3> SUFFICES ASSUME NEW j \in Candidates, j < k, NEW m \in 1..Len(c)
                 PROVE  <<c[m].name, QE_SHEET[j]>> \notin Contains
      OBVIOUS
    <3>1. CASE m \in 1..N
      BY <1>8, <1>9, <3>1
    <3>2. CASE m = N + 1 \/ m = N + 2
      BY <1>5, <1>8, <1>9, <3>2
    <3> QED
      BY <1>7, <3>1, <3>2
  <2>3. \A m \in 1..Len(c) :
           <<c[m].name, QE_SHEET[k]>> \in Contains => N + 1 <= m
    <3> TAKE m \in 1..Len(c)
    <3>1. CASE m \in 1..N
      BY <1>8, <1>9, <3>1
    <3>2. CASE m = N + 1 \/ m = N + 2
      BY <3>2
    <3> QED
      BY <1>7, <3>1, <3>2
  <2>4. <<c[N + 1].name, QE_SHEET[k]>> \in Contains
    BY <1>5, <1>9
  <2>5. FoundPartly(c, N + 1)
    BY <2>1, <2>2, <2>3, <2>4 DEF FoundPartly
  <2> QED
    BY <1>5, <2>5 DEF Found
<1>10. Steady(c, N + 1)
  BY <1>5, <1>8 DEF Steady
<1>11. CASE b[i].name \notin Added
  <2>1. PICK g \in 1..N : f[g] = i
    BY <1>6, <1>11
  <2>2. c[g] = b[i] /\ Steady(c, g)
    BY <1>6, <1>11, <2>1 DEF Steady
  <2>3. CASE FoundExactly(b, i)
    <3>1. PICK k \in Candidates :
             /\ \A j \in Candidates : j < k =>
                   \A m \in 1..Len(b) : b[m].name # QE_SHEET[j]
             /\ b[i].name = QE_SHEET[k]
             /\ \A m \in 1..Len(b) : b[m].name = QE_SHEET[k] => m <= i
      BY <2>3 DEF FoundExactly
    <3>2. ASSUME NEW j \in Candidates, j < k, NEW m \in 1..Len(c)
          PROVE  c[m].name # QE_SHEET[j]
      <4>1. CASE m \in 1..N
        BY <1>6, <3>1, <3>2, <4>1
      <4>2. CASE m = N + 1 \/ m = N + 2
        BY <1>5, <1>8, <4>2
      <4> QED
        BY <1>7, <4>1, <4>2
    <3>3. ASSUME NEW m \in 1..Len(c), c[m].name = QE_SHEET[k]
          PROVE  m <= g
      <4>1. m \in 1..N
        BY <1>5, <1>7, <1>8, <3>3
      <4>2. f[m] <= i
        BY <1>6, <3>1, <3>3, <4>1
      <4>3. ~(g < m)
        BY <1>6, <2>1, <4>1, <4>2
      <4> QED
        BY <4>1, <4>3
    <3>4. FoundExactly(c, g)
      BY <2>2, <3>1, <3>2, <3>3 DEF FoundExactly
    <3>5. Found(c, g)
      BY <1>5, <3>4 DEF Found
    <3> QED
      BY <1>5, <2>2, <3>5 DEF FoundAgain
  <2>4. CASE FoundPartly(b, i)
    <3>1. PICK k \in Candidates :
             /\ \A j \in Candidates : j < k =>
                   \A m \in 1..Len(b) : <<b[m].name, QE_SHEET[j]>> \notin Contains
             /\ <<b[i].name, QE_SHEET[k]>> \in Contains
             /\ \A m \in 1..Len(b) :
                   <<b[m].name, QE_SHEET[k]>> \in Contains => i <= m
      BY <2>4 DEF FoundPartly
    <3> DEFINE sooner == {j \in Candidates :
                             j < k /\ <<a.name, QE_SHEET[j]>> \in Contains}
    <3>2. CASE sooner # {}
      <4>1. PICK q \in sooner : \A j \in sooner : q <= j
        <5>1. \A j \in sooner : j \in Nat
          BY <1>8
        <5> HIDE DEF sooner
        <5> QED
          BY <3>2, <5>1, FirstIsLeast
      <4>2. q \in Candidates /\ q < k /\ <<a.name, QE_SHEET[q]>> \in Contains
        OBVIOUS
      <4>3. \A j \in Candidates : j < q => <<a.name, QE_SHEET[j]>> \notin Contains
        <5> SUFFICES ASSUME NEW j \in Candidates, j < q,
                            <<a.name, QE_SHEET[j]>> \in Contains
                     PROVE  FALSE
          OBVIOUS
        <5>1. j \in Nat /\ q \in Nat /\ k \in Nat
          BY <1>8
        <5>2. j < k
          BY <4>2, <5>1
        <5>3. j \in sooner
          BY <5>2
        <5> HIDE DEF sooner
        <5> QED
          BY <4>1, <5>1, <5>3
      <4>4. \A j \in Candidates : j <= q => \A n \in 1..N :
               <<c[n].name, QE_SHEET[j]>> \notin Contains
        <5> TAKE j \in Candidates
        <5> HAVE j <= q
        <5> TAKE n \in 1..N
        <5> HIDE DEF sooner
        <5>1. j < k
          BY <1>8, <4>2
        <5>2. f[n] \in 1..Len(b) /\ c[n] = b[f[n]]
          BY <1>6
        <5> QED
          BY <3>1, <5>1, <5>2
      <4>5. Found(c, N + 1)
        <5> HIDE DEF sooner
        <5> QED
          BY <1>9, <1>10, <2>4, <4>2, <4>3, <4>4
      <4> QED
        BY <1>5, <1>10, <4>5 DEF FoundAgain
    <3>3. CASE sooner = {}
      <4>1. \A j \in Candidates : \A m \in 1..Len(c) : c[m].name # QE_SHEET[j]
        <5> TAKE j \in Candidates
        <5> TAKE m \in 1..Len(c)
        <5>1. CASE m \in 1..N
          BY <1>a, <2>4, <5>1
        <5>2. CASE m = N + 1 \/ m = N + 2
          BY <1>5, <1>8, <5>2
        <5> QED
          BY <1>7, <5>1, <5>2
      <4>2. ASSUME NEW j \in Candidates, j < k, NEW m \in 1..Len(c)
            PROVE  <<c[m].name, QE_SHEET[j]>> \notin Contains
        <5>1. CASE m \in 1..N
          BY <1>6, <3>1, <4>2, <5>1
        <5>2. CASE m = N + 1
          BY <1>5, <3>3, <4>2, <5>2
        <5>3. CASE m = N + 2
          BY <1>5, <1>8, <5>3
        <5> QED
          BY <1>7, <5>1, <5>2, <5>3
      <4>3. ASSUME NEW m \in 1..Len(c), <<c[m].name, QE_SHEET[k]>> \in Contains
            PROVE  g <= m
        <5>1. CASE m \in 1..N
          <6>1. i <= f[m]
            BY <1>6, <3>1, <4>3, <5>1
          <6>2. ~(m < g)
            BY <1>6, <2>1, <5>1, <6>1
          <6> QED
            BY <5>1, <6>2
        <5>2. CASE m = N + 1 \/ m = N + 2
          BY <5>2
        <5> QED
          BY <1>7, <5>1, <5>2
      <4>4. FoundPartly(c, g)
        BY <2>2, <3>1, <4>1, <4>2, <4>3 DEF FoundPartly
      <4>5. Found(c, g)
        BY <1>5, <4>4 DEF Found
      <4> QED
        BY <1>5, <2>2, <4>5 DEF FoundAgain
    <3> QED
      BY <3>2, <3>3
  <2> QED
    BY <2>3, <2>4 DEF Found
<1>12. CASE b[i].name \in Added
  <2>1. /\ i = Len(b) - 1 /\ b[i].name = AUTOMATED_SHEET
        /\ b[Len(b)].name = LATEST_REVISIONS_SHEET
    BY <1>12 DEF Steady
  <2>2. FoundPartly(b, i)
    BY <1>8, <1>12 DEF FoundExactly, Found
  <2>3. PICK k \in Candidates :
           /\ \A j \in Candidates : j < k =>
                 \A m \in 1..Len(b) : <<b[m].name, QE_SHEET[j]>> \notin Contains
           /\ <<b[i].name, QE_SHEET[k]>> \in Contains
           /\ \A m \in 1..Len(b) :
                 <<b[m].name, QE_SHEET[k]>> \in Contains => i <= m
    BY <2>2 DEF FoundPartly
  <2>4. ASSUME NEW j \in Candidates, j <= k, NEW n \in 1..N
        PROVE  <<c[n].name, QE_SHEET[j]>> \notin Contains
    <3>1. f[n] \in 1..Len(b) /\ c[n] = b[f[n]] /\ c[n].name \notin Added
      BY <1>6
    <3>2. f[n] < i
      <4>1. f[n] # i /\ f[n] # Len(b)
        BY <2>1, <3>1 DEF Added
      <4> QED
        BY <1>6, <2>1, <3>1, <4>1
    <3>3. CASE j < k
      BY <2>3, <3>1, <3>3
    <3>4. CASE j = k
      BY <1>6, <2>3, <3>1, <3>2, <3>4
    <3>5. j < k \/ j = k
      BY <1>8, <2>4
    <3> QED
      BY <3>3, <3>4, <3>5
  <2>5. /\ <<a.name, QE_SHEET[k]>> \in Contains
        /\ \A j \in Candidates : j < k => <<a.name, QE_SHEET[j]>> \notin Contains
    BY <1>6, <2>1, <2>3
  <2>6. Found(c, N + 1)
    BY <1>9, <1>10, <2>2, <2>4, <2>5
  <2> QED
    BY <1>5, <1>10, <2>6 DEF FoundAgain
<1> QED
  BY <1>11, <1>12 DEF FoundAgain

----------------------------------------------------------------------------
(* Inserting columns                                                       *)

ImageAt(c, p, n) == IF c < p THEN c ELSE c + n
Block(p, n) == p..(p + n - 1)
MovedDim(e, p, n) == IF n = 0 THEN e ELSE ShiftDim(e, p, n)

OurDim(c) == [min |-> c, max |-> c, width |-> "ours"]

\* What the sheet d says about columns is what s says, n columns at p further.
Shifted(s, d, p, n) ==
    /\ d.rows = s.rows /\ d.cols = s.cols + n
    /\ d.merges = ShiftRanges(s.merges, p, n)
    /\ d.formats = ShiftRanges(s.formats, p, n)
    /\ d.filter = ShiftRange(s.filter, p, n)
    /\ d.pane = IF s.pane >= p THEN s.pane + n ELSE s.pane
    /\ \A e \in s.dims : MovedDim(e, p, n) \in d.dims
    /\ \A x \in d.dims : \/ \E e \in s.dims : x = MovedDim(e, p, n)
                         \/ \E c \in Block(p, n) : x = OurDim(c)

\* What is in a cell before captions and answers are written.
Prior(s, r, c, p, n) ==
    IF c < p THEN s.cell[<<r, c>>]
    ELSE IF c < p + n THEN Empty
    ELSE s.cell[<<r, c - n>>]

LEMMA SheetIs ==
  ASSUME NEW s, IsSheet(s)
  PROVE  /\ s.rows \in Nat /\ s.cols \in Nat /\ s.pane \in Nat
         /\ s.merges \subseteq Ranges /\ s.formats \subseteq Ranges
         /\ s.filter \in Ranges
         /\ \A d \in s.dims : d.min \in Nat /\ d.max \in Nat
BY DEF IsSheet

LEMMA ShiftRangeIs ==
  ASSUME NEW g \in Ranges, NEW p \in Nat, NEW n \in Nat
  PROVE  /\ ShiftRange(g, p, n) \in Ranges
         /\ ShiftRange(g, p, n).r1 = g.r1 /\ ShiftRange(g, p, n).r2 = g.r2
         /\ ShiftRange(g, p, n).c1 = IF g.c1 >= p THEN g.c1 + n ELSE g.c1
         /\ ShiftRange(g, p, n).c2 =
               IF g.c1 >= p \/ g.c2 >= p THEN g.c2 + n ELSE g.c2
<1>1. /\ g.c1 \in Nat /\ g.c2 \in Nat /\ g.r1 \in Nat /\ g.r2 \in Nat
      /\ g = [c1 |-> g.c1, c2 |-> g.c2, r1 |-> g.r1, r2 |-> g.r2]
  BY DEF Ranges
<1>2. PICK h : h = ShiftRange(g, p, n)
  OBVIOUS
<1>3. CASE g.c1 >= p
  <2>1. h = [g EXCEPT !.c1 = @ + n, !.c2 = @ + n]
    BY <1>2, <1>3 DEF ShiftRange
  <2>2. h = [c1 |-> g.c1 + n, c2 |-> g.c2 + n, r1 |-> g.r1, r2 |-> g.r2]
    BY <1>1, <2>1
  <2> QED
    BY <1>1, <1>2, <1>3, <2>2 DEF Ranges
<1>4. CASE ~(g.c1 >= p) /\ g.c2 >= p
  <2>1. h = [g EXCEPT !.c2 = @ + n]
    BY <1>2, <1>4 DEF ShiftRange
  <2>2. h = [c1 |-> g.c1, c2 |-> g.c2 + n, r1 |-> g.r1, r2 |-> g.r2]
    BY <1>1, <2>1
  <2> QED
    BY <1>1, <1>2, <1>4, <2>2 DEF Ranges
<1>5. CASE ~(g.c1 >= p) /\ ~(g.c2 >= p)
  <2>1. h = g
    BY <1>2, <1>5 DEF ShiftRange
  <2> QED
    BY <1>1, <1>2, <1>5, <2>1
<1> QED
  BY <1>3, <1>4, <1>5

LEMMA ShiftByNone ==
  ASSUME NEW g \in Ranges, NEW p \in Nat
  PROVE  ShiftRange(g, p, 0) = g
<1>a. PICK z \in Nat : z = 0
  OBVIOUS
<1>b. g.c1 \in Nat /\ g.c2 \in Nat
  BY DEF Ranges
<1>1. PICK h : h = ShiftRange(g, p, z)
  OBVIOUS
<1>c. /\ h \in Ranges /\ h.r1 = g.r1 /\ h.r2 = g.r2
      /\ h.c1 = IF g.c1 >= p THEN g.c1 + z ELSE g.c1
      /\ h.c2 = IF g.c1 >= p \/ g.c2 >= p THEN g.c2 + z ELSE g.c2
  BY <1>1, ShiftRangeIs
<1>2. h \in Ranges /\ h.r1 = g.r1 /\ h.r2 = g.r2 /\ h.c1 = g.c1 /\ h.c2 = g.c2
  BY <1>a, <1>b, <1>c
<1>3. h = g
  BY <1>2 DEF Ranges
<1> QED
  BY <1>1, <1>3, <1>a

\* The cells of a shifted range are the images of the cells of the range, and
\* the block if the range lies across it.
InImage(g, p, n, cols, r, c) ==
    /\ g.r1 <= r /\ r <= g.r2
    /\ \/ \E b \in 1..cols : c = ImageAt(b, p, n) /\ g.c1 <= b /\ b <= g.c2
       \/ c \in Block(p, n) /\ g.c1 < p /\ p <= g.c2

LEMMA ShiftRangeCells ==
  ASSUME NEW g \in Ranges, NEW p \in Nat, NEW n \in Nat, p > 0,
         NEW cols \in Nat, p <= cols + 1, NEW r, NEW c \in 1..(cols + n)
  PROVE  Covers(ShiftRange(g, p, n), r, c) <=> InImage(g, p, n, cols, r, c)
<1> DEFINE h == ShiftRange(g, p, n)
<1>1. /\ h.r1 = g.r1 /\ h.r2 = g.r2
      /\ h.c1 = IF g.c1 >= p THEN g.c1 + n ELSE g.c1
      /\ h.c2 = IF g.c1 >= p \/ g.c2 >= p THEN g.c2 + n ELSE g.c2
  BY ShiftRangeIs
<1>2. g.c1 \in Nat /\ g.c2 \in Nat
  BY DEF Ranges
<1> HIDE DEF h
<1>3. CASE c < p
  <2>1. c \in 1..cols /\ c = ImageAt(c, p, n) /\ c \notin Block(p, n)
    BY <1>3 DEF ImageAt, Block
  <2>2. \A b \in 1..cols : c = ImageAt(b, p, n) => b = c
    BY <1>3 DEF ImageAt
  <2>3. h.c1 <= c /\ c <= h.c2 <=> g.c1 <= c /\ c <= g.c2
    BY <1>1, <1>2, <1>3
  <2> QED
    BY <1>1, <2>1, <2>2, <2>3 DEF Covers, InImage, h
<1>4. CASE c \in Block(p, n)
  <2>1. \A b \in 1..cols : c # ImageAt(b, p, n)
    BY <1>4 DEF ImageAt, Block
  <2>2. h.c1 <= c /\ c <= h.c2 <=> g.c1 < p /\ p <= g.c2
    BY <1>1, <1>2, <1>4 DEF Block
  <2> QED
    BY <1>1, <1>4, <2>1, <2>2 DEF Covers, InImage, h
<1>5. CASE c >= p + n
  <2>1. c - n \in 1..cols /\ c = ImageAt(c - n, p, n) /\ c \notin Block(p, n)
    BY <1>5 DEF ImageAt, Block
  <2>2. \A b \in 1..cols : c = ImageAt(b, p, n) => b = c - n
    BY <1>5 DEF ImageAt
  <2>3. h.c1 <= c /\ c <= h.c2 <=> g.c1 <= c - n /\ c - n <= g.c2
    BY <1>1, <1>2, <1>5
  <2> QED
    BY <1>1, <2>1, <2>2, <2>3 DEF Covers, InImage, h
<1> QED
  BY <1>3, <1>4, <1>5 DEF Block

\* A sheet is what its parts are.
SheetOf(name, rows, cols, cell, style, merges, formats, filter, pane, dims) ==
    [name |-> name, rows |-> rows, cols |-> cols, cell |-> cell,
     style |-> style, merges |-> merges, formats |-> formats,
     filter |-> filter, pane |-> pane, dims |-> dims]

IsGrid(f, rows, cols) == f = [p \in Grid(rows, cols) |-> f[p]]

LEMMA SheetFromParts ==
  ASSUME NEW name, NEW rows \in Nat, NEW cols \in Nat,
         NEW cell, IsGrid(cell, rows, cols),
         NEW style, IsGrid(style, rows, cols),
         NEW merges \in SUBSET Ranges, NEW formats \in SUBSET Ranges,
         NEW filter \in Ranges, NEW pane \in Nat,
         NEW dims \in SUBSET [min : Nat, max : Nat, width : Widths],
         NEW s,
         s = SheetOf(name, rows, cols, cell, style, merges, formats, filter,
                     pane, dims)
  PROVE  IsSheet(s)
<1>1. /\ s.name = name /\ s.rows = rows /\ s.cols = cols /\ s.cell = cell
      /\ s.style = style /\ s.merges = merges /\ s.formats = formats
      /\ s.filter = filter /\ s.pane = pane /\ s.dims = dims
  BY DEF SheetOf
<1>2. s = [name |-> s.name, rows |-> s.rows, cols |-> s.cols,
           cell |-> s.cell, style |-> s.style, merges |-> s.merges,
           formats |-> s.formats, filter |-> s.filter, pane |-> s.pane,
           dims |-> s.dims]
  BY <1>1, Zenon DEF SheetOf
<1>3. /\ s.cell = [p \in Grid(s.rows, s.cols) |-> s.cell[p]]
      /\ s.style = [p \in Grid(s.rows, s.cols) |-> s.style[p]]
  BY <1>1, Zenon DEF IsGrid
<1>4. {s.rows, s.cols, s.pane} \subseteq Nat
  BY <1>1
<1>5. /\ s.merges \cup s.formats \cup {s.filter} \subseteq Ranges
      /\ s.dims \subseteq [min : Nat, max : Nat, width : Widths]
  BY <1>1
<1> QED
  BY <1>2, <1>3, <1>4, <1>5, Zenon DEF IsSheet

LEMMA PartsOfSheet ==
  ASSUME NEW s, IsSheet(s)
  PROVE  /\ s = SheetOf(s.name, s.rows, s.cols, s.cell, s.style, s.merges,
                        s.formats, s.filter, s.pane, s.dims)
         /\ s.rows \in Nat /\ s.cols \in Nat /\ s.pane \in Nat
         /\ IsGrid(s.cell, s.rows, s.cols) /\ IsGrid(s.style, s.rows, s.cols)
         /\ s.merges \in SUBSET Ranges /\ s.formats \in SUBSET Ranges
         /\ s.filter \in Ranges
         /\ s.dims \in SUBSET [min : Nat, max : Nat, width : Widths]
<1>1. s = SheetOf(s.name, s.rows, s.cols, s.cell, s.style, s.merges,
                  s.formats, s.filter, s.pane, s.dims)
  BY Zenon DEF IsSheet, SheetOf
<1>2. IsGrid(s.cell, s.rows, s.cols) /\ IsGrid(s.style, s.rows, s.cols)
  BY Zenon DEF IsSheet, IsGrid
<1>3. /\ {s.rows, s.cols, s.pane} \subseteq Nat
      /\ s.merges \cup s.formats \cup {s.filter} \subseteq Ranges
      /\ s.dims \subseteq [min : Nat, max : Nat, width : Widths]
  BY Zenon DEF IsSheet
<1>4. s.rows \in Nat /\ s.cols \in Nat /\ s.pane \in Nat
  BY <1>3
<1>5. /\ s.merges \in SUBSET Ranges /\ s.formats \in SUBSET Ranges
      /\ s.filter \in Ranges
      /\ s.dims \in SUBSET [min : Nat, max : Nat, width : Widths]
  BY <1>3
<1> QED
  BY <1>1, <1>2, <1>4, <1>5

LEMMA DimMoves ==
  ASSUME NEW d \in [min : Nat, max : Nat, width : Widths],
         NEW p \in Nat, NEW n \in Nat
  PROVE  /\ ShiftDim(d, p, n) \in [min : Nat, max : Nat, width : Widths]
         /\ ShiftDim(d, p, n).min = IF d.min >= p THEN d.min + n ELSE d.min
         /\ ShiftDim(d, p, n).max = IF d.min >= p THEN d.min + n ELSE d.max
         /\ ShiftDim(d, p, n).width = d.width
<1>1. CASE d.min >= p
  <2>1. ShiftDim(d, p, n) = [d EXCEPT !.min = d.min + n, !.max = d.min + n]
    BY <1>1 DEF ShiftDim
  <2>2. d.min \in Nat /\ d.max \in Nat /\ d.width \in Widths
    OBVIOUS
  <2>3. d = [min |-> d.min, max |-> d.max, width |-> d.width]
    OBVIOUS
  <2>4. ShiftDim(d, p, n) = [min |-> d.min + n, max |-> d.min + n,
                             width |-> d.width]
    BY <2>1, <2>3
  <2> QED
    BY <1>1, <2>2, <2>4
<1>2. CASE ~(d.min >= p)
  BY <1>2 DEF ShiftDim
<1> QED
  BY <1>1, <1>2

LEMMA InsertColumnsIs ==
  ASSUME NEW s, IsSheet(s), KeyedByColumn(s),
         NEW p \in Nat, p > 0, p <= s.cols + 1, NEW n \in Nat,
         NEW d, d = InsertColumns(s, p, n)
  PROVE  /\ IsSheet(d) /\ KeyedByColumn(d) /\ d.name = s.name
         /\ Shifted(s, d, p, n)
         /\ \A r \in 1..s.rows, c \in 1..(s.cols + n) :
               /\ d.cell[<<r, c>>] = Prior(s, r, c, p, n)
               /\ c \in Block(p, n) => d.style[<<r, c>>] = "none"
<1>1. /\ s.rows \in Nat /\ s.cols \in Nat /\ s.pane \in Nat
      /\ s.merges \in SUBSET Ranges /\ s.formats \in SUBSET Ranges
      /\ s.filter \in Ranges
      /\ s.dims \in SUBSET [min : Nat, max : Nat, width : Widths]
  BY PartsOfSheet
<1>2. CASE n = 0
  <2>1. d = s
    BY <1>2 DEF InsertColumns
  <2>2. \A g \in Ranges : ShiftRange(g, p, n) = g
    BY <1>2, ShiftByNone
  <2>3. ShiftRanges(s.merges, p, n) = s.merges
    BY <1>1, <2>2 DEF ShiftRanges
  <2>4. ShiftRanges(s.formats, p, n) = s.formats
    BY <1>1, <2>2 DEF ShiftRanges
  <2>5. \A e : MovedDim(e, p, n) = e
    BY <1>2 DEF MovedDim
  <2>6. Shifted(s, d, p, n)
    BY <1>1, <1>2, <2>1, <2>2, <2>3, <2>4, <2>5 DEF Shifted
  <2>7. \A r \in 1..s.rows, c \in 1..(s.cols + n) :
           /\ d.cell[<<r, c>>] = Prior(s, r, c, p, n)
           /\ c \notin Block(p, n)
    BY <1>1, <1>2, <2>1 DEF Prior, Block
  <2> QED
    BY <2>1, <2>6, <2>7
<1>3. CASE n # 0
  <2> DEFINE moved(f, bare) ==
               [q \in Grid(s.rows, s.cols + n) |->
                   IF q[2] < p THEN f[q]
                   ELSE IF q[2] < p + n THEN bare
                   ELSE f[<<q[1], q[2] - n>>]]
  <2>1. PICK cell, style, merges, formats, filter, pane, dims :
           /\ cell = moved(s.cell, Empty)
           /\ style = moved(s.style, "none")
           /\ merges = ShiftRanges(s.merges, p, n)
           /\ formats = ShiftRanges(s.formats, p, n)
           /\ filter = IF s.filter = NoRange THEN s.filter
                                             ELSE ShiftRange(s.filter, p, n)
           /\ pane = IF s.pane >= p THEN s.pane + n ELSE s.pane
           /\ dims = {ShiftDim(e, p, n) : e \in s.dims}
    OBVIOUS
  <2>2. d = [s EXCEPT !.cols = s.cols + n, !.cell = cell, !.style = style,
                      !.merges = merges, !.formats = formats,
                      !.filter = filter, !.pane = pane, !.dims = dims]
    BY <1>3, <2>1, Zenon DEF InsertColumns, Inserting
  <2>3. d = SheetOf(s.name, s.rows, s.cols + n, cell, style, merges, formats,
                    filter, pane, dims)
    <3>1. s = SheetOf(s.name, s.rows, s.cols, s.cell, s.style, s.merges,
                      s.formats, s.filter, s.pane, s.dims)
      BY PartsOfSheet
    <3> HIDE DEF moved
    <3> QED
      BY <2>2, <3>1 DEF SheetOf
  <2>4. /\ d.name = s.name /\ d.rows = s.rows /\ d.cols = s.cols + n
        /\ d.cell = cell /\ d.style = style /\ d.merges = merges
        /\ d.formats = formats /\ d.filter = filter /\ d.pane = pane
        /\ d.dims = dims
    <3> HIDE DEF moved
    <3> QED
      BY <2>3 DEF SheetOf
  <2>5. IsGrid(cell, s.rows, s.cols + n)
    BY <2>1 DEF IsGrid
  <2>6. IsGrid(style, s.rows, s.cols + n)
    BY <2>1 DEF IsGrid
  <2>7. /\ merges \in SUBSET Ranges /\ formats \in SUBSET Ranges
        /\ filter \in Ranges /\ pane \in Nat
        /\ dims \in SUBSET [min : Nat, max : Nat, width : Widths]
    <3>a. \A g \in Ranges : ShiftRange(g, p, n) \in Ranges
      BY ShiftRangeIs
    <3>1. merges \in SUBSET Ranges /\ formats \in SUBSET Ranges
      <4>1. /\ \A h \in merges : \E g \in s.merges : h = ShiftRange(g, p, n)
            /\ \A h \in formats : \E g \in s.formats : h = ShiftRange(g, p, n)
        BY <2>1 DEF ShiftRanges
      <4> HIDE DEF moved
      <4> QED
        BY <1>1, <3>a, <4>1
    <3>2. filter \in Ranges /\ pane \in Nat
      <4>1. /\ filter = s.filter \/ filter = ShiftRange(s.filter, p, n)
            /\ pane = s.pane \/ pane = s.pane + n
        BY <2>1
      <4> HIDE DEF moved
      <4> QED
        BY <1>1, <3>a, <4>1
    <3>3. dims \in SUBSET [min : Nat, max : Nat, width : Widths]
      BY <1>1, <2>1, DimMoves
    <3> QED
      BY <3>1, <3>2, <3>3
  <2>8. IsSheet(d)
    <3>1. s.cols + n \in Nat
      BY <1>1
    <3> HIDE DEF moved
    <3> QED
      BY <1>1, <2>3, <2>5, <2>6, <2>7, <3>1, SheetFromParts, Zenon
  <2>9. KeyedByColumn(d)
    <3> SUFFICES ASSUME NEW x \in d.dims, NEW y \in d.dims, x.min = y.min
                 PROVE  x = y
      BY DEF KeyedByColumn
    <3>1. PICK e \in s.dims : x = ShiftDim(e, p, n)
      BY <2>1, <2>4
    <3>2. PICK f \in s.dims : y = ShiftDim(f, p, n)
      BY <2>1, <2>4
    <3>3. e.min \in Nat /\ f.min \in Nat
      BY <1>1
    <3>4. /\ x.min = IF e.min >= p THEN e.min + n ELSE e.min
          /\ y.min = IF f.min >= p THEN f.min + n ELSE f.min
      BY <1>1, <3>1, <3>2, DimMoves
    <3>5. e.min = f.min
      <4>1. PICK k \in Nat, m \in Nat : k = e.min /\ m = f.min
        BY <3>3
      <4>2. PICK k2 \in Nat, m2 \in Nat :
               /\ k2 = IF k >= p THEN k + n ELSE k
               /\ m2 = IF m >= p THEN m + n ELSE m
        OBVIOUS
      <4>3. k2 = m2
        BY <3>4, <4>1, <4>2
      <4> QED
        BY <4>1, <4>2, <4>3
    <3> QED
      BY <3>1, <3>2, <3>5 DEF KeyedByColumn
  <2>10. filter = ShiftRange(s.filter, p, n)
    <3>1. ShiftRange(NoRange, p, n) = NoRange
      BY DEF ShiftRange, NoRange
    <3> HIDE DEF moved
    <3> QED
      BY <2>1, <3>1
  <2>11. \A e \in s.dims : MovedDim(e, p, n) \in d.dims
    BY <1>3, <2>1, <2>4 DEF MovedDim
  <2>12. \A x \in d.dims : \E e \in s.dims : x = MovedDim(e, p, n)
    BY <1>3, <2>1, <2>4 DEF MovedDim
  <2>13. Shifted(s, d, p, n)
    <3> HIDE DEF moved
    <3> QED
      BY <2>1, <2>4, <2>10, <2>11, <2>12, Zenon DEF Shifted
  <2>14. ASSUME NEW r \in 1..s.rows, NEW c \in 1..(s.cols + n)
         PROVE  /\ d.cell[<<r, c>>] = Prior(s, r, c, p, n)
                /\ c \in Block(p, n) => d.style[<<r, c>>] = "none"
    <3>1. <<r, c>> \in Grid(s.rows, s.cols + n)
      BY DEF Grid
    <3>2. cell[<<r, c>>] = Prior(s, r, c, p, n)
      BY <2>1, <3>1 DEF Prior
    <3>3. c \in Block(p, n) => ~(c < p) /\ c < p + n
      BY <1>1 DEF Block
    <3>4. c \in Block(p, n) => style[<<r, c>>] = "none"
      BY <2>1, <3>1, <3>3
    <3> QED
      BY <2>4, <3>2, <3>4
  <2> QED
    BY <2>4, <2>8, <2>9, <2>13, <2>14
<1> QED
  BY <1>2, <1>3

----------------------------------------------------------------------------
(* The header row                                                          *)

Shows(s, r, e) == \E c \in 1..s.cols : s.cell[<<r, c>>] = Caption(e)
Score(s, r) == Cardinality({e \in QE_EXPECTED : Shows(s, r, e)})

\* The first row with the most captions, among the rows that are scanned.
TopRow(s, h) ==
    /\ h \in 1..s.rows /\ h <= 15
    /\ \A r \in 1..s.rows : r <= 15 => Score(s, r) <= Score(s, h)
    /\ \A r \in 1..s.rows : r < h => Score(s, r) < Score(s, h)

LEMMA ScoreIs ==
  /\ Cardinality(QE_EXPECTED) \in Nat
  /\ \A s, r : Score(s, r) \in 0..Cardinality(QE_EXPECTED)
<1>1. IsFiniteSet(QE_EXPECTED)
  BY OutputAssumption
<1>2. Cardinality(QE_EXPECTED) \in Nat
  BY <1>1, FS_CardinalityType
<1>3. ASSUME NEW s, NEW r PROVE Score(s, r) \in 0..Cardinality(QE_EXPECTED)
  <2> DEFINE S == {e \in QE_EXPECTED : Shows(s, r, e)}
  <2>1. S \in SUBSET QE_EXPECTED
    OBVIOUS
  <2> HIDE DEF S
  <2>2. IsFiniteSet(S) /\ Cardinality(S) <= Cardinality(QE_EXPECTED)
    BY <1>1, <2>1, FS_Subset
  <2>3. Cardinality(S) \in 0..Cardinality(QE_EXPECTED)
    BY <1>2, <2>2, FS_CardinalityType
  <2> QED
    BY <2>3, Zenon DEF S, Score
<1> QED
  BY <1>2, <1>3

LEMMA ScoreRises ==
  ASSUME NEW s, NEW d, NEW r,
         \A e \in QE_EXPECTED : Shows(s, r, e) => Shows(d, r, e)
  PROVE  Score(s, r) <= Score(d, r)
<1> DEFINE S == {e \in QE_EXPECTED : Shows(s, r, e)}
           D == {e \in QE_EXPECTED : Shows(d, r, e)}
<1>1. IsFiniteSet(QE_EXPECTED)
  BY OutputAssumption
<1>2. D \in SUBSET QE_EXPECTED /\ S \in SUBSET D
  OBVIOUS
<1> HIDE DEF S, D
<1>3. IsFiniteSet(D)
  BY <1>1, <1>2, FS_Subset
<1>4. Cardinality(S) <= Cardinality(D)
  BY <1>2, <1>3, FS_Subset
<1> QED
  BY <1>4, Zenon DEF S, D, Score

LEMMA HeaderIsTop ==
  ASSUME NEW s, s.rows \in Nat, s.rows > 0
  PROVE  TopRow(s, DetectHeaderRow(s))
<1> DEFINE scanned == 1..s.rows \cap 1..15
           best == {r \in scanned : \A q \in scanned : Score(s, q) <= Score(s, r)}
<1>1. DetectHeaderRow(s) = First(best)
  <2> DEFINE score(r) == Cardinality({e \in QE_EXPECTED :
                \E c \in 1..s.cols : s.cell[<<r, c>>] = Caption(e)})
  <2>1. \A r : score(r) = Score(s, r)
    BY Zenon DEF Score, Shows
  <2>2. DetectHeaderRow(s) =
           First({r \in scanned : \A q \in scanned : score(q) <= score(r)})
    BY Zenon DEF DetectHeaderRow
  <2> HIDE DEF score
  <2>3. {r \in scanned : \A q \in scanned : score(q) <= score(r)} = best
    BY <2>1
  <2> QED
    BY <2>2, <2>3, Zenon
<1>2. PICK n \in Nat : n = Cardinality(QE_EXPECTED) /\ \A r : Score(s, r) \in 0..n
  BY ScoreIs
<1>3. 1 \in scanned
  OBVIOUS
<1>4. \A r \in scanned : r \in Nat /\ r \in 1..s.rows /\ r <= 15
  OBVIOUS
<1>5. \A r \in 1..s.rows : r <= 15 => r \in scanned
  OBVIOUS
<1> DEFINE gaps == {n - Score(s, r) : r \in scanned}
<1>6. gaps # {} /\ \A g \in gaps : g \in Nat
  BY <1>2, <1>3
<1>7. PICK g \in gaps : \A k \in gaps : g <= k
  <2> HIDE DEF gaps
  <2> QED
    BY <1>6, FirstIsLeast
<1>8. PICK t \in scanned : g = n - Score(s, t)
  BY <1>7
<1>9. \A q \in scanned : Score(s, q) <= Score(s, t)
  <2> TAKE q \in scanned
  <2>1. g <= n - Score(s, q)
    BY <1>7
  <2>2. Score(s, q) \in 0..n /\ Score(s, t) \in 0..n
    BY <1>2
  <2> QED
    BY <1>8, <2>1, <2>2
<1> HIDE DEF gaps
<1>10. t \in best
  BY <1>9
<1>11. \A r \in best : r \in Nat
  BY <1>4
<1>12. PICK h \in best : h = First(best) /\ \A r \in best : h <= r
  <2> HIDE DEF best, scanned
  <2> QED
    BY <1>10, <1>11, FirstIsLeast
<1>13. h \in scanned /\ \A q \in scanned : Score(s, q) <= Score(s, h)
  BY <1>12
<1>14. ASSUME NEW r \in 1..s.rows, r < h
       PROVE  Score(s, r) < Score(s, h)
  <2>1. r \in scanned
    BY <1>4, <1>5, <1>13, <1>14
  <2>2. r \notin best
    <3>1. h \in Nat /\ r \in Nat
      BY <1>4, <1>13, <2>1
    <3> HIDE DEF best, scanned
    <3> QED
      BY <1>12, <1>14, <3>1
  <2>3. PICK q \in scanned : ~(Score(s, q) <= Score(s, r))
    BY <2>1, <2>2
  <2>4. Score(s, q) <= Score(s, h)
    BY <1>13
  <2> QED
    BY <1>2, <2>3, <2>4
<1>15. TopRow(s, h)
  <2> HIDE DEF scanned
  <2> QED
    BY <1>4, <1>5, <1>13, <1>14 DEF TopRow
<1> QED
  BY <1>1, <1>12, <1>15, Zenon

LEMMA OneTopRow ==
  ASSUME NEW s, s.rows \in Nat, NEW h, NEW g, TopRow(s, h), TopRow(s, g)
  PROVE  h = g
<1>1. h \in 1..s.rows /\ g \in 1..s.rows /\ h <= 15 /\ g <= 15
  BY DEF TopRow
<1>2. Score(s, g) <= Score(s, h) /\ Score(s, h) <= Score(s, g)
  BY <1>1 DEF TopRow
<1>3. Score(s, g) \in Nat /\ Score(s, h) \in Nat
  BY ScoreIs
<1>4. ~(h < g) /\ ~(g < h)
  BY <1>1, <1>2, <1>3 DEF TopRow
<1> QED
  BY <1>1, <1>4

\* A header row that only gains captions, while the others only lose some,
\* stays the header row.
LEMMA HeaderStays ==
  ASSUME NEW s, NEW d, s.rows \in Nat, s.rows > 0, d.rows = s.rows,
         \A e \in QE_EXPECTED :
            Shows(s, DetectHeaderRow(s), e) => Shows(d, DetectHeaderRow(s), e),
         \A r \in 1..s.rows, e \in QE_EXPECTED :
            r # DetectHeaderRow(s) /\ Shows(d, r, e) => Shows(s, r, e)
  PROVE  DetectHeaderRow(d) = DetectHeaderRow(s)
<1>1. PICK h : h = DetectHeaderRow(s)
  OBVIOUS
<1>2. TopRow(s, h)
  BY <1>1, HeaderIsTop
<1>3. Score(s, h) <= Score(d, h)
  BY <1>1, ScoreRises
<1>4. \A r \in 1..s.rows : r # h => Score(d, r) <= Score(s, r)
  BY <1>1, ScoreRises
<1>5. \A r : Score(s, r) \in Nat /\ Score(d, r) \in Nat
  BY ScoreIs
<1>6. \A r \in 1..d.rows : r <= 15 => Score(d, r) <= Score(d, h)
  <2> SUFFICES ASSUME NEW r \in 1..s.rows, r <= 15, r # h
               PROVE  Score(d, r) <= Score(d, h)
    BY <1>5
  <2>1. Score(d, r) <= Score(s, r) /\ Score(s, r) <= Score(s, h)
    BY <1>2, <1>4 DEF TopRow
  <2> QED
    BY <1>3, <1>5, <2>1
<1>7. \A r \in 1..d.rows : r < h => Score(d, r) < Score(d, h)
  <2> SUFFICES ASSUME NEW r \in 1..s.rows, r < h
               PROVE  Score(d, r) < Score(d, h)
    OBVIOUS
  <2>1. Score(s, r) < Score(s, h) /\ h \in 1..s.rows
    BY <1>2 DEF TopRow
  <2>2. Score(d, r) <= Score(s, r)
    BY <1>4, <2>1
  <2> QED
    BY <1>3, <1>5, <2>1, <2>2
<1>8. TopRow(d, h)
  BY <1>2, <1>6, <1>7 DEF TopRow
<1>9. TopRow(d, DetectHeaderRow(d))
  BY HeaderIsTop
<1> QED
  BY <1>1, <1>8, <1>9, OneTopRow

----------------------------------------------------------------------------
(* What is said about ranges of cells                                      *)

LEMMA RangeFollows ==
  ASSUME NEW s, s.rows \in Nat, s.cols \in Nat,
         NEW d, d.rows = s.rows, d.cols = s.cols + count,
         at \in Nat, at > 0, at <= s.cols + 1, count \in Nat,
         NEW g \in Ranges
  PROVE  Cells(ShiftRange(g, at, count), d) = ImageCells(g, s)
<1>1. PICK p \in Nat, n \in Nat, cols \in Nat, rows \in Nat :
         p = at /\ n = count /\ cols = s.cols /\ rows = s.rows
  OBVIOUS
<1>2. PICK h : h = ShiftRange(g, p, n)
  OBVIOUS
<1>3. PICK D, I : D = Cells(h, d) /\ I = ImageCells(g, s)
  OBVIOUS
<1>4. \A q : q \in D <=> q \in (1..rows) \X (1..(cols + n))
                         /\ Covers(h, q[1], q[2])
  BY <1>1, <1>3 DEF Cells, Grid
<1>5. \A c : Image(c) = ImageAt(c, p, n)
  BY <1>1 DEF Image, ImageAt
<1>6. Inserted = Block(p, n)
  BY <1>1 DEF Inserted, Block
<1>7. \A q : q \in I <=>
         \/ \E r \in 1..rows, b \in 1..cols :
               q = <<r, ImageAt(b, p, n)>> /\ Covers(g, r, b)
         \/ /\ q \in (1..rows) \X Block(p, n)
            /\ g.r1 <= q[1] /\ q[1] <= g.r2 /\ g.c1 < p /\ p <= g.c2
  <2> TAKE q
  <2> DEFINE A == {<<x[1], Image(x[2])>> : x \in Cells(g, s)}
             B == {x \in (1..s.rows) \X Inserted :
                      g.r1 <= x[1] /\ x[1] <= g.r2 /\ g.c1 < at /\ at <= g.c2}
  <2>1. q \in I <=> q \in A \/ q \in B
    BY <1>3 DEF ImageCells
  <2>2. q \in A <=> \E r \in 1..rows, b \in 1..cols :
                       q = <<r, ImageAt(b, p, n)>> /\ Covers(g, r, b)
    <3>1. q \in A <=> \E x \in Cells(g, s) : q = <<x[1], Image(x[2])>>
      OBVIOUS
    <3>2. \A x : x \in Cells(g, s) <=>
                    x \in (1..rows) \X (1..cols) /\ Covers(g, x[1], x[2])
      BY <1>1 DEF Cells, Grid
    <3>3. ASSUME NEW x \in Cells(g, s), q = <<x[1], Image(x[2])>>
          PROVE  \E r \in 1..rows, b \in 1..cols :
                    q = <<r, ImageAt(b, p, n)>> /\ Covers(g, r, b)
      BY <1>5, <3>2, <3>3
    <3>4. ASSUME NEW r \in 1..rows, NEW b \in 1..cols,
                 q = <<r, ImageAt(b, p, n)>>, Covers(g, r, b)
          PROVE  \E x \in Cells(g, s) : q = <<x[1], Image(x[2])>>
      <4>1. <<r, b>> \in Cells(g, s)
        BY <3>2, <3>4
      <4> QED
        BY <1>5, <3>4, <4>1
    <3> QED
      BY <3>1, <3>3, <3>4
  <2>3. q \in B <=>
           /\ q \in (1..rows) \X Block(p, n)
           /\ g.r1 <= q[1] /\ q[1] <= g.r2 /\ g.c1 < p /\ p <= g.c2
    BY <1>1, <1>6
  <2> QED
    BY <2>1, <2>2, <2>3
<1>8. \A r : \A c \in 1..(cols + n) :
         Covers(h, r, c) <=>
            /\ g.r1 <= r /\ r <= g.r2
            /\ \/ \E b \in 1..cols :
                     c = ImageAt(b, p, n) /\ g.c1 <= b /\ b <= g.c2
               \/ c \in Block(p, n) /\ g.c1 < p /\ p <= g.c2
  <2> TAKE r
  <2> TAKE c \in 1..(cols + n)
  <2>1. p > 0 /\ p <= cols + 1
    BY <1>1
  <2>2. Covers(ShiftRange(g, p, n), r, c) <=> InImage(g, p, n, cols, r, c)
    BY <2>1, ShiftRangeCells
  <2> QED
    BY <1>2, <2>2, Zenon DEF InImage
<1>9. ASSUME NEW q \in D PROVE q \in I
  <2>1. PICK r \in 1..rows, c \in 1..(cols + n) : q = <<r, c>> /\ Covers(h, r, c)
    BY <1>4
  <2>2. CASE \E b \in 1..cols :
                c = ImageAt(b, p, n) /\ g.c1 <= b /\ b <= g.c2
    BY <1>7, <1>8, <2>1, <2>2 DEF Covers
  <2>3. CASE c \in Block(p, n) /\ g.c1 < p /\ p <= g.c2
    BY <1>7, <1>8, <2>1, <2>3
  <2> QED
    BY <1>8, <2>1, <2>2, <2>3
<1>10. ASSUME NEW q \in I PROVE q \in D
  <2>1. CASE \E r \in 1..rows, b \in 1..cols :
                q = <<r, ImageAt(b, p, n)>> /\ Covers(g, r, b)
    <3>1. PICK r \in 1..rows, b \in 1..cols :
             q = <<r, ImageAt(b, p, n)>> /\ Covers(g, r, b)
      BY <2>1
    <3>2. PICK c : c = ImageAt(b, p, n)
      OBVIOUS
    <3>3. c \in 1..(cols + n)
      BY <3>2 DEF ImageAt
    <3>4. Covers(h, r, c)
      BY <1>8, <3>1, <3>2, <3>3 DEF Covers
    <3> QED
      BY <1>4, <3>1, <3>2, <3>3, <3>4
  <2>2. CASE /\ q \in (1..rows) \X Block(p, n)
             /\ g.r1 <= q[1] /\ q[1] <= g.r2 /\ g.c1 < p /\ p <= g.c2
    <3>1. PICK r \in 1..rows, c \in Block(p, n) : q = <<r, c>>
      BY <2>2
    <3>2. c \in 1..(cols + n)
      BY <1>1 DEF Block
    <3>3. Covers(h, r, c)
      BY <1>8, <2>2, <3>1, <3>2
    <3> QED
      BY <1>4, <3>1, <3>2, <3>3
  <2> QED
    BY <1>7, <2>1, <2>2
<1>11. D = I
  BY <1>9, <1>10
<1> QED
  BY <1>1, <1>2, <1>3, <1>11, Zenon

\* The width of a column that one entry names.
LEMMA WidthIs ==
  ASSUME NEW s, NEW c, NEW e \in s.dims, e.min <= c, c <= e.max,
         \A f \in s.dims : f.min <= c /\ c <= f.max => f = e
  PROVE  Width(s, c) = e.width
<1> DEFINE D == {d \in s.dims : d.min <= c /\ c <= d.max}
<1>1. D = {e}
  OBVIOUS
<1>2. Width(s, c) = IF D = {} THEN "default" ELSE (CHOOSE d \in D : TRUE).width
  BY DEF Width
<1> HIDE DEF D
<1>3. D # {} /\ (CHOOSE d \in D : TRUE) \in D
  BY <1>1
<1> QED
  BY <1>1, <1>2, <1>3

LEMMA WidthDefault ==
  ASSUME NEW s, NEW c, \A f \in s.dims : ~(f.min <= c /\ c <= f.max)
  PROVE  Width(s, c) = "default"
BY DEF Width

\* What RangesFollowCells says of a sheet and its automated copy.
Follows(s, d) ==
    LET all(G) == {Cells(g, d) : g \in G}
        moved(G) == {ImageCells(g, s) : g \in G}
    IN /\ all(d.merges) = moved(s.merges)
       /\ all(d.formats) = moved(s.formats)
       /\ Cells(d.filter, d) = ImageCells(s.filter, s)
       /\ \A c \in 1..s.cols : c < s.pane <=> Image(c) < d.pane
       /\ (\A e \in s.dims : e.min = e.max) =>
             \A c \in 1..s.cols : Width(d, Image(c)) = Width(s, c)

LEMMA MovedDimIs ==
  ASSUME NEW e \in [min : Nat, max : Nat, width : Widths], e.min = e.max,
         NEW p \in Nat, NEW n \in Nat
  PROVE  /\ MovedDim(e, p, n).min = ImageAt(e.min, p, n)
         /\ MovedDim(e, p, n).max = ImageAt(e.min, p, n)
         /\ MovedDim(e, p, n).width = e.width
<1>1. PICK m \in Nat : m = e.min /\ m = e.max
  OBVIOUS
<1>2. CASE n = 0
  BY <1>1, <1>2 DEF MovedDim, ImageAt
<1>3. CASE n # 0
  <2>1. MovedDim(e, p, n) = ShiftDim(e, p, n)
    BY <1>3 DEF MovedDim
  <2>2. PICK x : x = ShiftDim(e, p, n)
    OBVIOUS
  <2>3. /\ x.min = IF e.min >= p THEN e.min + n ELSE e.min
        /\ x.max = IF e.min >= p THEN e.min + n ELSE e.max
        /\ x.width = e.width
    BY <2>2, DimMoves, Zenon
  <2> QED
    BY <1>1, <2>1, <2>2, <2>3 DEF ImageAt
<1> QED
  BY <1>2, <1>3

LEMMA ShiftedFollows ==
  ASSUME NEW s, IsSheet(s), KeyedByColumn(s), NEW d,
         at \in Nat, at > 0, at <= s.cols + 1, count \in Nat,
         Shifted(s, d, at, count)
  PROVE  Follows(s, d)
<1>1. /\ s.rows \in Nat /\ s.cols \in Nat /\ s.pane \in Nat
      /\ s.merges \in SUBSET Ranges /\ s.formats \in SUBSET Ranges
      /\ s.filter \in Ranges
      /\ s.dims \in SUBSET [min : Nat, max : Nat, width : Widths]
  BY PartsOfSheet
<1>2. /\ d.rows = s.rows /\ d.cols = s.cols + count
      /\ d.merges = ShiftRanges(s.merges, at, count)
      /\ d.formats = ShiftRanges(s.formats, at, count)
      /\ d.filter = ShiftRange(s.filter, at, count)
      /\ d.pane = IF s.pane >= at THEN s.pane + count ELSE s.pane
  BY DEF Shifted
<1>3. \A g \in Ranges : Cells(ShiftRange(g, at, count), d) = ImageCells(g, s)
  BY <1>1, <1>2, RangeFollows
<1>4. ASSUME NEW G \in SUBSET Ranges
      PROVE  {Cells(g, d) : g \in ShiftRanges(G, at, count)} =
                {ImageCells(g, s) : g \in G}
  <2>1. PICK H : H = ShiftRanges(G, at, count)
    OBVIOUS
  <2>2. \A h : h \in H <=> \E g \in G : h = ShiftRange(g, at, count)
    BY <2>1 DEF ShiftRanges
  <2>3. {Cells(h, d) : h \in H} = {ImageCells(g, s) : g \in G}
    BY <1>3, <2>2
  <2> QED
    BY <2>1, <2>3
<1>5. \A c \in 1..s.cols : c < s.pane <=> Image(c) < d.pane
  <2>1. PICK p \in Nat, n \in Nat, v \in Nat : p = at /\ n = count /\ v = s.pane
    BY <1>1
  <2> SUFFICES \A c \in 1..s.cols :
                 c < v <=> Image(c) < IF v >= p THEN v + n ELSE v
    BY <1>2, <2>1
  <2> QED
    BY <1>1, <2>1 DEF Image
<1>6. ASSUME \A e \in s.dims : e.min = e.max, NEW c \in 1..s.cols
      PROVE  Width(d, Image(c)) = Width(s, c)
  <2>1. PICK i \in Nat : i = Image(c) /\ i = ImageAt(c, at, count)
    BY <1>1 DEF Image, ImageAt
  <2>2. \A e \in s.dims : /\ MovedDim(e, at, count) \in d.dims
                          /\ MovedDim(e, at, count).min = ImageAt(e.min, at, count)
                          /\ MovedDim(e, at, count).max = ImageAt(e.min, at, count)
                          /\ MovedDim(e, at, count).width = e.width
    <3> TAKE e \in s.dims
    <3>1. MovedDim(e, at, count) \in d.dims
      BY DEF Shifted
    <3> QED
      BY <1>1, <1>6, <3>1, MovedDimIs
  <2>3. \A m \in Nat : ImageAt(m, at, count) = i => m = c
    BY <2>1 DEF ImageAt
  <2>4. ASSUME NEW x \in d.dims, x.min <= i, i <= x.max
        PROVE  \E e \in s.dims : e.min = c /\ x = MovedDim(e, at, count)
    <3>1. CASE \E e \in s.dims : x = MovedDim(e, at, count)
      <4>1. PICK e \in s.dims : x = MovedDim(e, at, count)
        BY <3>1
      <4>2. PICK m \in Nat : m = e.min
        BY <1>1
      <4>3. x.min = ImageAt(m, at, count) /\ x.max = ImageAt(m, at, count)
        BY <2>2, <4>1, <4>2
      <4>4. ImageAt(m, at, count) \in Nat
        BY DEF ImageAt
      <4>5. ImageAt(m, at, count) = i
        BY <2>4, <4>3, <4>4
      <4> QED
        BY <2>3, <4>1, <4>2, <4>5
    <3>2. CASE \E b \in Block(at, count) : x = OurDim(b)
      <4>1. PICK b \in Block(at, count) : x = OurDim(b)
        BY <3>2
      <4>2. b \in Int /\ x.min = b /\ x.max = b
        BY <4>1 DEF Block, OurDim
      <4>3. b = i
        BY <2>4, <4>2
      <4> QED
        BY <2>1, <4>2, <4>3 DEF Block, ImageAt
    <3> QED
      BY <3>1, <3>2 DEF Shifted
  <2>5. CASE \E e \in s.dims : e.min = c
    <3>1. PICK e \in s.dims : e.min = c
      BY <2>5
    <3>2. Width(s, c) = e.width
      <4>1. \A f \in s.dims : f.min <= c /\ c <= f.max => f = e
        <5> TAKE f \in s.dims
        <5> HAVE f.min <= c /\ c <= f.max
        <5>1. PICK m \in Nat : m = f.min /\ m = f.max
          BY <1>1, <1>6
        <5>2. f.min = c
          BY <5>1
        <5> QED
          BY <3>1, <5>2 DEF KeyedByColumn
      <4>2. e.min <= c /\ c <= e.max
        BY <1>6, <3>1
      <4> QED
        BY <4>1, <4>2, WidthIs
    <3>3. PICK x : x = MovedDim(e, at, count)
      OBVIOUS
    <3>4. x \in d.dims /\ x.min = i /\ x.max = i /\ x.width = e.width
      BY <2>1, <2>2, <3>1, <3>3
    <3>5. \A y \in d.dims : y.min <= i /\ i <= y.max => y = x
      <4> TAKE y \in d.dims
      <4> HAVE y.min <= i /\ i <= y.max
      <4>1. PICK f \in s.dims : f.min = c /\ y = MovedDim(f, at, count)
        BY <2>4
      <4>2. f = e
        BY <3>1, <4>1 DEF KeyedByColumn
      <4> QED
        BY <3>3, <4>1, <4>2
    <3>6. Width(d, i) = x.width
      <4>1. x \in d.dims /\ x.min <= i /\ i <= x.max
        BY <3>4
      <4> QED
        BY <3>5, <4>1, WidthIs, Zenon
    <3> QED
      BY <2>1, <3>2, <3>4, <3>6
  <2>6. CASE ~ \E e \in s.dims : e.min = c
    <3>1. Width(s, c) = "default"
      <4>1. \A f \in s.dims : ~(f.min <= c /\ c <= f.max)
        <5> TAKE f \in s.dims
        <5>1. PICK m \in Nat : m = f.min /\ m = f.max
          BY <1>1, <1>6
        <5>2. m # c
          BY <2>6, <5>1
        <5> QED
          BY <5>1, <5>2
      <4> QED
        BY <4>1, WidthDefault
    <3>2. Width(d, i) = "default"
      <4>1. \A y \in d.dims : ~(y.min <= i /\ i <= y.max)
        BY <2>4, <2>6
      <4> QED
        BY <4>1, WidthDefault
    <3> QED
      BY <2>1, <3>1, <3>2
  <2> QED
    BY <2>5, <2>6
<1>7. /\ {Cells(g, d) : g \in d.merges} = {ImageCells(g, s) : g \in s.merges}
      /\ {Cells(g, d) : g \in d.formats} = {ImageCells(g, s) : g \in s.formats}
      /\ Cells(d.filter, d) = ImageCells(s.filter, s)
  <2>1. {Cells(g, d) : g \in ShiftRanges(s.merges, at, count)} =
           {ImageCells(g, s) : g \in s.merges}
    BY <1>1, <1>4
  <2>2. {Cells(g, d) : g \in ShiftRanges(s.formats, at, count)} =
           {ImageCells(g, s) : g \in s.formats}
    BY <1>1, <1>4
  <2> QED
    BY <1>1, <1>2, <1>3, <2>1, <2>2
<1> QED
  BY <1>5, <1>6, <1>7, Zenon DEF Follows

----------------------------------------------------------------------------
(* Where the automation captions go                                        *)

\* The operators of the model for any sheet, header row and placement.
Holding(s, h, k) == {c \in 1..s.cols : s.cell[<<h, c>>] = Caption(k)}
OldIn(s, h) == {k \in Captions : Holding(s, h, k) # {}}
NewIn(s, h) == Cardinality(Captions \ OldIn(s, h))
AnchorsIn(s, h) ==
    {i \in DOMAIN INSERT_BEFORE : Holding(s, h, INSERT_BEFORE[i]) # {}}
PointIn(s, h) ==
    IF AnchorsIn(s, h) = {} THEN s.cols + 1
    ELSE First(Holding(s, h, INSERT_BEFORE[First(AnchorsIn(s, h))]))
PlaceIn(old, k) ==
    Cardinality({i \in DOMAIN AUTOMATION_COLUMNS :
                    /\ AUTOMATION_COLUMNS[i] \notin old
                    /\ \E j \in DOMAIN AUTOMATION_COLUMNS :
                          i < j /\ AUTOMATION_COLUMNS[j] = k})
ColumnsIn(s, h) ==
    [k \in Captions |->
        IF k \in OldIn(s, h)
        THEN First(Holding(InsertColumns(s, PointIn(s, h), NewIn(s, h)), h, k))
        ELSE PointIn(s, h) + PlaceIn(OldIn(s, h), k)]

LEMMA PointInSheet ==
  ASSUME NEW s, s.cols \in Nat, NEW h
  PROVE  PointIn(s, h) \in 1..(s.cols + 1)
<1>1. PICK A : A = AnchorsIn(s, h)
  OBVIOUS
<1>2. CASE A = {}
  BY <1>1, <1>2 DEF PointIn
<1>3. CASE A # {}
  <2>1. \A i \in A : i \in Nat
    BY <1>1, OutputAssumption DEF AnchorsIn
  <2>2. First(A) \in A
    BY <1>3, <2>1, FirstIsLeast
  <2>3. PICK H : H = Holding(s, h, INSERT_BEFORE[First(A)])
    OBVIOUS
  <2>4. H # {} /\ \A c \in H : c \in 1..s.cols
    BY <1>1, <2>2, <2>3 DEF AnchorsIn, Holding
  <2>5. First(H) \in H
    BY <2>4, FirstIsLeast
  <2>6. PointIn(s, h) = First(H)
    BY <1>1, <1>3, <2>3, Zenon DEF PointIn
  <2> QED
    BY <2>4, <2>5, <2>6
<1> QED
  BY <1>2, <1>3

LEMMA ColumnsAre ==
  \E N \in Nat :
     /\ DOMAIN AUTOMATION_COLUMNS = 1..N
     /\ \A k : k \in Captions <=> \E i \in 1..N : AUTOMATION_COLUMNS[i] = k
     /\ \A i, j \in 1..N : AUTOMATION_COLUMNS[i] = AUTOMATION_COLUMNS[j] => i = j
<1>1. AUTOMATION_COLUMNS \in Seq(STRING)
  BY OutputAssumption
<1>2. PICK N \in Nat : DOMAIN AUTOMATION_COLUMNS = 1..N
  BY <1>1
<1>3. \A i, j \in 1..N : AUTOMATION_COLUMNS[i] = AUTOMATION_COLUMNS[j] => i = j
  BY <1>2, OutputAssumption
<1> QED
  BY <1>2, <1>3 DEF Captions

\* The columns of new captions are the columns of the block, one for each.
LEMMA PlacesAre ==
  ASSUME NEW old
  PROVE  /\ IsFiniteSet(Captions \ old) /\ Cardinality(Captions \ old) \in Nat
         /\ \A k \in Captions \ old :
               PlaceIn(old, k) \in 0..(Cardinality(Captions \ old) - 1)
         /\ \A k, l \in Captions \ old : PlaceIn(old, k) = PlaceIn(old, l) => k = l
<1>1. PICK N \in Nat :
         /\ DOMAIN AUTOMATION_COLUMNS = 1..N
         /\ \A k : k \in Captions <=> \E i \in 1..N : AUTOMATION_COLUMNS[i] = k
         /\ \A i, j \in 1..N :
               AUTOMATION_COLUMNS[i] = AUTOMATION_COLUMNS[j] => i = j
  BY ColumnsAre
<1>2. PICK S : S = {i \in 1..N : AUTOMATION_COLUMNS[i] \notin old}
  OBVIOUS
<1>3. /\ \A i \in S : i \in 1..N
      /\ \A i : i \in S <=> i \in 1..N /\ AUTOMATION_COLUMNS[i] \notin old
  BY <1>2
<1>4. PICK T : T = Captions \ old
  OBVIOUS
<1>5. IsFiniteSet(S) /\ Cardinality(S) \in Nat
  <2>1. IsFiniteSet(S) /\ Cardinality(S) \in 0..N
    BY <1>3, UpTo
  <2> QED
    BY <2>1
<1>6. IsFiniteSet(T) /\ Cardinality(T) = Cardinality(S)
  <2>1. PICK f : f = [i \in S |-> AUTOMATION_COLUMNS[i]]
    OBVIOUS
  <2>2. f \in [S -> T]
    BY <1>1, <1>3, <1>4, <2>1
  <2>3. \A i, j \in S : f[i] = f[j] => i = j
    BY <1>1, <1>3, <2>1
  <2>4. \A k \in T : \E i \in S : f[i] = k
    BY <1>1, <1>3, <1>4, <2>1
  <2>5. f \in Bijection(S, T)
    BY <2>2, <2>3, <2>4, Zenon DEF Bijection, Injection, Surjection, IsInjective
  <2>6. ExistsBijection(S, T)
    BY <2>5 DEF ExistsBijection
  <2> QED
    BY <1>5, <2>6, FS_Bijection
<1>7. ASSUME NEW j \in S
      PROVE  Rank(S, j) = PlaceIn(old, AUTOMATION_COLUMNS[j]) + 1
  <2> DEFINE B == {i \in DOMAIN AUTOMATION_COLUMNS :
                      /\ AUTOMATION_COLUMNS[i] \notin old
                      /\ \E m \in DOMAIN AUTOMATION_COLUMNS :
                            /\ i < m
                            /\ AUTOMATION_COLUMNS[m] = AUTOMATION_COLUMNS[j]}
             C == {k \in S : k <= j}
  <2>1. \A i : i \in B <=> i \in S /\ i < j
    <3> TAKE i
    <3>1. ASSUME i \in B PROVE i \in S /\ i < j
      BY <1>1, <1>3, <3>1
    <3>2. ASSUME i \in S, i < j PROVE i \in B
      BY <1>1, <1>3, <3>2
    <3> QED
      BY <3>1, <3>2
  <2>2. PlaceIn(old, AUTOMATION_COLUMNS[j]) = Cardinality(B)
    BY Zenon DEF PlaceIn
  <2>3. Rank(S, j) = Cardinality(C)
    BY Zenon DEF Rank
  <2> HIDE DEF B
  <2>4. C = B \cup {j} /\ j \notin B
    BY <1>3, <2>1
  <2> HIDE DEF C
  <2>5. IsFiniteSet(B)
    <3>1. B \in SUBSET S
      BY <2>1
    <3> QED
      BY <1>5, <3>1, FS_Subset
  <2>6. Cardinality(C) = Cardinality(B) + 1
    BY <2>4, <2>5, FS_AddElement
  <2> QED
    BY <2>2, <2>3, <2>6
<1>8. \A k \in T : \E j \in S : AUTOMATION_COLUMNS[j] = k
  BY <1>1, <1>3, <1>4
<1>9. \A j \in S : Rank(S, j) \in 1..Cardinality(S) /\ Nth(S, Rank(S, j)) = j
  BY <1>3, NthOfRank
<1>10. \A k : PlaceIn(old, k) \in Nat
  <2> TAKE k
  <2> DEFINE B == {i \in DOMAIN AUTOMATION_COLUMNS :
                      /\ AUTOMATION_COLUMNS[i] \notin old
                      /\ \E m \in DOMAIN AUTOMATION_COLUMNS :
                            i < m /\ AUTOMATION_COLUMNS[m] = k}
  <2>1. B \in SUBSET S
    BY <1>1, <1>3
  <2>2. IsFiniteSet(B)
    BY <1>5, <2>1, FS_Subset
  <2>3. Cardinality(B) \in Nat
    BY <2>2, FS_CardinalityType
  <2> QED
    BY <2>3, Zenon DEF PlaceIn
<1>11. ASSUME NEW k \in T PROVE PlaceIn(old, k) \in 0..(Cardinality(T) - 1)
  <2>1. PICK j \in S : AUTOMATION_COLUMNS[j] = k
    BY <1>8
  <2>2. Rank(S, j) = PlaceIn(old, k) + 1
    BY <1>7, <2>1
  <2>3. PlaceIn(old, k) \in Nat /\ Rank(S, j) \in 1..Cardinality(S)
    BY <1>9, <1>10
  <2> QED
    BY <1>5, <1>6, <2>2, <2>3
<1>12. ASSUME NEW k \in T, NEW l \in T, PlaceIn(old, k) = PlaceIn(old, l)
       PROVE  k = l
  <2>1. PICK i \in S : AUTOMATION_COLUMNS[i] = k
    BY <1>8
  <2>2. PICK j \in S : AUTOMATION_COLUMNS[j] = l
    BY <1>8
  <2>3. Rank(S, i) = Rank(S, j)
    BY <1>7, <1>12, <2>1, <2>2
  <2>4. i = j
    BY <1>9, <2>3
  <2> QED
    BY <2>1, <2>2, <2>4
<1> QED
  BY <1>4, <1>5, <1>6, <1>11, <1>12

LEMMA TextsDiffer ==
  /\ \A k, l : Caption(k) = Caption(l) => k = l
  /\ \A k \in Captions \cup QE_EXPECTED : Caption(k) # Empty
  /\ \A k, l, r : r # 0 => Answer(k, r) # Caption(l)
<1>1. \A k, l : Caption(k) = Caption(l) => k = l
  BY DEF Caption, Text
<1>2. \A k, l, r : r # 0 => Answer(k, r) # Caption(l)
  BY DEF Caption, Answer, Text
<1>3. \A k \in Captions \cup QE_EXPECTED : Caption(k) # Empty
  BY OutputAssumption
<1> QED
  BY <1>1, <1>2, <1>3

\* Which columns are ours: those that had a caption, and those of the block.
Placed(s, h, p, n, f, old) ==
    /\ p \in 1..(s.cols + 1) /\ n \in Nat
    /\ old \subseteq Captions
    /\ f = [k \in Captions |-> f[k]]
    /\ \A k \in old : /\ First(Holding(s, h, k)) \in Holding(s, h, k)
                      /\ \A c \in Holding(s, h, k) : First(Holding(s, h, k)) <= c
                      /\ f[k] = ImageAt(First(Holding(s, h, k)), p, n)
    /\ \A k \in Captions \ old : Holding(s, h, k) = {} /\ f[k] \in Block(p, n)
    /\ \A k \in Captions : f[k] \in 1..(s.cols + n)
    /\ \A k, l \in Captions : f[k] = f[l] => k = l

\* D holds the images of the columns in S.
ImagesOf(D, S, p, n) == \A c : c \in D <=> \E b \in S : c = ImageAt(b, p, n)

\* The columns that show a caption after the insertion are the images of those
\* that showed it before.
LEMMA HoldingMoves ==
  ASSUME NEW s, s.cols \in Nat, NEW d, NEW p \in 1..(s.cols + 1), NEW n \in Nat,
         d.cols = s.cols + n, NEW h,
         \A c \in 1..(s.cols + n) : d.cell[<<h, c>>] = Prior(s, h, c, p, n),
         NEW k, Caption(k) # Empty
  PROVE  ImagesOf(Holding(d, h, k), Holding(s, h, k), p, n)
<1>1. PICK w \in Nat : w = s.cols
  OBVIOUS
<1>2. ASSUME NEW c \in Holding(d, h, k)
      PROVE  \E b \in Holding(s, h, k) : c = ImageAt(b, p, n)
  <2>1. c \in 1..(w + n) /\ Prior(s, h, c, p, n) = Caption(k)
    BY <1>1 DEF Holding
  <2>2. CASE c < p
    <3>1. c \in 1..w /\ s.cell[<<h, c>>] = Caption(k) /\ c = ImageAt(c, p, n)
      BY <1>1, <2>1, <2>2 DEF Prior, ImageAt
    <3> QED
      BY <1>1, <3>1 DEF Holding
  <2>3. CASE ~(c < p) /\ c < p + n
    BY <2>1, <2>3 DEF Prior
  <2>4. CASE ~(c < p) /\ ~(c < p + n)
    <3>1. s.cell[<<h, c - n>>] = Caption(k)
      BY <2>1, <2>4 DEF Prior
    <3>2. c - n \in 1..w /\ c = ImageAt(c - n, p, n)
      BY <2>1, <2>4 DEF ImageAt
    <3>3. c - n \in Holding(s, h, k)
      BY <1>1, <3>1, <3>2 DEF Holding
    <3> QED
      BY <3>2, <3>3
  <2> QED
    BY <2>2, <2>3, <2>4
<1>3. ASSUME NEW b \in Holding(s, h, k), NEW c, c = ImageAt(b, p, n)
      PROVE  c \in Holding(d, h, k)
  <2>1. b \in 1..w /\ s.cell[<<h, b>>] = Caption(k)
    BY <1>1 DEF Holding
  <2>2. c \in 1..(w + n) /\ Prior(s, h, c, p, n) = Caption(k)
    <3>1. CASE b < p
      BY <1>3, <2>1, <3>1 DEF ImageAt, Prior
    <3>2. CASE ~(b < p)
      <4>1. c = b + n /\ ~(c < p) /\ ~(c < p + n) /\ c - n = b
        BY <1>3, <2>1, <3>2 DEF ImageAt
      <4> QED
        BY <2>1, <4>1 DEF Prior
    <3> QED
      BY <3>1, <3>2
  <2> QED
    BY <1>1, <2>2 DEF Holding
<1> QED
  BY <1>2, <1>3 DEF ImagesOf

LEMMA ColumnsPlaced ==
  ASSUME NEW s, IsSheet(s), KeyedByColumn(s), NEW h \in 1..s.rows
  PROVE  Placed(s, h, PointIn(s, h), NewIn(s, h), ColumnsIn(s, h), OldIn(s, h))
<1>1. s.cols \in Nat /\ s.rows \in Nat
  BY PartsOfSheet
<1>a. PICK w \in Nat : w = s.cols
  BY <1>1
<1>b. PICK p \in 1..(w + 1) : p = PointIn(s, h)
  BY <1>a, PointInSheet
<1>c. PICK n \in Nat : n = NewIn(s, h)
  BY PlacesAre DEF NewIn
<1>d. PICK f, old : f = ColumnsIn(s, h) /\ old = OldIn(s, h)
  OBVIOUS
<1>2. /\ w = s.cols /\ p = PointIn(s, h) /\ n = NewIn(s, h)
      /\ f = ColumnsIn(s, h) /\ old = OldIn(s, h)
  BY <1>a, <1>b, <1>c, <1>d
<1>3. PICK d : d = InsertColumns(s, p, n)
  OBVIOUS
<1>4. /\ d.cols = w + n
      /\ \A c \in 1..(w + n) : d.cell[<<h, c>>] = Prior(s, h, c, p, n)
  BY <1>1, <1>2, <1>3, InsertColumnsIs DEF Shifted
<1>5. \A k \in Captions :
         f[k] = IF k \in old THEN First(Holding(d, h, k))
                             ELSE p + PlaceIn(old, k)
  BY <1>2, <1>3 DEF ColumnsIn
<1>6. f = [k \in Captions |-> f[k]]
  BY <1>2 DEF ColumnsIn
<1>7. /\ old \subseteq Captions
      /\ \A k \in Captions : k \in old <=> Holding(s, h, k) # {}
  BY <1>2 DEF OldIn
<1>8. \A k : \A c \in Holding(s, h, k) : c \in 1..w
  BY <1>2 DEF Holding
<1>9. ASSUME NEW k \in old
      PROVE  /\ First(Holding(s, h, k)) \in Holding(s, h, k)
             /\ \A c \in Holding(s, h, k) : First(Holding(s, h, k)) <= c
             /\ f[k] = ImageAt(First(Holding(s, h, k)), p, n)
             /\ f[k] \in Holding(d, h, k)
  <2>1. PICK H, G : H = Holding(s, h, k) /\ G = Holding(d, h, k)
    OBVIOUS
  <2>2. \A c : c \in G <=> \E b \in H : c = ImageAt(b, p, n)
    <3>1. Caption(k) # Empty
      BY <1>7, TextsDiffer
    <3>2. /\ s.cols \in Nat /\ p \in 1..(s.cols + 1) /\ d.cols = s.cols + n
          /\ \A c \in 1..(s.cols + n) : d.cell[<<h, c>>] = Prior(s, h, c, p, n)
      BY <1>2, <1>4
    <3>3. ImagesOf(Holding(d, h, k), Holding(s, h, k), p, n)
      BY <3>1, <3>2, HoldingMoves
    <3> QED
      BY <2>1, <3>3 DEF ImagesOf
  <2>3. H # {} /\ \A c \in H : c \in 1..w
    BY <1>7, <1>8, <2>1
  <2>4. PICK b \in H : b = First(H) /\ \A c \in H : b <= c
    BY <2>3, FirstIsLeast
  <2>5. G # {} /\ \A c \in G : c \in Nat
    BY <2>2, <2>3 DEF ImageAt
  <2>6. PICK g \in G : g = First(G) /\ \A c \in G : g <= c
    BY <2>5, FirstIsLeast
  <2>7. g = ImageAt(b, p, n)
    <3>1. PICK c \in H : g = ImageAt(c, p, n)
      BY <2>2
    <3>2. g <= ImageAt(b, p, n)
      BY <2>2, <2>6
    <3>3. b <= c /\ b \in 1..w /\ c \in 1..w
      BY <2>3, <2>4
    <3> QED
      BY <3>1, <3>2, <3>3 DEF ImageAt
  <2>8. f[k] = g
    BY <1>5, <1>7, <2>1, <2>6
  <2> QED
    BY <2>1, <2>4, <2>7, <2>8
<1>10. ASSUME NEW k \in Captions \ old
       PROVE  /\ Holding(s, h, k) = {} /\ f[k] \in Block(p, n)
              /\ f[k] = p + PlaceIn(old, k) /\ PlaceIn(old, k) \in Nat
  <2>1. n = Cardinality(Captions \ old)
    BY <1>2 DEF NewIn
  <2>2. PlaceIn(old, k) \in 0..(n - 1)
    BY <2>1, PlacesAre
  <2> QED
    BY <1>5, <1>7, <2>2 DEF Block
<1>11. \A k \in Captions : f[k] \in 1..(w + n)
  <2> TAKE k \in Captions
  <2>1. CASE k \in old
    <3>1. \A c \in Holding(d, h, k) : c \in 1..(w + n)
      BY <1>4 DEF Holding
    <3> QED
      BY <1>9, <2>1, <3>1
  <2>2. CASE k \notin old
    BY <1>10, <2>2 DEF Block
  <2> QED
    BY <2>1, <2>2
<1>12. ASSUME NEW k \in old PROVE f[k] \notin Block(p, n)
  <2>1. First(Holding(s, h, k)) \in 1..w
    BY <1>8, <1>9
  <2> QED
    BY <1>9, <2>1 DEF Block, ImageAt
<1>13. ASSUME NEW k \in Captions, NEW l \in Captions, f[k] = f[l]
       PROVE  k = l
  <2>1. CASE k \in old /\ l \in old
    <3>1. d.cell[<<h, f[k]>>] = Caption(k) /\ d.cell[<<h, f[l]>>] = Caption(l)
      BY <1>9, <2>1 DEF Holding
    <3> QED
      BY <1>13, <3>1, TextsDiffer
  <2>2. CASE k \notin old /\ l \notin old
    <3>1. PlaceIn(old, k) = PlaceIn(old, l)
      BY <1>10, <1>13, <2>2
    <3> QED
      BY <2>2, <3>1, PlacesAre
  <2>3. CASE k \in old /\ l \notin old
    BY <1>10, <1>12, <1>13, <2>3
  <2>4. CASE k \notin old /\ l \in old
    BY <1>10, <1>12, <1>13, <2>4
  <2> QED
    BY <2>1, <2>2, <2>3, <2>4
<1>14. Placed(s, h, p, n, f, old)
  BY <1>2, <1>6, <1>7, <1>9, <1>10, <1>11, <1>13 DEF Placed
<1> QED
  BY <1>2, <1>14

----------------------------------------------------------------------------
(* The steps of write() as functions of the sheet they are given           *)

Copy(s) == [s EXCEPT !.name = AUTOMATED_SHEET]

OursIn(f) == {f[k] : k \in Captions}
KeyIn(f, c) == CHOOSE k \in Captions : f[k] = c
Neighbour(s, p, n) == IF p + n <= s.cols THEN p + n ELSE p - 1

DressedBy(s, h, p, n, nb, q) ==
    /\ nb >= 1
    /\ q[1] < h /\ q[2] \in p..(p + n - 1)
    /\ s.style[<<q[1], nb>>] # "none"
Dressed(s, h, p, n) ==
    [s EXCEPT !.style = [q \in Grid(s.rows, s.cols) |->
        IF DressedBy(s, h, p, n, Neighbour(s, p, n), q)
        THEN s.style[<<q[1], Neighbour(s, p, n)>>] ELSE s.style[q]]]

NewColumns(f, old) == {f[k] : k \in Captions \ old}
TitleStyle(s, h, f, old) ==
    LET place == NewColumns(f, old)
        others == {c \in 1..s.cols \ OursIn(f) : s.cell[<<h, c>>] # Empty}
        left == {c \in others : \A p \in place : c < p}
        right == {c \in others : \A p \in place : c > p}
    IN IF left # {} THEN Green(s.style[<<h, Last(left)>>])
       ELSE IF right # {} THEN Green(s.style[<<h, First(right)>>])
       ELSE "green"
Titled(s, h, f, old) ==
    [s EXCEPT
        !.cell = [q \in Grid(s.rows, s.cols) |->
            IF q[1] = h /\ q[2] \in OursIn(f) THEN Caption(KeyIn(f, q[2]))
                                              ELSE s.cell[q]],
        !.style = [q \in Grid(s.rows, s.cols) |->
            IF q[1] = h /\ q[2] \in NewColumns(f, old)
            THEN TitleStyle(s, h, f, old) ELSE s.style[q]],
        !.dims = s.dims \cup {OurDim(c) : c \in NewColumns(f, old)}]

StyledIn(s, h, f) ==
    {q \in Grid(s.rows, s.cols) :
        q[1] \in (h + 1)..(h + 20) /\ q[2] \notin OursIn(f) /\ s.style[q] # "none"}
TopOf(S) == First({q[1] : q \in S})
LeftOf(S) == First({q[2] : q \in {x \in S : x[1] = TopOf(S)}})
AnsweredAt(h, f, ans, q) == q[1] \in {r \in DOMAIN ans : r > h} /\ q[2] \in OursIn(f)
ValueAt(s, f, ans, q) ==
    IF KeyIn(f, q[2]) = CHECK_STATUS THEN s.cell[<<q[1], q[2]>>]
    ELSE IF KeyIn(f, q[2]) \in ans[q[1]] THEN Answer(KeyIn(f, q[2]), q[1])
    ELSE Empty
Answered(s, h, f, ans) ==
    [s EXCEPT
        !.cell = [q \in Grid(s.rows, s.cols) |->
            IF AnsweredAt(h, f, ans, q) THEN ValueAt(s, f, ans, q)
                                        ELSE s.cell[q]],
        !.style = [q \in Grid(s.rows, s.cols) |->
            IF AnsweredAt(h, f, ans, q) /\ StyledIn(s, h, f) # {}
            THEN s.style[<<TopOf(StyledIn(s, h, f)), LeftOf(StyledIn(s, h, f))>>]
            ELSE s.style[q]]]

\* What none of these steps changes.
Alike(s, d) ==
    /\ d.name = s.name /\ d.rows = s.rows /\ d.cols = s.cols
    /\ d.merges = s.merges /\ d.formats = s.formats
    /\ d.filter = s.filter /\ d.pane = s.pane

With(s, cell, style, dims) ==
    [s EXCEPT !.cell = cell, !.style = style, !.dims = dims]

LEMMA SheetWith ==
  ASSUME NEW s, IsSheet(s),
         NEW cell, IsGrid(cell, s.rows, s.cols),
         NEW style, IsGrid(style, s.rows, s.cols),
         NEW dims \in SUBSET [min : Nat, max : Nat, width : Widths],
         NEW d, d = With(s, cell, style, dims)
  PROVE  /\ IsSheet(d) /\ Alike(s, d)
         /\ d.cell = cell /\ d.style = style /\ d.dims = dims
<1>1. /\ s = SheetOf(s.name, s.rows, s.cols, s.cell, s.style, s.merges,
                     s.formats, s.filter, s.pane, s.dims)
      /\ s.rows \in Nat /\ s.cols \in Nat /\ s.pane \in Nat
      /\ s.merges \in SUBSET Ranges /\ s.formats \in SUBSET Ranges
      /\ s.filter \in Ranges
  BY PartsOfSheet
<1>2. d = SheetOf(s.name, s.rows, s.cols, cell, style, s.merges, s.formats,
                  s.filter, s.pane, dims)
  BY <1>1 DEF SheetOf, With
<1>3. IsSheet(d)
  BY <1>1, <1>2, SheetFromParts, Zenon
<1>4. /\ Alike(s, d) /\ d.cell = cell /\ d.style = style /\ d.dims = dims
  BY <1>2 DEF SheetOf, Alike
<1> QED
  BY <1>3, <1>4

LEMMA CopyIs ==
  ASSUME NEW s, IsSheet(s), NEW d, d = Copy(s)
  PROVE  /\ IsSheet(d) /\ d.name = AUTOMATED_SHEET
         /\ d.rows = s.rows /\ d.cols = s.cols
         /\ d.cell = s.cell /\ d.style = s.style
         /\ d.merges = s.merges /\ d.formats = s.formats
         /\ d.filter = s.filter /\ d.pane = s.pane /\ d.dims = s.dims
<1>1. /\ s = SheetOf(s.name, s.rows, s.cols, s.cell, s.style, s.merges,
                     s.formats, s.filter, s.pane, s.dims)
      /\ s.rows \in Nat /\ s.cols \in Nat /\ s.pane \in Nat
      /\ IsGrid(s.cell, s.rows, s.cols) /\ IsGrid(s.style, s.rows, s.cols)
      /\ s.merges \in SUBSET Ranges /\ s.formats \in SUBSET Ranges
      /\ s.filter \in Ranges
      /\ s.dims \in SUBSET [min : Nat, max : Nat, width : Widths]
  BY PartsOfSheet
<1>2. d = SheetOf(AUTOMATED_SHEET, s.rows, s.cols, s.cell, s.style, s.merges,
                  s.formats, s.filter, s.pane, s.dims)
  BY <1>1 DEF SheetOf, Copy
<1>3. IsSheet(d)
  BY <1>1, <1>2, SheetFromParts, Zenon
<1> QED
  BY <1>2, <1>3 DEF SheetOf

LEMMA DressedIs ==
  ASSUME NEW s, IsSheet(s), NEW h, NEW p, NEW n, NEW d, d = Dressed(s, h, p, n)
  PROVE  /\ IsSheet(d) /\ Alike(s, d) /\ d.cell = s.cell /\ d.dims = s.dims
         /\ \A q \in Grid(s.rows, s.cols) :
               d.style[q] = IF DressedBy(s, h, p, n, Neighbour(s, p, n), q)
                            THEN s.style[<<q[1], Neighbour(s, p, n)>>]
                            ELSE s.style[q]
<1>1. /\ s = SheetOf(s.name, s.rows, s.cols, s.cell, s.style, s.merges,
                     s.formats, s.filter, s.pane, s.dims)
      /\ IsGrid(s.cell, s.rows, s.cols)
      /\ s.dims \in SUBSET [min : Nat, max : Nat, width : Widths]
  BY PartsOfSheet
<1>2. PICK style :
         style = [q \in Grid(s.rows, s.cols) |->
                    IF DressedBy(s, h, p, n, Neighbour(s, p, n), q)
                    THEN s.style[<<q[1], Neighbour(s, p, n)>>] ELSE s.style[q]]
  OBVIOUS
<1>3. IsGrid(style, s.rows, s.cols)
  BY <1>2 DEF IsGrid
<1>4. d = [s EXCEPT !.style = style]
  BY <1>2, Zenon DEF Dressed
<1>5. d = With(s, s.cell, style, s.dims)
  BY <1>1, <1>4 DEF SheetOf, With
<1>6. /\ IsSheet(d) /\ Alike(s, d) /\ d.cell = s.cell /\ d.style = style
      /\ d.dims = s.dims
  BY <1>1, <1>3, <1>5, SheetWith
<1> QED
  BY <1>2, <1>6

LEMMA TitledIs ==
  ASSUME NEW s, IsSheet(s), NEW h, NEW f, NEW old,
         \A k \in Captions : f[k] \in Nat, NEW d, d = Titled(s, h, f, old)
  PROVE  /\ IsSheet(d) /\ Alike(s, d)
         /\ d.dims = s.dims \cup {OurDim(c) : c \in NewColumns(f, old)}
         /\ \A q \in Grid(s.rows, s.cols) :
               /\ d.cell[q] = IF q[1] = h /\ q[2] \in OursIn(f)
                              THEN Caption(KeyIn(f, q[2])) ELSE s.cell[q]
               /\ d.style[q] = IF q[1] = h /\ q[2] \in NewColumns(f, old)
                               THEN TitleStyle(s, h, f, old) ELSE s.style[q]
<1>1. s.dims \in SUBSET [min : Nat, max : Nat, width : Widths]
  BY PartsOfSheet
<1>2. PICK cell, style, dims :
         /\ cell = [q \in Grid(s.rows, s.cols) |->
                      IF q[1] = h /\ q[2] \in OursIn(f)
                      THEN Caption(KeyIn(f, q[2])) ELSE s.cell[q]]
         /\ style = [q \in Grid(s.rows, s.cols) |->
                       IF q[1] = h /\ q[2] \in NewColumns(f, old)
                       THEN TitleStyle(s, h, f, old) ELSE s.style[q]]
         /\ dims = s.dims \cup {OurDim(c) : c \in NewColumns(f, old)}
  OBVIOUS
<1>3. IsGrid(cell, s.rows, s.cols)
  BY <1>2 DEF IsGrid
<1>4. IsGrid(style, s.rows, s.cols)
  BY <1>2 DEF IsGrid
<1>5. dims \in SUBSET [min : Nat, max : Nat, width : Widths]
  <2>1. \A c \in NewColumns(f, old) : c \in Nat
    BY DEF NewColumns
  <2>2. \A c \in Nat : OurDim(c) \in [min : Nat, max : Nat, width : Widths]
    <3>1. PICK w \in Widths : w = "ours"
      BY Zenon DEF Widths
    <3>2. \A c : OurDim(c) = [min |-> c, max |-> c, width |-> w]
      BY <3>1, Zenon DEF OurDim
    <3> QED
      BY <3>1, <3>2
  <2> QED
    BY <1>1, <1>2, <2>1, <2>2
<1>6. d = With(s, cell, style, dims)
  BY <1>2, Zenon DEF Titled, With
<1>7. /\ IsSheet(d) /\ Alike(s, d) /\ d.cell = cell /\ d.style = style
      /\ d.dims = dims
  BY <1>3, <1>4, <1>5, <1>6, SheetWith
<1> QED
  BY <1>2, <1>7

LEMMA AnsweredIs ==
  ASSUME NEW s, IsSheet(s), NEW h, NEW f, NEW ans,
         NEW d, d = Answered(s, h, f, ans)
  PROVE  /\ IsSheet(d) /\ Alike(s, d) /\ d.dims = s.dims
         /\ \A q \in Grid(s.rows, s.cols) :
               /\ d.cell[q] = IF AnsweredAt(h, f, ans, q)
                              THEN ValueAt(s, f, ans, q) ELSE s.cell[q]
               /\ d.style[q] =
                     IF AnsweredAt(h, f, ans, q) /\ StyledIn(s, h, f) # {}
                     THEN s.style[<<TopOf(StyledIn(s, h, f)),
                                    LeftOf(StyledIn(s, h, f))>>]
                     ELSE s.style[q]
<1>1. /\ s = SheetOf(s.name, s.rows, s.cols, s.cell, s.style, s.merges,
                     s.formats, s.filter, s.pane, s.dims)
      /\ s.dims \in SUBSET [min : Nat, max : Nat, width : Widths]
  BY PartsOfSheet
<1>2. PICK cell, style :
         /\ cell = [q \in Grid(s.rows, s.cols) |->
                      IF AnsweredAt(h, f, ans, q)
                      THEN ValueAt(s, f, ans, q) ELSE s.cell[q]]
         /\ style = [q \in Grid(s.rows, s.cols) |->
                       IF AnsweredAt(h, f, ans, q) /\ StyledIn(s, h, f) # {}
                       THEN s.style[<<TopOf(StyledIn(s, h, f)),
                                      LeftOf(StyledIn(s, h, f))>>]
                       ELSE s.style[q]]
  OBVIOUS
<1>3. IsGrid(cell, s.rows, s.cols)
  BY <1>2 DEF IsGrid
<1>4. IsGrid(style, s.rows, s.cols)
  BY <1>2 DEF IsGrid
<1>5. d = [s EXCEPT !.cell = cell, !.style = style]
  BY <1>2, Zenon DEF Answered
<1>6. d = With(s, cell, style, s.dims)
  BY <1>1, <1>5 DEF SheetOf, With
<1>7. /\ IsSheet(d) /\ Alike(s, d) /\ d.cell = cell /\ d.style = style
      /\ d.dims = s.dims
  BY <1>1, <1>3, <1>4, <1>6, SheetWith
<1> QED
  BY <1>2, <1>7

----------------------------------------------------------------------------
(* The automated sheet, step by step                                       *)

LEMMA MovedDimMin ==
  ASSUME NEW e \in [min : Nat, max : Nat, width : Widths],
         NEW p \in Nat, NEW n \in Nat
  PROVE  MovedDim(e, p, n).min = ImageAt(e.min, p, n)
<1>1. PICK m \in Nat : m = e.min
  OBVIOUS
<1>2. CASE n = 0
  BY <1>1, <1>2 DEF MovedDim, ImageAt
<1>3. CASE n # 0
  <2>1. MovedDim(e, p, n) = ShiftDim(e, p, n)
    BY <1>3 DEF MovedDim
  <2>2. PICK x : x = ShiftDim(e, p, n)
    OBVIOUS
  <2>3. x.min = IF e.min >= p THEN e.min + n ELSE e.min
    BY <2>2, DimMoves, Zenon
  <2> QED
    BY <1>1, <2>1, <2>2, <2>3 DEF ImageAt
<1> QED
  BY <1>2, <1>3

LEMMA ShiftedKeyed ==
  ASSUME NEW s, IsSheet(s), KeyedByColumn(s), NEW d,
         NEW p \in Nat, NEW n \in Nat, Shifted(s, d, p, n)
  PROVE  KeyedByColumn(d)
<1>1. s.dims \in SUBSET [min : Nat, max : Nat, width : Widths]
  BY PartsOfSheet
<1>2. \A e \in s.dims : /\ e.min \in Nat
                        /\ MovedDim(e, p, n).min = ImageAt(e.min, p, n)
  BY <1>1, MovedDimMin
<1>3. \A m \in Nat : ImageAt(m, p, n) \in Nat /\ ImageAt(m, p, n) \notin Block(p, n)
  BY DEF ImageAt, Block
<1>4. \A l, m \in Nat : ImageAt(l, p, n) = ImageAt(m, p, n) => l = m
  BY DEF ImageAt
<1>5. \A c : OurDim(c).min = c
  BY DEF OurDim
<1> SUFFICES ASSUME NEW x \in d.dims, NEW y \in d.dims, x.min = y.min
             PROVE  x = y
  BY DEF KeyedByColumn
<1>6. /\ \/ \E e \in s.dims : x = MovedDim(e, p, n)
         \/ \E c \in Block(p, n) : x = OurDim(c)
      /\ \/ \E e \in s.dims : y = MovedDim(e, p, n)
         \/ \E c \in Block(p, n) : y = OurDim(c)
  BY DEF Shifted
<1>7. CASE /\ \E e \in s.dims : x = MovedDim(e, p, n)
           /\ \E e \in s.dims : y = MovedDim(e, p, n)
  <2>1. PICK e \in s.dims : x = MovedDim(e, p, n)
    BY <1>7
  <2>2. PICK f \in s.dims : y = MovedDim(f, p, n)
    BY <1>7
  <2>3. e.min = f.min
    BY <1>2, <1>4, <2>1, <2>2
  <2> QED
    BY <2>1, <2>2, <2>3 DEF KeyedByColumn
<1>8. CASE /\ \E c \in Block(p, n) : x = OurDim(c)
           /\ \E c \in Block(p, n) : y = OurDim(c)
  BY <1>5, <1>8
<1>9. CASE /\ \E e \in s.dims : x = MovedDim(e, p, n)
           /\ \E c \in Block(p, n) : y = OurDim(c)
  BY <1>2, <1>3, <1>5, <1>9
<1>10. CASE /\ \E c \in Block(p, n) : x = OurDim(c)
            /\ \E e \in s.dims : y = MovedDim(e, p, n)
  BY <1>2, <1>3, <1>5, <1>10
<1> QED
  BY <1>6, <1>7, <1>8, <1>9, <1>10

LEMMA ShiftedLike ==
  ASSUME NEW s, NEW d, NEW p, NEW n, Shifted(s, d, p, n), NEW x, Alike(d, x),
         x.dims = d.dims
  PROVE  Shifted(s, x, p, n)
BY DEF Shifted, Alike

\* What every step leaves true of the sheet it works on.
Automating(s, d, p, n) ==
    /\ IsSheet(d) /\ KeyedByColumn(d) /\ d.name = AUTOMATED_SHEET
    /\ Shifted(s, d, p, n)

\* Above the captions the columns of the block look like the one beside them.
Band(s, d, h, p, n) ==
    Neighbour(d, p, n) >= 1 =>
       \A r \in 1..s.rows, c \in Block(p, n) :
          r < h => d.style[<<r, c>>] = d.style[<<r, Neighbour(d, p, n)>>]

IsWidened(s, d, p, n) ==
    /\ Automating(s, d, p, n)
    /\ \A r \in 1..s.rows, c \in 1..(s.cols + n) :
          /\ d.cell[<<r, c>>] = Prior(s, r, c, p, n)
          /\ c \in Block(p, n) => d.style[<<r, c>>] = "none"

IsBanded(s, d, h, p, n) ==
    /\ Automating(s, d, p, n)
    /\ \A r \in 1..s.rows, c \in 1..(s.cols + n) :
          d.cell[<<r, c>>] = Prior(s, r, c, p, n)
    /\ Band(s, d, h, p, n)

IsCaptioned(s, d, h, p, n, f) ==
    /\ Automating(s, d, p, n)
    /\ \A k \in Captions : d.cell[<<h, f[k]>>] = Caption(k)
    /\ \A r \in 1..s.rows, c \in 1..(s.cols + n) :
          ~(r = h /\ c \in OursIn(f)) =>
             d.cell[<<r, c>>] = Prior(s, r, c, p, n)
    /\ Band(s, d, h, p, n)

IsMade(s, d, h, p, n, f, ans) ==
    /\ Automating(s, d, p, n)
    /\ \A k \in Captions : d.cell[<<h, f[k]>>] = Caption(k)
    /\ \A r \in DOMAIN ans, k \in Captions \ {CHECK_STATUS} :
          d.cell[<<r, f[k]>>] = IF k \in ans[r] THEN Answer(k, r) ELSE Empty
    /\ \A r \in 1..s.rows, c \in 1..(s.cols + n) :
          (c \in OursIn(f) => /\ r # h
                              /\ r \in DOMAIN ans => c = f[CHECK_STATUS]) =>
             d.cell[<<r, c>>] = Prior(s, r, c, p, n)
    /\ Band(s, d, h, p, n)

LEMMA KeyIs ==
  ASSUME NEW s, NEW h, NEW p, NEW n, NEW f, NEW old, Placed(s, h, p, n, f, old),
         NEW k \in Captions
  PROVE  f[k] \in OursIn(f) /\ KeyIn(f, f[k]) = k
<1>1. \A l \in Captions : f[l] = f[k] => l = k
  BY DEF Placed
<1> QED
  BY <1>1 DEF OursIn, KeyIn

LEMMA Bands ==
  ASSUME NEW s, IsSheet(s), NEW p \in 1..(s.cols + 1), NEW n \in Nat, NEW h,
         NEW a, IsWidened(s, a, p, n), NEW d, d = Dressed(a, h, p, n)
  PROVE  IsBanded(s, d, h, p, n)
<1>1. PICK w \in Nat : w = s.cols
  BY PartsOfSheet
<1>2. /\ IsSheet(a) /\ Shifted(s, a, p, n) /\ a.rows = s.rows /\ a.cols = w + n
      /\ KeyedByColumn(a) /\ a.name = AUTOMATED_SHEET
  BY <1>1 DEF IsWidened, Automating, Shifted
<1>3. PICK nb : nb = Neighbour(a, p, n)
  OBVIOUS
<1>4. /\ IsSheet(d) /\ Alike(a, d) /\ d.cell = a.cell /\ d.dims = a.dims
      /\ \A q \in Grid(a.rows, a.cols) :
            d.style[q] = IF DressedBy(a, h, p, n, nb, q)
                         THEN a.style[<<q[1], nb>>] ELSE a.style[q]
  BY <1>2, <1>3, DressedIs
<1>5. Automating(s, d, p, n)
  <2>1. Shifted(s, d, p, n)
    BY <1>2, <1>4, ShiftedLike
  <2>2. KeyedByColumn(d) /\ d.name = AUTOMATED_SHEET
    BY <1>2, <1>4 DEF KeyedByColumn, Alike
  <2> QED
    BY <1>4, <2>1, <2>2 DEF Automating
<1>6. \A r \in 1..s.rows, c \in 1..(s.cols + n) :
         d.cell[<<r, c>>] = Prior(s, r, c, p, n)
  BY <1>4 DEF IsWidened
<1>7. nb \in 0..(w + n) /\ nb \notin Block(p, n)
  BY <1>1, <1>2, <1>3 DEF Neighbour, Block
<1>8. Neighbour(d, p, n) = nb
  BY <1>3, <1>4 DEF Neighbour, Alike
<1>9. ASSUME nb >= 1, NEW r \in 1..s.rows, NEW c \in Block(p, n), r < h
      PROVE  d.style[<<r, c>>] = d.style[<<r, nb>>]
  <2>1. c \in 1..(w + n)
    BY <1>1 DEF Block
  <2>2. a.style[<<r, c>>] = "none"
    BY <1>1, <1>9, <2>1 DEF IsWidened
  <2>3. <<r, c>> \in Grid(a.rows, a.cols) /\ <<r, nb>> \in Grid(a.rows, a.cols)
    BY <1>2, <1>7, <1>9, <2>1 DEF Grid
  <2>4. ~DressedBy(a, h, p, n, nb, <<r, nb>>)
    BY <1>7 DEF DressedBy, Block
  <2>5. d.style[<<r, nb>>] = a.style[<<r, nb>>]
    BY <1>4, <2>3, <2>4
  <2>6. DressedBy(a, h, p, n, nb, <<r, c>>) <=> a.style[<<r, nb>>] # "none"
    BY <1>9 DEF DressedBy, Block
  <2>7. d.style[<<r, c>>] = IF DressedBy(a, h, p, n, nb, <<r, c>>)
                            THEN a.style[<<r, nb>>] ELSE a.style[<<r, c>>]
    BY <1>4, <2>3
  <2> QED
    BY <2>2, <2>5, <2>6, <2>7
<1>10. Band(s, d, h, p, n)
  BY <1>8, <1>9 DEF Band
<1> QED
  BY <1>5, <1>6, <1>10 DEF IsBanded

LEMMA BandStays ==
  ASSUME NEW s, s.rows \in Nat, s.cols \in Nat, NEW h,
         NEW p \in 1..(s.cols + 1), NEW n \in Nat,
         NEW b, b.rows = s.rows, b.cols = s.cols + n, Band(s, b, h, p, n),
         NEW d, d.cols = b.cols,
         \A r \in 1..s.rows, c \in 1..(s.cols + n) :
            r < h => d.style[<<r, c>>] = b.style[<<r, c>>]
  PROVE  Band(s, d, h, p, n)
<1>1. PICK w \in Nat : w = s.cols
  OBVIOUS
<1>2. PICK nb : nb = Neighbour(b, p, n)
  OBVIOUS
<1>3. nb \in 0..(w + n) /\ Neighbour(d, p, n) = nb
  BY <1>1, <1>2 DEF Neighbour
<1>4. \A c \in Block(p, n) : c \in 1..(w + n)
  BY <1>1 DEF Block
<1> SUFFICES ASSUME nb >= 1, NEW r \in 1..s.rows, NEW c \in Block(p, n), r < h
             PROVE  d.style[<<r, c>>] = d.style[<<r, nb>>]
  BY <1>3 DEF Band
<1>5. b.style[<<r, c>>] = b.style[<<r, nb>>]
  BY <1>2 DEF Band
<1>6. d.style[<<r, c>>] = b.style[<<r, c>>]
  BY <1>1, <1>4
<1>7. nb \in 1..(s.cols + n)
  BY <1>1, <1>3
<1>8. d.style[<<r, nb>>] = b.style[<<r, nb>>]
  BY <1>7
<1> QED
  BY <1>5, <1>6, <1>8

LEMMA CaptionsGo ==
  ASSUME NEW s, IsSheet(s), KeyedByColumn(s), NEW h \in 1..s.rows,
         NEW p, NEW n, NEW f, NEW old, Placed(s, h, p, n, f, old),
         NEW b, IsBanded(s, b, h, p, n), NEW d, d = Titled(b, h, f, old)
  PROVE  IsCaptioned(s, d, h, p, n, f)
<1>1. PICK w \in Nat : w = s.cols
  BY PartsOfSheet
<1>2. /\ p \in 1..(w + 1) /\ n \in Nat /\ s.rows \in Nat
      /\ \A k \in Captions : f[k] \in 1..(w + n)
      /\ \A k \in Captions \ old : f[k] \in Block(p, n)
  BY <1>1, PartsOfSheet DEF Placed
<1>3. /\ IsSheet(b) /\ Shifted(s, b, p, n) /\ b.rows = s.rows /\ b.cols = w + n
      /\ KeyedByColumn(b) /\ b.name = AUTOMATED_SHEET
  BY <1>1 DEF IsBanded, Automating, Shifted
<1>4. /\ IsSheet(d) /\ Alike(b, d)
      /\ d.dims = b.dims \cup {OurDim(c) : c \in NewColumns(f, old)}
      /\ \A q \in Grid(b.rows, b.cols) :
            /\ d.cell[q] = IF q[1] = h /\ q[2] \in OursIn(f)
                           THEN Caption(KeyIn(f, q[2])) ELSE b.cell[q]
            /\ d.style[q] = IF q[1] = h /\ q[2] \in NewColumns(f, old)
                            THEN TitleStyle(b, h, f, old) ELSE b.style[q]
  <2>1. \A k \in Captions : f[k] \in Nat
    BY <1>2
  <2> QED
    BY <1>3, <2>1, TitledIs
<1>5. Shifted(s, d, p, n)
  <2>1. \A c \in NewColumns(f, old) : c \in Block(p, n)
    BY <1>2 DEF NewColumns
  <2>2. \A e \in s.dims : MovedDim(e, p, n) \in d.dims
    BY <1>3, <1>4 DEF Shifted
  <2>3. \A x \in d.dims : \/ \E e \in s.dims : x = MovedDim(e, p, n)
                          \/ \E c \in Block(p, n) : x = OurDim(c)
    <3> TAKE x \in d.dims
    <3>1. CASE x \in b.dims
      BY <1>3, <3>1 DEF Shifted
    <3>2. CASE x \in {OurDim(c) : c \in NewColumns(f, old)}
      BY <2>1, <3>2
    <3> QED
      BY <1>4, <3>1, <3>2
  <2> QED
    BY <1>3, <1>4, <2>2, <2>3, Zenon DEF Shifted, Alike
<1>6. Automating(s, d, p, n)
  <2>1. KeyedByColumn(d)
    BY <1>2, <1>5, ShiftedKeyed
  <2> QED
    BY <1>3, <1>4, <1>5, <2>1 DEF Automating, Alike
<1>7. \A r \in 1..s.rows, c \in 1..(w + n) :
         /\ <<r, c>> \in Grid(b.rows, b.cols)
         /\ d.cell[<<r, c>>] = IF r = h /\ c \in OursIn(f)
                               THEN Caption(KeyIn(f, c)) ELSE b.cell[<<r, c>>]
         /\ d.style[<<r, c>>] = IF r = h /\ c \in NewColumns(f, old)
                                THEN TitleStyle(b, h, f, old)
                                ELSE b.style[<<r, c>>]
  <2> TAKE r \in 1..s.rows, c \in 1..(w + n)
  <2>1. <<r, c>> \in Grid(b.rows, b.cols)
    BY <1>3 DEF Grid
  <2> QED
    BY <1>4, <2>1
<1>8. \A k \in Captions : d.cell[<<h, f[k]>>] = Caption(k)
  <2> TAKE k \in Captions
  <2>1. f[k] \in OursIn(f) /\ KeyIn(f, f[k]) = k
    BY KeyIs
  <2> QED
    BY <1>2, <1>7, <2>1
<1>9. \A r \in 1..s.rows, c \in 1..(s.cols + n) :
         ~(r = h /\ c \in OursIn(f)) => d.cell[<<r, c>>] = Prior(s, r, c, p, n)
  BY <1>1, <1>7 DEF IsBanded
<1>10. Band(s, d, h, p, n)
  <2>1. \A r \in 1..s.rows, c \in 1..(s.cols + n) :
           r < h => d.style[<<r, c>>] = b.style[<<r, c>>]
    BY <1>1, <1>2, <1>7
  <2>2. /\ s.cols \in Nat /\ p \in 1..(s.cols + 1) /\ b.cols = s.cols + n
        /\ d.cols = b.cols
    BY <1>1, <1>2, <1>3, <1>4 DEF Alike
  <2>3. Band(s, b, h, p, n)
    BY DEF IsBanded
  <2> QED
    BY <1>2, <1>3, <2>1, <2>2, <2>3, BandStays
<1> QED
  BY <1>6, <1>8, <1>9, <1>10 DEF IsCaptioned

LEMMA AnswersGo ==
  ASSUME NEW s, IsSheet(s), NEW h \in 1..s.rows,
         NEW p, NEW n, NEW f, NEW old, Placed(s, h, p, n, f, old),
         NEW ans, \A r \in DOMAIN ans : r \in (h + 1)..s.rows,
         NEW b, IsCaptioned(s, b, h, p, n, f), NEW d, d = Answered(b, h, f, ans)
  PROVE  IsMade(s, d, h, p, n, f, ans)
<1>1. PICK w \in Nat : w = s.cols
  BY PartsOfSheet
<1>2. /\ p \in 1..(w + 1) /\ n \in Nat /\ s.rows \in Nat
      /\ \A k \in Captions : f[k] \in 1..(w + n)
      /\ \A k, l \in Captions : f[k] = f[l] => k = l
  BY <1>1, PartsOfSheet DEF Placed
<1>3. /\ IsSheet(b) /\ Shifted(s, b, p, n) /\ b.rows = s.rows /\ b.cols = w + n
      /\ KeyedByColumn(b) /\ b.name = AUTOMATED_SHEET
  BY <1>1 DEF IsCaptioned, Automating, Shifted
<1>4. /\ IsSheet(d) /\ Alike(b, d) /\ d.dims = b.dims
      /\ \A q \in Grid(b.rows, b.cols) :
            /\ d.cell[q] = IF AnsweredAt(h, f, ans, q)
                           THEN ValueAt(b, f, ans, q) ELSE b.cell[q]
            /\ AnsweredAt(h, f, ans, q) \/ d.style[q] = b.style[q]
  <2>1. PICK x : x = b.style[<<TopOf(StyledIn(b, h, f)),
                               LeftOf(StyledIn(b, h, f))>>]
    OBVIOUS
  <2>2. /\ IsSheet(d) /\ Alike(b, d) /\ d.dims = b.dims
        /\ \A q \in Grid(b.rows, b.cols) :
              /\ d.cell[q] = IF AnsweredAt(h, f, ans, q)
                             THEN ValueAt(b, f, ans, q) ELSE b.cell[q]
              /\ d.style[q] =
                    IF AnsweredAt(h, f, ans, q) /\ StyledIn(b, h, f) # {}
                    THEN x ELSE b.style[q]
    BY <1>3, <2>1, AnsweredIs
  <2> QED
    BY <2>2
<1>5. Automating(s, d, p, n)
  <2>1. Shifted(s, d, p, n)
    BY <1>3, <1>4, ShiftedLike
  <2>2. KeyedByColumn(d) /\ d.name = AUTOMATED_SHEET
    BY <1>3, <1>4 DEF KeyedByColumn, Alike
  <2> QED
    BY <1>4, <2>1, <2>2 DEF Automating
<1>6. \A r \in 1..s.rows, c \in 1..(w + n) : <<r, c>> \in Grid(b.rows, b.cols)
  BY <1>3 DEF Grid
<1>7. \A r, c : AnsweredAt(h, f, ans, <<r, c>>) <=>
                   r \in DOMAIN ans /\ c \in OursIn(f)
  BY <1>2 DEF AnsweredAt
<1>8. \A r \in 1..s.rows, c \in 1..(w + n) :
         ~(r \in DOMAIN ans /\ c \in OursIn(f)) =>
            /\ d.cell[<<r, c>>] = b.cell[<<r, c>>]
            /\ d.style[<<r, c>>] = b.style[<<r, c>>]
  BY <1>4, <1>6, <1>7
<1>9. \A r \in DOMAIN ans, k \in Captions :
         d.cell[<<r, f[k]>>] = IF k = CHECK_STATUS THEN b.cell[<<r, f[k]>>]
                               ELSE IF k \in ans[r] THEN Answer(k, r) ELSE Empty
  <2> TAKE r \in DOMAIN ans, k \in Captions
  <2>1. f[k] \in OursIn(f) /\ KeyIn(f, f[k]) = k
    BY KeyIs
  <2>2. r \in 1..s.rows /\ f[k] \in 1..(w + n)
    BY <1>2
  <2>3. d.cell[<<r, f[k]>>] = ValueAt(b, f, ans, <<r, f[k]>>)
    BY <1>4, <1>6, <1>7, <2>1, <2>2
  <2>4. PICK c : c = f[k]
    OBVIOUS
  <2>5. ValueAt(b, f, ans, <<r, c>>) =
           IF k = CHECK_STATUS THEN b.cell[<<r, c>>]
           ELSE IF k \in ans[r] THEN Answer(k, r) ELSE Empty
    <3>1. KeyIn(f, c) = k
      BY <2>1, <2>4
    <3> QED
      BY <3>1 DEF ValueAt
  <2> QED
    BY <2>3, <2>4, <2>5
<1>10. \A k \in Captions : d.cell[<<h, f[k]>>] = Caption(k)
  <2> TAKE k \in Captions
  <2>1. h \notin DOMAIN ans
    BY <1>2
  <2>2. d.cell[<<h, f[k]>>] = b.cell[<<h, f[k]>>]
    BY <1>2, <1>8, <2>1
  <2> QED
    BY <2>2 DEF IsCaptioned
<1>11. ASSUME NEW r \in 1..s.rows, NEW c \in 1..(w + n),
              c \in OursIn(f) => /\ r # h
                                 /\ r \in DOMAIN ans => c = f[CHECK_STATUS]
       PROVE  d.cell[<<r, c>>] = Prior(s, r, c, p, n)
  <2>1. b.cell[<<r, c>>] = Prior(s, r, c, p, n)
    BY <1>1, <1>11 DEF IsCaptioned
  <2>2. d.cell[<<r, c>>] = b.cell[<<r, c>>]
    <3>1. CASE ~(r \in DOMAIN ans /\ c \in OursIn(f))
      BY <1>8, <3>1
    <3>2. CASE r \in DOMAIN ans /\ c \in OursIn(f)
      <4>1. CHECK_STATUS \in Captions /\ c = f[CHECK_STATUS]
        BY <1>11, <3>2, OutputAssumption
      <4> QED
        BY <1>9, <3>2, <4>1
    <3> QED
      BY <3>1, <3>2
  <2> QED
    BY <2>1, <2>2
<1>12. Band(s, d, h, p, n)
  <2>1. \A r \in 1..s.rows, c \in 1..(s.cols + n) :
           r < h => d.style[<<r, c>>] = b.style[<<r, c>>]
    <3> TAKE r \in 1..s.rows, c \in 1..(s.cols + n)
    <3> HAVE r < h
    <3>1. r \notin DOMAIN ans
      BY <1>2
    <3> QED
      BY <1>1, <1>8, <3>1
  <2>2. /\ s.cols \in Nat /\ p \in 1..(s.cols + 1) /\ b.cols = s.cols + n
        /\ d.cols = b.cols
    BY <1>1, <1>2, <1>3, <1>4 DEF Alike
  <2>3. Band(s, b, h, p, n)
    BY DEF IsCaptioned
  <2> QED
    BY <1>2, <1>3, <2>1, <2>2, <2>3, BandStays
<1>13. \A r \in DOMAIN ans, k \in Captions \ {CHECK_STATUS} :
          d.cell[<<r, f[k]>>] = IF k \in ans[r] THEN Answer(k, r) ELSE Empty
  BY <1>9
<1> QED
  BY <1>1, <1>5, <1>10, <1>11, <1>12, <1>13 DEF IsMade

PointOf(s, h) == PointIn(Copy(s), h)
NewOf(s, h) == NewIn(Copy(s), h)
ColumnsOf(s, h) == ColumnsIn(Copy(s), h)
OldOf(s, h) == OldIn(Copy(s), h)

Widened(s, h) == InsertColumns(Copy(s), PointOf(s, h), NewOf(s, h))
Banded(s, h) == Dressed(Widened(s, h), h, PointOf(s, h), NewOf(s, h))
Captioned(s, h) == Titled(Banded(s, h), h, ColumnsOf(s, h), OldOf(s, h))
Made(s, h, ans) == Answered(Captioned(s, h), h, ColumnsOf(s, h), ans)

LEMMA Widens ==
  ASSUME NEW s, IsSheet(s), KeyedByColumn(s), NEW h \in 1..s.rows
  PROVE  /\ Placed(s, h, PointOf(s, h), NewOf(s, h), ColumnsOf(s, h), OldOf(s, h))
         /\ IsWidened(s, Widened(s, h), PointOf(s, h), NewOf(s, h))
<1>1. PICK c : c = Copy(s)
  OBVIOUS
<1>2. /\ IsSheet(c) /\ c.name = AUTOMATED_SHEET
      /\ c.rows = s.rows /\ c.cols = s.cols /\ c.cell = s.cell
      /\ c.style = s.style /\ c.merges = s.merges /\ c.formats = s.formats
      /\ c.filter = s.filter /\ c.pane = s.pane /\ c.dims = s.dims
  BY <1>1, CopyIs
<1>3. KeyedByColumn(c)
  BY <1>2 DEF KeyedByColumn
<1>4. PICK p, n, f, old :
         /\ p = PointOf(s, h) /\ n = NewOf(s, h)
         /\ f = ColumnsOf(s, h) /\ old = OldOf(s, h)
  OBVIOUS
<1>5. Placed(c, h, p, n, f, old)
  <2>1. Placed(c, h, PointIn(c, h), NewIn(c, h), ColumnsIn(c, h), OldIn(c, h))
    BY <1>2, <1>3, ColumnsPlaced
  <2> QED
    BY <1>1, <1>4, <2>1, Zenon DEF PointOf, NewOf, ColumnsOf, OldOf
<1>6. Placed(s, h, p, n, f, old)
  <2>1. \A k : Holding(c, h, k) = Holding(s, h, k)
    BY <1>2 DEF Holding
  <2> QED
    BY <1>2, <1>5, <2>1 DEF Placed
<1>7. PICK a : a = InsertColumns(c, p, n)
  OBVIOUS
<1>8. /\ IsSheet(a) /\ KeyedByColumn(a) /\ a.name = c.name
      /\ Shifted(c, a, p, n)
      /\ \A r \in 1..c.rows, b \in 1..(c.cols + n) :
            /\ a.cell[<<r, b>>] = Prior(c, r, b, p, n)
            /\ b \in Block(p, n) => a.style[<<r, b>>] = "none"
  <2>1. /\ p \in Nat /\ p > 0 /\ p <= c.cols + 1 /\ n \in Nat
    <3>1. c.cols \in Nat
      BY <1>2, PartsOfSheet
    <3> QED
      BY <1>5, <3>1 DEF Placed
  <2> QED
    BY <1>2, <1>3, <1>7, <2>1, InsertColumnsIs
<1>9. Shifted(s, a, p, n)
  BY <1>2, <1>8 DEF Shifted
<1>10. \A r, b : Prior(c, r, b, p, n) = Prior(s, r, b, p, n)
  BY <1>2 DEF Prior
<1>11. IsWidened(s, a, p, n)
  BY <1>2, <1>8, <1>9, <1>10 DEF IsWidened, Automating
<1>12. a = Widened(s, h)
  BY <1>1, <1>4, <1>7, Zenon DEF Widened
<1> QED
  BY <1>4, <1>6, <1>11, <1>12

LEMMA Makes ==
  ASSUME NEW s, IsSheet(s), KeyedByColumn(s), NEW h \in 1..s.rows
  PROVE  /\ IsBanded(s, Banded(s, h), h, PointOf(s, h), NewOf(s, h))
         /\ IsCaptioned(s, Captioned(s, h), h, PointOf(s, h), NewOf(s, h),
                        ColumnsOf(s, h))
         /\ \A ans : (\A r \in DOMAIN ans : r \in (h + 1)..s.rows) =>
               IsMade(s, Made(s, h, ans), h, PointOf(s, h), NewOf(s, h),
                      ColumnsOf(s, h), ans)
<1>1. PICK p, n, f, old :
         /\ p = PointOf(s, h) /\ n = NewOf(s, h)
         /\ f = ColumnsOf(s, h) /\ old = OldOf(s, h)
  OBVIOUS
<1>2. PICK a : a = Widened(s, h)
  OBVIOUS
<1>3. Placed(s, h, p, n, f, old) /\ IsWidened(s, a, p, n)
  BY <1>1, <1>2, Widens
<1>4. PICK b : b = Dressed(a, h, p, n)
  OBVIOUS
<1>5. IsBanded(s, b, h, p, n)
  <2>1. p \in 1..(s.cols + 1) /\ n \in Nat
    BY <1>3 DEF Placed
  <2> QED
    BY <1>3, <1>4, <2>1, Bands
<1>6. PICK c : c = Titled(b, h, f, old)
  OBVIOUS
<1>7. IsCaptioned(s, c, h, p, n, f)
  BY <1>3, <1>5, <1>6, CaptionsGo
<1>8. ASSUME NEW ans, \A r \in DOMAIN ans : r \in (h + 1)..s.rows
      PROVE  IsMade(s, Answered(c, h, f, ans), h, p, n, f, ans)
  <2>1. PICK d : d = Answered(c, h, f, ans)
    OBVIOUS
  <2>2. IsMade(s, d, h, p, n, f, ans)
    BY <1>3, <1>7, <1>8, <2>1, AnswersGo
  <2> QED
    BY <2>1, <2>2
<1>9. b = Banded(s, h) /\ c = Captioned(s, h)
  BY <1>1, <1>2, <1>4, <1>6, Zenon DEF Banded, Captioned
<1>10. \A ans : Answered(c, h, f, ans) = Made(s, h, ans)
  BY <1>1, <1>9, Zenon DEF Made
<1> QED
  BY <1>1, <1>5, <1>7, <1>8, <1>9, <1>10

----------------------------------------------------------------------------
(* Reading the automated sheet by its captions                             *)

ReadsBack(s, d, h, p, n, f, old, ans) ==
    /\ DetectHeaderRow(d) = h
    /\ \A k \in Captions :
          Holding(d, h, k) # {} /\ First(Holding(d, h, k)) = f[k]
    /\ \A r \in (h + 1)..d.rows, k \in Captions :
          d.cell[<<r, f[k]>>] =
             IF k = CHECK_STATUS \/ r \notin DOMAIN ans
             THEN IF k \in old THEN s.cell[<<r, First(Holding(s, h, k))>>]
                               ELSE Empty
             ELSE IF k \in ans[r] THEN Answer(k, r) ELSE Empty
    /\ \A r \in 1..s.rows, c \in 1..s.cols :
          ImageAt(c, p, n) \notin OursIn(f) =>
             d.cell[<<r, ImageAt(c, p, n)>>] = s.cell[<<r, c>>]

LEMMA PriorAtImage ==
  ASSUME NEW s, NEW r, NEW c \in Nat, NEW p \in Nat, NEW n \in Nat
  PROVE  Prior(s, r, ImageAt(c, p, n), p, n) = s.cell[<<r, c>>]
<1>1. CASE c < p
  BY <1>1 DEF Prior, ImageAt
<1>2. CASE ~(c < p)
  <2>1. ~(c + n < p) /\ ~(c + n < p + n) /\ (c + n) - n = c
    BY <1>2
  <2> QED
    BY <1>2, <2>1 DEF Prior, ImageAt
<1> QED
  BY <1>1, <1>2

LEMMA PriorInBlock ==
  ASSUME NEW s, NEW r, NEW p \in Nat, NEW n \in Nat, NEW c \in Block(p, n)
  PROVE  Prior(s, r, c, p, n) = Empty
BY DEF Prior, Block

\* Where there is a text, it came from the sheet.
CameFrom(s, r, c, w, p, n) ==
    \E b \in 1..w : /\ c = ImageAt(b, p, n)
                    /\ s.cell[<<r, b>>] = Prior(s, r, c, p, n)

LEMMA PriorFrom ==
  ASSUME NEW s, NEW r, NEW w \in Nat, NEW p \in 1..(w + 1), NEW n \in Nat,
         NEW c \in 1..(w + n), Prior(s, r, c, p, n) # Empty
  PROVE  CameFrom(s, r, c, w, p, n)
<1> USE DEF CameFrom
<1>1. CASE c < p
  BY <1>1 DEF Prior, ImageAt
<1>2. CASE ~(c < p) /\ c < p + n
  BY <1>2 DEF Prior
<1>3. CASE ~(c < p) /\ ~(c < p + n)
  <2>1. c - n \in 1..w /\ c = ImageAt(c - n, p, n)
    BY <1>3 DEF ImageAt
  <2> QED
    BY <1>3, <2>1 DEF Prior
<1> QED
  BY <1>1, <1>2, <1>3

LEMMA MadeReadsBack ==
  ASSUME NEW s, IsSheet(s), s.rows > 0, NEW h, h = DetectHeaderRow(s),
         NEW p, NEW n, NEW f, NEW old, Placed(s, h, p, n, f, old),
         NEW ans, \A r \in DOMAIN ans : r \in (h + 1)..s.rows,
         NEW d, IsMade(s, d, h, p, n, f, ans)
  PROVE  ReadsBack(s, d, h, p, n, f, old, ans)
<1>1. PICK w \in Nat : w = s.cols
  BY PartsOfSheet
<1>2. /\ p \in 1..(w + 1) /\ p \in Nat /\ n \in Nat /\ s.rows \in Nat
      /\ \A k \in Captions : f[k] \in 1..(w + n)
      /\ \A k, l \in Captions : f[k] = f[l] => k = l
      /\ \A k \in Captions \ old : Holding(s, h, k) = {} /\ f[k] \in Block(p, n)
      /\ old \subseteq Captions
      /\ d.rows = s.rows /\ d.cols = w + n
  BY <1>1, PartsOfSheet DEF Placed, IsMade, Automating, Shifted
<1>3. h \in 1..s.rows /\ h \in Nat
  <2>1. TopRow(s, h)
    BY <1>2, HeaderIsTop
  <2> QED
    BY <1>2, <2>1 DEF TopRow
<1>4. \A k \in old : /\ First(Holding(s, h, k)) \in 1..w
                     /\ s.cell[<<h, First(Holding(s, h, k))>>] = Caption(k)
                     /\ f[k] = ImageAt(First(Holding(s, h, k)), p, n)
                     /\ \A c \in Holding(s, h, k) : First(Holding(s, h, k)) <= c
  BY <1>1 DEF Placed, Holding
<1>5. \A r \in 1..s.rows, c \in 1..(w + n) :
         (c \in OursIn(f) => /\ r # h
                             /\ r \in DOMAIN ans => c = f[CHECK_STATUS]) =>
            d.cell[<<r, c>>] = Prior(s, r, c, p, n)
  BY <1>1 DEF IsMade
<1>6. \A k \in Captions : d.cell[<<h, f[k]>>] = Caption(k)
  BY DEF IsMade
<1>7. \A b \in 1..w : ImageAt(b, p, n) \in 1..(w + n)
  BY <1>2 DEF ImageAt
<1>8. \A c \in OursIn(f) : \E k \in Captions : c = f[k]
  BY DEF OursIn
<1>a. n \in Nat /\ p \in Nat
  BY <1>2
<1>b. \A r : \A c \in Nat : Prior(s, r, ImageAt(c, p, n), p, n) = s.cell[<<r, c>>]
  BY <1>a, PriorAtImage
<1>c. \A r : \A c \in 1..(w + n) : Prior(s, r, c, p, n) # Empty =>
         \E b \in 1..w : /\ c = ImageAt(b, p, n)
                         /\ s.cell[<<r, b>>] = Prior(s, r, c, p, n)
  <2>1. \A r : \A c \in 1..(w + n) :
           Prior(s, r, c, p, n) # Empty => CameFrom(s, r, c, w, p, n)
    BY <1>2, PriorFrom
  <2> QED
    BY <2>1, Zenon DEF CameFrom
<1>e. ASSUME NEW k \in old, NEW r
      PROVE  Prior(s, r, f[k], p, n) = s.cell[<<r, First(Holding(s, h, k))>>]
  <2>1. PICK g \in 1..w : /\ g = First(Holding(s, h, k))
                          /\ f[k] = ImageAt(g, p, n)
    BY <1>4
  <2> QED
    BY <1>b, <2>1
<1>d. \A r : \A c \in Block(p, n) : Prior(s, r, c, p, n) = Empty
  BY <1>a, PriorInBlock
\* A caption in the header row of the copy is one of ours, or was there.
<1>9. ASSUME NEW c \in 1..(w + n), c \notin OursIn(f)
      PROVE  d.cell[<<h, c>>] = Prior(s, h, c, p, n)
  BY <1>3, <1>5, <1>9
<1>10. ASSUME NEW e \in QE_EXPECTED, Shows(s, h, e) PROVE Shows(d, h, e)
  <2>1. PICK b \in 1..w : s.cell[<<h, b>>] = Caption(e)
    BY <1>1, <1>10 DEF Shows
  <2>2. PICK c \in 1..(w + n) : c = ImageAt(b, p, n)
    BY <1>7
  <2>3. Prior(s, h, c, p, n) = Caption(e)
    BY <1>b, <2>1, <2>2
  <2>4. d.cell[<<h, c>>] = Caption(e)
    <3>1. CASE c \notin OursIn(f)
      BY <1>9, <2>3, <3>1
    <3>2. CASE c \in OursIn(f)
      <4>1. PICK k \in Captions : c = f[k]
        BY <1>8, <3>2
      <4>2. k \in old
        <5> SUFFICES ASSUME k \notin old PROVE FALSE
          OBVIOUS
        <5>1. c \in Block(p, n)
          BY <1>2, <4>1
        <5>2. Caption(e) = Empty
          BY <1>d, <2>3, <5>1
        <5> QED
          BY <5>2, TextsDiffer
      <4>3. Prior(s, h, c, p, n) = Caption(k)
        BY <1>e, <1>4, <4>1, <4>2
      <4> QED
        BY <1>6, <2>3, <4>1, <4>3
    <3> QED
      BY <3>1, <3>2
  <2> QED
    BY <1>2, <2>4 DEF Shows
<1>11. ASSUME NEW r \in 1..s.rows, NEW e \in QE_EXPECTED, r # h, Shows(d, r, e)
       PROVE  Shows(s, r, e)
  <2>1. PICK c \in 1..(w + n) : d.cell[<<r, c>>] = Caption(e)
    BY <1>2, <1>11 DEF Shows
  <2>2. Caption(e) # Empty
    BY TextsDiffer
  <2>3. d.cell[<<r, c>>] = Prior(s, r, c, p, n)
    <3> SUFFICES ASSUME c \in OursIn(f), r \in DOMAIN ans, c # f[CHECK_STATUS]
                 PROVE  FALSE
      BY <1>5, <1>11
    <3>1. PICK k \in Captions : c = f[k]
      BY <1>8
    <3>2. k \in Captions \ {CHECK_STATUS}
      BY <3>1
    <3>3. d.cell[<<r, c>>] = IF k \in ans[r] THEN Answer(k, r) ELSE Empty
      BY <3>1, <3>2 DEF IsMade
    <3>4. Answer(k, r) # Caption(e)
      BY TextsDiffer
    <3> QED
      BY <2>1, <2>2, <3>3, <3>4
  <2>4. PICK b \in 1..w : s.cell[<<r, b>>] = Prior(s, r, c, p, n)
    BY <1>c, <2>1, <2>2, <2>3
  <2> QED
    BY <1>1, <2>1, <2>3, <2>4 DEF Shows
<1>12. DetectHeaderRow(d) = h
  BY <1>2, <1>10, <1>11, HeaderStays
<1>13. ASSUME NEW k \in Captions
       PROVE  Holding(d, h, k) # {} /\ First(Holding(d, h, k)) = f[k]
  <2>1. PICK H : H = Holding(d, h, k)
    OBVIOUS
  <2>2. \A c : c \in H <=> c \in 1..(w + n) /\ d.cell[<<h, c>>] = Caption(k)
    BY <1>2, <2>1 DEF Holding
  <2>3. f[k] \in H /\ f[k] \in Nat
    <3>1. f[k] \in 1..(w + n)
      BY <1>2
    <3>2. f[k] \in H
      BY <1>6, <2>2, <3>1
    <3> QED
      BY <1>a, <3>1, <3>2
  <2>4. \A c \in H : f[k] <= c
    <3> TAKE c \in H
    <3>1. c \in 1..(w + n) /\ d.cell[<<h, c>>] = Caption(k)
      BY <2>2
    <3>2. CASE c \in OursIn(f)
      <4>1. PICK l \in Captions : c = f[l]
        BY <1>8, <3>2
      <4>2. l = k
        BY <1>6, <3>1, <4>1, TextsDiffer
      <4> QED
        BY <2>3, <4>1, <4>2
    <3>3. CASE c \notin OursIn(f)
      <4>1. Prior(s, h, c, p, n) = Caption(k) /\ Caption(k) # Empty
        BY <1>9, <3>1, <3>3, TextsDiffer
      <4>2. PICK b \in 1..w : /\ c = ImageAt(b, p, n)
                              /\ s.cell[<<h, b>>] = Caption(k)
        BY <1>c, <3>1, <4>1
      <4>3. b \in Holding(s, h, k)
        BY <1>1, <4>2 DEF Holding
      <4>4. k \in old
        BY <1>2, <4>3
      <4>5. PICK g \in 1..w : g = First(Holding(s, h, k)) /\ g <= b
        BY <1>4, <4>3, <4>4
      <4>6. f[k] = ImageAt(g, p, n)
        BY <1>4, <4>4, <4>5
      <4> QED
        BY <1>2, <4>2, <4>5, <4>6 DEF ImageAt
    <3> QED
      BY <3>2, <3>3
  <2>5. H # {} /\ \A c \in H : c \in Nat
    <3>1. \A c \in H : c \in 1..(w + n)
      BY <2>2
    <3> QED
      BY <1>a, <2>3, <3>1
  <2>6. PICK g \in H : g = First(H) /\ \A c \in H : g <= c
    BY <2>5, FirstIsLeast
  <2>7. f[k] <= g /\ g <= f[k] /\ g \in Nat
    BY <2>3, <2>4, <2>5, <2>6
  <2> QED
    BY <2>1, <2>3, <2>5, <2>6, <2>7
<1>14. ASSUME NEW r \in (h + 1)..d.rows, NEW k \in Captions
       PROVE  d.cell[<<r, f[k]>>] =
                 IF k = CHECK_STATUS \/ r \notin DOMAIN ans
                 THEN IF k \in old THEN s.cell[<<r, First(Holding(s, h, k))>>]
                                   ELSE Empty
                 ELSE IF k \in ans[r] THEN Answer(k, r) ELSE Empty
  <2>1. r \in 1..s.rows /\ r # h
    BY <1>2, <1>3
  <2>2. CASE k = CHECK_STATUS \/ r \notin DOMAIN ans
    <3>1. r \in DOMAIN ans => f[k] = f[CHECK_STATUS]
      BY <2>2
    <3>2. d.cell[<<r, f[k]>>] = Prior(s, r, f[k], p, n)
      BY <1>2, <1>5, <2>1, <3>1
    <3>3. CASE k \in old
      <4>1. Prior(s, r, f[k], p, n) = s.cell[<<r, First(Holding(s, h, k))>>]
        BY <1>e, <3>3
      <4> QED
        BY <2>2, <3>2, <3>3, <4>1
    <3>4. CASE k \notin old
      <4>1. Prior(s, r, f[k], p, n) = Empty
        BY <1>2, <1>d, <3>4
      <4> QED
        BY <2>2, <3>2, <3>4, <4>1
    <3> QED
      BY <3>3, <3>4
  <2>3. CASE ~(k = CHECK_STATUS \/ r \notin DOMAIN ans)
    <3>1. d.cell[<<r, f[k]>>] = IF k \in ans[r] THEN Answer(k, r) ELSE Empty
      BY <2>3 DEF IsMade
    <3> QED
      BY <2>3, <3>1
  <2> QED
    BY <2>2, <2>3
<1>15. ASSUME NEW r \in 1..s.rows, NEW c \in 1..w, ImageAt(c, p, n) \notin OursIn(f)
       PROVE  d.cell[<<r, ImageAt(c, p, n)>>] = s.cell[<<r, c>>]
  <2>1. d.cell[<<r, ImageAt(c, p, n)>>] = Prior(s, r, ImageAt(c, p, n), p, n)
    BY <1>5, <1>7, <1>15
  <2>2. Prior(s, r, ImageAt(c, p, n), p, n) = s.cell[<<r, c>>]
    BY <1>b
  <2> QED
    BY <2>1, <2>2
<1> QED
  BY <1>1, <1>12, <1>13, <1>14, <1>15 DEF ReadsBack

----------------------------------------------------------------------------
(* The extract                                                             *)

RemapIn(g, end, h) ==
    IF g.r2 <= h THEN g
    ELSE IF g.r1 > end \/ end <= h THEN NoRange
    ELSE [g EXCEPT !.r1 = IF g.r1 > h THEN g.r1 ELSE h + 1, !.r2 = end]

KeptIn(s, h, lat) == {r \in lat : h < r /\ r <= s.rows}
RowFrom(S, h, r) == IF r <= h THEN r ELSE Nth(S, r - h)
EndOf(s, h, lat) == h + Cardinality(KeptIn(s, h, lat))
Rows(g, s, h, lat) ==
    [q \in Grid(EndOf(s, h, lat), s.cols) |->
        g[<<RowFrom(KeptIn(s, h, lat), h, q[1]), q[2]>>]]
ExtractOf(s, h, lat) ==
    [s EXCEPT
       !.name = LATEST_REVISIONS_SHEET,
       !.rows = EndOf(s, h, lat),
       !.cell = Rows(s.cell, s, h, lat),
       !.style = Rows(s.style, s, h, lat),
       !.merges = {g \in s.merges : g.r2 <= h},
       !.formats = {},
       !.filter = IF s.filter = NoRange THEN s.filter
                  ELSE RemapIn(s.filter, EndOf(s, h, lat), h),
       !.dims = {[d EXCEPT !.max = d.min] : d \in s.dims}]

\* What LatestIsExtract says of the two added sheets.
IsExtract(d, l, h, lat) ==
    /\ l.rows = h + Cardinality(lat) /\ l.cols = d.cols
    /\ \A c \in 1..d.cols :
          /\ \A r \in 1..h : l.cell[<<r, c>>] = d.cell[<<r, c>>]
          /\ \A r \in lat :
                l.cell[<<h + Cardinality({q \in lat : q <= r}), c>>]
                   = d.cell[<<r, c>>]
    /\ l.filter # NoRange /\ d.filter.r2 > h => l.filter.r2 = l.rows

LEMMA RemapIs ==
  ASSUME NEW g \in Ranges, NEW end \in Nat, NEW h \in Nat
  PROVE  /\ RemapIn(g, end, h) \in Ranges
         /\ RemapIn(g, end, h) # NoRange /\ g.r2 > h =>
               RemapIn(g, end, h).r2 = end
<1>1. /\ g.c1 \in Nat /\ g.c2 \in Nat /\ g.r1 \in Nat /\ g.r2 \in Nat
      /\ g = [c1 |-> g.c1, c2 |-> g.c2, r1 |-> g.r1, r2 |-> g.r2]
  BY DEF Ranges
<1>2. NoRange \in Ranges
  BY DEF NoRange, Ranges
<1>3. PICK x : x = RemapIn(g, end, h)
  OBVIOUS
<1>4. CASE g.r2 <= h
  BY <1>1, <1>4 DEF RemapIn
<1>5. CASE ~(g.r2 <= h) /\ (g.r1 > end \/ end <= h)
  BY <1>2, <1>5 DEF RemapIn
<1>6. CASE ~(g.r2 <= h) /\ ~(g.r1 > end \/ end <= h)
  <2>1. PICK m \in Nat : m = IF g.r1 > h THEN g.r1 ELSE h + 1
    BY <1>1
  <2>2. x = [g EXCEPT !.r1 = m, !.r2 = end]
    BY <1>3, <1>6, <2>1 DEF RemapIn
  <2>3. x = [c1 |-> g.c1, c2 |-> g.c2, r1 |-> m, r2 |-> end]
    BY <1>1, <2>2
  <2>4. x \in Ranges /\ x.r2 = end
    BY <1>1, <2>3 DEF Ranges
  <2> QED
    BY <1>3, <2>4
<1> QED
  BY <1>4, <1>5, <1>6

LEMMA Extracts ==
  ASSUME NEW s, IsSheet(s), KeyedByColumn(s), NEW h \in Nat,
         NEW lat, \A r \in lat : r \in (h + 1)..s.rows,
         NEW l, l = ExtractOf(s, h, lat)
  PROVE  /\ IsSheet(l) /\ KeyedByColumn(l) /\ l.name = LATEST_REVISIONS_SHEET
         /\ IsExtract(s, l, h, lat)
<1>1. /\ s = SheetOf(s.name, s.rows, s.cols, s.cell, s.style, s.merges,
                     s.formats, s.filter, s.pane, s.dims)
      /\ s.rows \in Nat /\ s.cols \in Nat /\ s.pane \in Nat
      /\ s.merges \in SUBSET Ranges /\ s.formats \in SUBSET Ranges
      /\ s.filter \in Ranges
      /\ s.dims \in SUBSET [min : Nat, max : Nat, width : Widths]
  BY PartsOfSheet
<1>2. KeptIn(s, h, lat) = lat
  BY <1>1 DEF KeptIn
<1>3. \A r \in lat : r \in 1..s.rows
  BY <1>1
<1>4. PICK N \in Nat : N = Cardinality(lat)
  <2>1. Cardinality(lat) \in 0..s.rows
    BY <1>1, <1>3, UpTo
  <2> QED
    BY <2>1
<1>5. PICK end \in Nat : end = h + N
  OBVIOUS
<1>6. EndOf(s, h, lat) = end
  BY <1>2, <1>4, <1>5, Zenon DEF EndOf
<1>7. PICK cell, style, merges, filter, dims :
         /\ cell = Rows(s.cell, s, h, lat)
         /\ style = Rows(s.style, s, h, lat)
         /\ merges = {g \in s.merges : g.r2 <= h}
         /\ filter = IF s.filter = NoRange THEN s.filter
                     ELSE RemapIn(s.filter, end, h)
         /\ dims = {[d EXCEPT !.max = d.min] : d \in s.dims}
  OBVIOUS
<1>8. l = SheetOf(LATEST_REVISIONS_SHEET, end, s.cols, cell, style, merges, {},
                  filter, s.pane, dims)
  <2>1. l = [s EXCEPT !.name = LATEST_REVISIONS_SHEET, !.rows = end,
                      !.cell = cell, !.style = style, !.merges = merges,
                      !.formats = {}, !.filter = filter, !.dims = dims]
    BY <1>6, <1>7, Zenon DEF ExtractOf
  <2> QED
    BY <1>1, <2>1 DEF SheetOf
<1>9. /\ l.name = LATEST_REVISIONS_SHEET /\ l.rows = end /\ l.cols = s.cols
      /\ l.cell = cell /\ l.filter = filter /\ l.dims = dims
  BY <1>8 DEF SheetOf
<1>10. \A q \in Grid(end, s.cols) :
          cell[q] = s.cell[<<RowFrom(lat, h, q[1]), q[2]>>]
  BY <1>2, <1>6, <1>7 DEF Rows
<1>11. IsGrid(cell, end, s.cols) /\ IsGrid(style, end, s.cols)
  BY <1>6, <1>7 DEF IsGrid, Rows
<1>12. filter \in Ranges /\ (filter # NoRange /\ s.filter.r2 > h => filter.r2 = end)
  <2>1. NoRange.r2 = 0
    BY DEF NoRange
  <2>2. CASE s.filter = NoRange
    BY <1>1, <1>7, <2>1, <2>2
  <2>3. CASE s.filter # NoRange
    <3>1. filter = RemapIn(s.filter, end, h)
      BY <1>7, <2>3
    <3> QED
      BY <1>1, <3>1, RemapIs
  <2> QED
    BY <2>2, <2>3
<1>13. \A d \in s.dims : [d EXCEPT !.max = d.min] =
          [min |-> d.min, max |-> d.min, width |-> d.width]
  BY <1>1
<1>14. \A x \in dims : \E d \in s.dims :
          x = [min |-> d.min, max |-> d.min, width |-> d.width]
  BY <1>7, <1>13
<1>15. dims \in SUBSET [min : Nat, max : Nat, width : Widths]
  <2>1. \A d \in s.dims : d.min \in Nat /\ d.width \in Widths
    BY <1>1
  <2> QED
    BY <1>14, <2>1
<1>16. KeyedByColumn(l)
  <2> SUFFICES ASSUME NEW x \in dims, NEW y \in dims, x.min = y.min PROVE x = y
    BY <1>9 DEF KeyedByColumn
  <2>1. PICK d \in s.dims : x = [min |-> d.min, max |-> d.min, width |-> d.width]
    BY <1>14
  <2>2. PICK e \in s.dims : y = [min |-> e.min, max |-> e.min, width |-> e.width]
    BY <1>14
  <2>3. d = e
    BY <2>1, <2>2 DEF KeyedByColumn
  <2> QED
    BY <2>1, <2>2, <2>3
<1>17. IsSheet(l)
  <2>1. merges \in SUBSET Ranges /\ {} \in SUBSET Ranges
    BY <1>1, <1>7
  <2> QED
    BY <1>1, <1>8, <1>11, <1>12, <1>15, <2>1, SheetFromParts
<1>18. ASSUME NEW c \in 1..s.cols, NEW r \in 1..h
       PROVE  l.cell[<<r, c>>] = s.cell[<<r, c>>]
  <2>1. <<r, c>> \in Grid(end, s.cols)
    BY <1>5 DEF Grid
  <2>2. RowFrom(lat, h, r) = r
    BY DEF RowFrom
  <2> QED
    BY <1>9, <1>10, <2>1, <2>2
<1>19. ASSUME NEW c \in 1..s.cols, NEW r \in lat
       PROVE  l.cell[<<h + Cardinality({q \in lat : q <= r}), c>>] = s.cell[<<r, c>>]
  <2>1. Rank(lat, r) \in 1..Cardinality(lat) /\ Nth(lat, Rank(lat, r)) = r
    BY <1>1, <1>3, NthOfRank
  <2>2. PICK m \in 1..N : m = Rank(lat, r) /\ Nth(lat, m) = r
    BY <1>4, <2>1
  <2>3. PICK i \in (h + 1)..end : i = h + m /\ i - h = m
    BY <1>5
  <2>4. <<i, c>> \in Grid(end, s.cols) /\ ~(i <= h)
    BY <1>5 DEF Grid
  <2>5. RowFrom(lat, h, i) = r
    BY <2>2, <2>3, <2>4 DEF RowFrom
  <2>6. l.cell[<<i, c>>] = s.cell[<<r, c>>]
    BY <1>9, <1>10, <2>4, <2>5
  <2>7. i = h + Cardinality({q \in lat : q <= r})
    BY <2>2, <2>3 DEF Rank
  <2> QED
    BY <2>6, <2>7
<1>20. IsExtract(s, l, h, lat)
  BY <1>4, <1>5, <1>9, <1>12, <1>18, <1>19 DEF IsExtract
<1> QED
  BY <1>9, <1>16, <1>17, <1>20

----------------------------------------------------------------------------
(* One pass over the workbook                                              *)

Steps == {"open", "resolve", "dress", "headers", "rows", "latest", "save",
          "saved"}
Placing == {"dress", "headers", "rows", "latest", "save", "saved"}

\* The sheets a pass keeps, the sheet it makes, and the sheets it adds.
Rest == Without(upload, AUTOMATED_SHEET)
Result == Made(Source, header, answers)
Extract == ExtractOf(Result, header, latest)
Output == Append(Append(Own(upload), Result), Extract)

\* The upload is a workbook in which a sheet can be found, answers and latest
\* name data rows of that sheet.
UploadInv ==
    /\ IsBook(upload)
    /\ \A i \in 1..Len(upload) : IsSheet(upload[i]) /\ KeyedByColumn(upload[i])
    /\ Found(upload, FindSheet(upload)) /\ Steady(upload, FindSheet(upload))
    /\ Source.rows > 0
    /\ \A r \in DOMAIN answers : r \in DataRows(Source)
    /\ latest \subseteq DOMAIN answers

\* The workbook at every step is what the steps before made of the upload.
PassInv ==
    /\ step \in Steps
    /\ step # "open" => header = DetectHeaderRow(Source)
    /\ step \in Placing =>
          /\ at = PointOf(Source, header) /\ count = NewOf(Source, header)
          /\ columns = ColumnsOf(Source, header)
          /\ reused = OldOf(Source, header)
    /\ step = "resolve" => book = Append(Rest, Copy(Source))
    /\ step = "dress" => book = Append(Rest, Widened(Source, header))
    /\ step = "headers" => book = Append(Rest, Banded(Source, header))
    /\ step = "rows" => book = Append(Rest, Captioned(Source, header))
    /\ step = "latest" => book = Append(Rest, Result)
    /\ step \in {"save", "saved"} => book = Output
    /\ step = "saved" => saved = Output

CountInv ==
    /\ columns \in [Captions -> Nat]
    /\ reused \subseteq Captions
    /\ header \in Nat /\ at \in Nat /\ count \in Nat /\ written \in Nat
    /\ runs \in 0..MaxRuns
    /\ step # "saved" => runs < MaxRuns

SheetsInv ==
    \A b \in {book, saved} :
       \A i \in DOMAIN b : IsSheet(b[i]) /\ KeyedByColumn(b[i])

OutputInv == UploadInv /\ PassInv /\ CountInv /\ SheetsInv

LEMMA SourceFacts ==
  ASSUME UploadInv
  PROVE  /\ Source = upload[FindSheet(upload)]
         /\ IsSheet(Source) /\ KeyedByColumn(Source)
         /\ Source.rows \in Nat /\ Source.cols \in Nat
         /\ DetectHeaderRow(Source) \in 1..Source.rows
         /\ \A r \in DOMAIN answers :
               r \in (DetectHeaderRow(Source) + 1)..Source.rows
         /\ \A r \in latest :
               r \in (DetectHeaderRow(Source) + 1)..Source.rows
<1>1. Source = upload[FindSheet(upload)]
  BY Zenon DEF Source, Chosen
<1>2. FindSheet(upload) \in 1..Len(upload)
  BY DEF UploadInv, Found
<1>3. IsSheet(Source) /\ KeyedByColumn(Source)
  BY <1>1, <1>2 DEF UploadInv
<1>4. PICK s : s = Source
  OBVIOUS
<1>5. s.rows \in Nat /\ s.cols \in Nat
  BY <1>3, <1>4, PartsOfSheet
<1>6. s.rows > 0
  BY <1>4 DEF UploadInv
<1>7. DetectHeaderRow(s) \in 1..s.rows
  BY <1>5, <1>6, HeaderIsTop DEF TopRow
<1>8. \A r \in DOMAIN answers : r \in (DetectHeaderRow(s) + 1)..s.rows
  BY <1>4 DEF UploadInv, DataRows
<1>9. latest \subseteq DOMAIN answers
  BY DEF UploadInv
<1> QED
  BY <1>1, <1>3, <1>4, <1>5, <1>7, <1>8, <1>9

LEMMA RestIs ==
  ASSUME UploadInv
  PROVE  /\ IsBook(Rest)
         /\ \A i \in 1..Len(Rest) : IsSheet(Rest[i]) /\ KeyedByColumn(Rest[i])
<1>1. PICK w, b : w = Rest /\ b = upload
  OBVIOUS
<1>2. w = Without(b, AUTOMATED_SHEET)
  BY <1>1, Zenon DEF Rest
<1>3. IsBook(b) /\ \A i \in 1..Len(b) : IsSheet(b[i]) /\ KeyedByColumn(b[i])
  BY <1>1 DEF UploadInv
<1>4. PICK S : S = Others(b, AUTOMATED_SHEET)
  OBVIOUS
<1>5. IsBook(w) /\ \A n \in 1..Len(w) : Nth(S, n) \in S /\ w[n] = b[Nth(S, n)]
  BY <1>2, <1>3, <1>4, WithoutKeeps
<1>6. \A i \in S : i \in 1..Len(b)
  BY <1>4 DEF Others
<1> QED
  BY <1>1, <1>3, <1>5, <1>6

\* Appending a sheet to a workbook, and replacing its last sheet.
LEMMA LastSheet ==
  ASSUME NEW o, IsBook(o), NEW s, NEW t, NEW b, b = Append(o, s)
  PROVE  /\ b[Len(b)] = s
         /\ [b EXCEPT ![Len(b)] = t] = Append(o, t)
<1>1. PICK N \in Nat : N = Len(o)
  BY DEF IsBook
<1>2. /\ IsBook(b) /\ Len(b) = N + 1 /\ b[N + 1] = s
      /\ \A i \in 1..N : b[i] = o[i]
  BY <1>1, AppendIs
<1>3. PICK c : c = Append(o, t)
  OBVIOUS
<1>4. /\ IsBook(c) /\ Len(c) = N + 1 /\ c[N + 1] = t
      /\ \A i \in 1..N : c[i] = o[i]
  BY <1>1, <1>3, AppendIs
<1>5. b = [i \in 1..(N + 1) |-> b[i]] /\ c = [i \in 1..(N + 1) |-> c[i]]
  BY <1>2, <1>4 DEF IsBook
<1>6. PICK d : d = [b EXCEPT ![N + 1] = t]
  OBVIOUS
<1>7. d = [i \in 1..(N + 1) |-> IF i = N + 1 THEN t ELSE b[i]]
  BY <1>5, <1>6
<1>8. \A i \in 1..(N + 1) : d[i] = c[i]
  BY <1>1, <1>2, <1>4, <1>7
<1>9. d = c
  BY <1>5, <1>7, <1>8
<1>10. Len(b) = N + 1
  BY <1>2
<1> QED
  BY <1>2, <1>3, <1>6, <1>9, <1>10

LEMMA SheetsOfAppend ==
  ASSUME NEW o, IsBook(o),
         \A i \in 1..Len(o) : IsSheet(o[i]) /\ KeyedByColumn(o[i]),
         NEW s, IsSheet(s), KeyedByColumn(s), NEW b, b = Append(o, s)
  PROVE  /\ IsBook(b)
         /\ \A i \in 1..Len(b) : IsSheet(b[i]) /\ KeyedByColumn(b[i])
         /\ \A i \in DOMAIN b : IsSheet(b[i]) /\ KeyedByColumn(b[i])
<1>1. PICK N \in Nat : N = Len(o)
  BY DEF IsBook
<1>2. /\ IsBook(b) /\ Len(b) = N + 1 /\ b[N + 1] = s
      /\ \A i \in 1..N : b[i] = o[i]
  BY <1>1, AppendIs
<1>3. \A i \in 1..(N + 1) : i \in 1..N \/ i = N + 1
  OBVIOUS
<1>4. \A i \in 1..Len(b) : IsSheet(b[i]) /\ KeyedByColumn(b[i])
  BY <1>1, <1>2, <1>3
<1>5. DOMAIN b = 1..Len(b)
  BY <1>2 DEF IsBook
<1> QED
  BY <1>2, <1>4, <1>5

----------------------------------------------------------------------------
(* The actions are the steps                                               *)

LEMMA ResolveIs ==
  /\ \A s, k : Having(s, k) = Holding(s, header, k)
  /\ \A s : Anchors(s) = AnchorsIn(s, header)
  /\ InsertionPoint = PointIn(Target, header)
  /\ Reusable = OldIn(Target, header)
  /\ Missing = NewIn(Target, header)
<1>1. \A s, k : Having(s, k) = Holding(s, header, k)
  BY Zenon DEF Having, Holding
<1>2. \A s : Anchors(s) = AnchorsIn(s, header)
  BY <1>1 DEF Anchors, AnchorsIn
<1>3. InsertionPoint = PointIn(Target, header)
  BY <1>1, <1>2, Zenon DEF InsertionPoint, PointIn
<1>4. Reusable = OldIn(Target, header)
  BY <1>1 DEF Reusable, OldIn
<1>5. Missing = NewIn(Target, header)
  BY <1>4, Zenon DEF Missing, NewIn
<1> QED
  BY <1>1, <1>2, <1>3, <1>4, <1>5

LEMMA ResolveDoes ==
  ASSUME ResolveColumns
  PROVE  /\ step = "resolve" /\ step' = "dress"
         /\ at' = PointIn(Target, header) /\ count' = NewIn(Target, header)
         /\ reused' = OldIn(Target, header)
         /\ columns' = ColumnsIn(Target, header)
         /\ book' = [book EXCEPT ![Len(book)] =
                       InsertColumns(Target, PointIn(Target, header),
                                     NewIn(Target, header))]
         /\ UNCHANGED <<given, header, written, saved, runs>>
<1>1. PICK s, p, n, old : /\ s = Target /\ p = InsertionPoint /\ n = Missing
                          /\ old = Reusable
  OBVIOUS
<1>2. /\ p = PointIn(s, header) /\ n = NewIn(s, header) /\ old = OldIn(s, header)
  BY <1>1, ResolveIs, Zenon
<1>3. /\ step = "resolve" /\ step' = "dress"
      /\ reused' = old /\ at' = p /\ count' = n
      /\ book' = [book EXCEPT ![Len(book)] = InsertColumns(s, p, n)]
      /\ UNCHANGED <<given, header, written, saved, runs>>
      /\ columns' = [k \in Captions |->
            IF k \in old THEN First(Having(InsertColumns(s, p, n), k))
                         ELSE p + PlaceIn(old, k)]
  BY <1>1, Zenon DEF ResolveColumns, ResolveIn, SetTarget, PlaceIn
<1>4. columns' = ColumnsIn(s, header)
  <2>1. \A k \in Captions :
           First(Having(InsertColumns(s, p, n), k)) =
              First(Holding(InsertColumns(s, p, n), header, k))
    BY ResolveIs, Zenon
  <2>2. ColumnsIn(s, header) = [k \in Captions |->
            IF k \in old THEN First(Holding(InsertColumns(s, p, n), header, k))
                         ELSE p + PlaceIn(old, k)]
    BY <1>2, Zenon DEF ColumnsIn
  <2> QED
    BY <1>3, <2>1, <2>2
<1> QED
  BY <1>1, <1>2, <1>3, <1>4, Zenon

LEMMA DressDoes ==
  ASSUME DressTitleRows
  PROVE  /\ step = "dress" /\ step' = "headers"
         /\ book' = [book EXCEPT ![Len(book)] =
                       Dressed(Target, header, at, count)]
         /\ UNCHANGED <<given, placement, written, saved, runs>>
BY Zenon DEF DressTitleRows, DressLike, SetTarget, Dressed, DressedBy, Neighbour

LEMMA TitleDoes ==
  ASSUME WriteHeaders
  PROVE  /\ step = "headers" /\ step' = "rows"
         /\ book' = [book EXCEPT ![Len(book)] =
                       Titled(Target, header, columns, reused)]
         /\ UNCHANGED <<given, placement, written, saved, runs>>
BY Zenon DEF WriteHeaders, SetTarget, Titled, TitleStyle, NewColumns, OursIn,
             Ours, KeyIn, KeyOf, OurDim

LEMMA AnswerDoes ==
  ASSUME WriteRows
  PROVE  /\ step = "rows" /\ step' = "latest"
         /\ book' = [book EXCEPT ![Len(book)] =
                       Answered(Target, header, columns, answers)]
         /\ written' = Cardinality({r \in DOMAIN answers : r > header})
         /\ UNCHANGED <<given, placement, saved, runs>>
BY Zenon DEF WriteRows, SetTarget, Answered, AnsweredAt, ValueAt, StyledIn,
             TopOf, LeftOf, OursIn, Ours, KeyIn, KeyOf

LEMMA ExtractDoes ==
  ASSUME WriteLatestRevisions
  PROVE  /\ step = "latest" /\ step' = "save"
         /\ book' = Append(Without(book, LATEST_REVISIONS_SHEET),
                           ExtractOf(Target, header, latest))
         /\ UNCHANGED <<given, placement, written, saved, runs>>
BY Zenon DEF WriteLatestRevisions, Extracting, ExtractOf, EndOf, KeptIn, Rows,
             RowFrom, RemapIn, RemapDataRange

\* What is known of the sheets of a pass.
SheetFacts(s, h) ==
    /\ Placed(s, h, PointOf(s, h), NewOf(s, h), ColumnsOf(s, h), OldOf(s, h))
    /\ IsWidened(s, Widened(s, h), PointOf(s, h), NewOf(s, h))
    /\ IsBanded(s, Banded(s, h), h, PointOf(s, h), NewOf(s, h))
    /\ IsCaptioned(s, Captioned(s, h), h, PointOf(s, h), NewOf(s, h),
                   ColumnsOf(s, h))

LEMMA PassFacts ==
  ASSUME UploadInv, header = DetectHeaderRow(Source)
  PROVE  /\ SheetFacts(Source, header)
         /\ IsMade(Source, Result, header, PointOf(Source, header),
                   NewOf(Source, header), ColumnsOf(Source, header), answers)
         /\ ReadsBack(Source, Result, header, PointOf(Source, header),
                      NewOf(Source, header), ColumnsOf(Source, header),
                      OldOf(Source, header), answers)
         /\ IsSheet(Copy(Source)) /\ KeyedByColumn(Copy(Source))
         /\ IsSheet(Result) /\ KeyedByColumn(Result)
         /\ Result.name = AUTOMATED_SHEET
         /\ Result.rows = Source.rows
         /\ IsSheet(Extract) /\ KeyedByColumn(Extract)
         /\ Extract.name = LATEST_REVISIONS_SHEET
         /\ IsExtract(Result, Extract, header, latest)
<1>1. PICK s, h : s = Source /\ h = header
  OBVIOUS
<1>2. /\ IsSheet(s) /\ KeyedByColumn(s) /\ s.rows \in Nat /\ s.rows > 0
      /\ h = DetectHeaderRow(s) /\ h \in 1..s.rows /\ h \in Nat
      /\ \A r \in DOMAIN answers : r \in (h + 1)..s.rows
      /\ \A r \in latest : r \in (h + 1)..s.rows
  <2>1. s.rows > 0 /\ h = DetectHeaderRow(s)
    BY <1>1 DEF UploadInv
  <2>2. /\ IsSheet(s) /\ KeyedByColumn(s) /\ s.rows \in Nat
        /\ h \in 1..s.rows
        /\ \A r \in DOMAIN answers : r \in (h + 1)..s.rows
        /\ \A r \in latest : r \in (h + 1)..s.rows
    BY <1>1, SourceFacts
  <2> QED
    BY <2>1, <2>2
<1>3. PICK p, n, f, old, ans : /\ p = PointOf(s, h) /\ n = NewOf(s, h)
                               /\ f = ColumnsOf(s, h) /\ old = OldOf(s, h)
                               /\ ans = answers
  OBVIOUS
<1>4. SheetFacts(s, h)
  BY <1>2, Widens, Makes DEF SheetFacts
<1>5. PICK d : d = Made(s, h, ans)
  OBVIOUS
<1>6. IsMade(s, d, h, p, n, f, ans)
  BY <1>2, <1>3, <1>5, Makes
<1>7. ReadsBack(s, d, h, p, n, f, old, ans)
  <2>1. Placed(s, h, p, n, f, old)
    BY <1>3, <1>4 DEF SheetFacts
  <2>2. \A r \in DOMAIN ans : r \in (h + 1)..s.rows
    BY <1>2, <1>3
  <2> QED
    BY <1>2, <1>6, <2>1, <2>2, MadeReadsBack
<1>8. /\ IsSheet(d) /\ KeyedByColumn(d) /\ d.name = AUTOMATED_SHEET
      /\ d.rows = s.rows
  BY <1>6 DEF IsMade, Automating, Shifted
<1>9. PICK l : l = ExtractOf(d, h, latest)
  OBVIOUS
<1>10. /\ IsSheet(l) /\ KeyedByColumn(l) /\ l.name = LATEST_REVISIONS_SHEET
       /\ IsExtract(d, l, h, latest)
  BY <1>2, <1>8, <1>9, Extracts
<1>11. IsSheet(Copy(s)) /\ KeyedByColumn(Copy(s))
  <2>1. PICK c : c = Copy(s)
    OBVIOUS
  <2>2. IsSheet(c) /\ c.dims = s.dims
    BY <1>2, <2>1, CopyIs
  <2> QED
    BY <1>2, <2>1, <2>2 DEF KeyedByColumn
<1>12. d = Result /\ l = Extract
  BY <1>1, <1>3, <1>5, <1>9, Zenon DEF Result, Extract
<1> QED
  BY <1>1, <1>3, <1>4, <1>6, <1>7, <1>8, <1>10, <1>11, <1>12, Zenon

----------------------------------------------------------------------------
(* The invariant                                                           *)

LEMMA OutputInit == Init => OutputInv
<1> SUFFICES ASSUME Init PROVE OutputInv
  OBVIOUS
<1>1. /\ step = "open" /\ upload \in Uploads /\ book = <<>> /\ header = 0
      /\ columns = [k \in Captions |-> 0] /\ reused = {} /\ at = 0 /\ count = 0
      /\ written = 0 /\ saved = <<>> /\ runs = 0
      /\ answers \in UNION {[D -> Filled] : D \in SUBSET DataRows(Source)}
      /\ latest \in SUBSET DOMAIN answers
  BY DEF Init
<1>2. IsUpload(upload)
  BY <1>1, OutputAssumption
<1>3. UploadInv
  <2>1. PICK V : V = {upload[i] : i \in DOMAIN upload}
    OBVIOUS
  <2>2. upload \in Seq(V)
    BY <1>2, <2>1, Zenon DEF IsUpload
  <2>3. IsBook(upload) /\ DOMAIN upload = 1..Len(upload)
    BY <2>2 DEF IsBook
  <2>4. \A i \in 1..Len(upload) : IsSheet(upload[i]) /\ KeyedByColumn(upload[i])
    BY <1>2, <2>3 DEF IsUpload
  <2>5. Findable(upload)
    BY <1>2, <2>3 DEF IsUpload, Findable, Candidates
  <2>6. Found(upload, FindSheet(upload))
    BY <2>3, <2>5, FindSheetFinds
  <2>7. Source = upload[FindSheet(upload)] /\ Source = Chosen(upload)
    BY Zenon DEF Source, Chosen
  <2>8. Steady(upload, FindSheet(upload)) /\ Source.rows > 0
    BY <1>2, <2>7 DEF IsUpload, Steady, Added
  <2>9. PICK D \in SUBSET DataRows(Source) : answers \in [D -> Filled]
    BY <1>1
  <2>10. \A r \in DOMAIN answers : r \in DataRows(Source)
    BY <2>9
  <2> QED
    BY <1>1, <2>3, <2>4, <2>6, <2>8, <2>10 DEF UploadInv
<1>4. PassInv
  BY <1>1 DEF PassInv, Steps, Placing
<1>5. CountInv
  BY <1>1, OutputAssumption DEF CountInv
<1>6. SheetsInv
  BY <1>1 DEF SheetsInv
<1> QED
  BY <1>3, <1>4, <1>5, <1>6 DEF OutputInv

\* A pass leaves its input as it is.
LEMMA GivenStays ==
  ASSUME UploadInv, UNCHANGED given
  PROVE  UploadInv' /\ Source' = Source /\ Rest' = Rest
<1>1. upload' = upload /\ answers' = answers /\ latest' = latest
  BY DEF given
<1>2. Source' = Source /\ Rest' = Rest
  BY <1>1 DEF Source, Rest
<1> QED
  BY <1>1, <1>2 DEF UploadInv

LEMMA CopyStep ==
  ASSUME OutputInv, CopySheet
  PROVE  OutputInv'
<1>1. /\ step = "open" /\ header' = DetectHeaderRow(Source)
      /\ book' = Append(Rest, Copy(Source)) /\ step' = "resolve"
      /\ UNCHANGED <<given, columns, reused, at, count, written, saved, runs>>
  BY Zenon DEF CopySheet, Copying, Rest, Copy
<1>2. UploadInv /\ PassInv /\ CountInv /\ SheetsInv
  BY DEF OutputInv
<1>3. UploadInv' /\ Source' = Source /\ Rest' = Rest
  BY <1>1, <1>2, GivenStays
<1>4. PassInv'
  <2>1. header' = DetectHeaderRow(Source')
    BY <1>1, <1>3
  <2>2. book' = Append(Rest', Copy(Source'))
    BY <1>1, <1>3
  <2> QED
    BY <1>1, <2>1, <2>2 DEF PassInv, Steps, Placing
<1>5. CountInv'
  <2>1. header' \in Nat
    BY <1>1, <1>2, SourceFacts
  <2> QED
    BY <1>1, <1>2, <2>1 DEF CountInv
<1>6. SheetsInv'
  <2>1. \A i \in DOMAIN book' : IsSheet(book'[i]) /\ KeyedByColumn(book'[i])
    <3>1. PICK s, c, o : s = Source /\ c = Copy(s) /\ o = Rest
      OBVIOUS
    <3>2. IsSheet(s) /\ KeyedByColumn(s)
      BY <1>2, <3>1, SourceFacts
    <3>3. IsSheet(c) /\ KeyedByColumn(c)
      BY <3>1, <3>2, CopyIs DEF KeyedByColumn
    <3>4. IsBook(o) /\ \A i \in 1..Len(o) : IsSheet(o[i]) /\ KeyedByColumn(o[i])
      BY <1>2, <3>1, RestIs
    <3>5. book' = Append(o, c)
      BY <1>1, <3>1
    <3> QED
      BY <3>3, <3>4, <3>5, SheetsOfAppend
  <2> QED
    BY <1>1, <1>2, <2>1 DEF SheetsInv
<1> QED
  BY <1>3, <1>4, <1>5, <1>6 DEF OutputInv

\* A step on the sheet that is worked on: the others stay.
LEMMA WorkStep ==
  ASSUME UploadInv, SheetsInv, NEW s, book = Append(Rest, s),
         NEW t, IsSheet(t), KeyedByColumn(t),
         book' = [book EXCEPT ![Len(book)] = t],
         UNCHANGED given, saved' = saved
  PROVE  book' = Append(Rest', t) /\ SheetsInv'
<1>1. PICK b, o : b = book /\ o = Rest
  OBVIOUS
<1>2. IsBook(o) /\ \A i \in 1..Len(o) : IsSheet(o[i]) /\ KeyedByColumn(o[i])
  BY <1>1, RestIs
<1>3. [b EXCEPT ![Len(b)] = t] = Append(o, t)
  BY <1>1, <1>2, LastSheet
<1>4. book' = Append(o, t)
  BY <1>1, <1>3
<1>5. Rest' = o
  BY <1>1, GivenStays
<1>6. \A i \in DOMAIN book' : IsSheet(book'[i]) /\ KeyedByColumn(book'[i])
  BY <1>2, <1>4, SheetsOfAppend
<1>7. SheetsInv'
  BY <1>6 DEF SheetsInv
<1> QED
  BY <1>4, <1>5, <1>7

LEMMA TargetIs ==
  ASSUME UploadInv, NEW s, book = Append(Rest, s)
  PROVE  Target = s
<1>1. PICK b, o : b = book /\ o = Rest
  OBVIOUS
<1>2. IsBook(o)
  BY <1>1, RestIs
<1>3. b[Len(b)] = s
  BY <1>1, <1>2, LastSheet
<1> QED
  BY <1>1, <1>3 DEF Target

LEMMA ResolveStep ==
  ASSUME OutputInv, ResolveColumns
  PROVE  OutputInv'
<1>1. UploadInv /\ PassInv /\ CountInv /\ SheetsInv
  BY DEF OutputInv
<1>2. /\ step = "resolve" /\ step' = "dress"
      /\ at' = PointIn(Target, header) /\ count' = NewIn(Target, header)
      /\ reused' = OldIn(Target, header)
      /\ columns' = ColumnsIn(Target, header)
      /\ book' = [book EXCEPT ![Len(book)] =
                    InsertColumns(Target, PointIn(Target, header),
                                  NewIn(Target, header))]
      /\ UNCHANGED <<given, header, written, saved, runs>>
  BY ResolveDoes
<1>3. UploadInv' /\ Source' = Source /\ Rest' = Rest /\ header' = header
  BY <1>1, <1>2, GivenStays
<1>4. header = DetectHeaderRow(Source) /\ book = Append(Rest, Copy(Source))
  BY <1>1, <1>2 DEF PassInv
<1>5. Target = Copy(Source)
  BY <1>1, <1>4, TargetIs
<1>6. PICK s, h : s = Source /\ h = header
  OBVIOUS
<1>7. /\ at' = PointOf(s, h) /\ count' = NewOf(s, h)
      /\ reused' = OldOf(s, h) /\ columns' = ColumnsOf(s, h)
      /\ book' = [book EXCEPT ![Len(book)] = Widened(s, h)]
  BY <1>2, <1>5, <1>6, Zenon DEF PointOf, NewOf, OldOf, ColumnsOf, Widened
<1>8. SheetFacts(s, h)
  BY <1>1, <1>4, <1>6, PassFacts
<1>9. IsSheet(Widened(s, h)) /\ KeyedByColumn(Widened(s, h))
  BY <1>8 DEF SheetFacts, IsWidened, Automating
<1>10. book' = Append(Rest', Widened(s, h)) /\ SheetsInv'
  BY <1>1, <1>2, <1>4, <1>7, <1>9, WorkStep
<1>11. PassInv'
  <2>1. Source' = s /\ header' = h /\ h = DetectHeaderRow(s)
    BY <1>3, <1>4, <1>6
  <2> QED
    BY <1>2, <1>7, <1>10, <2>1 DEF PassInv, Steps, Placing
<1>12. CountInv'
  <2>1. Placed(s, h, at', count', columns', reused')
    BY <1>7, <1>8 DEF SheetFacts
  <2>2. s.cols \in Nat
    BY <1>1, <1>6, SourceFacts
  <2>3. PICK f, p, n, old : f = columns' /\ p = at' /\ n = count' /\ old = reused'
    OBVIOUS
  <2>4. /\ p \in Nat /\ n \in Nat /\ old \subseteq Captions
        /\ f = [k \in Captions |-> f[k]] /\ \A k \in Captions : f[k] \in Nat
    BY <2>1, <2>2, <2>3 DEF Placed
  <2>5. f \in [Captions -> Nat]
    BY <2>4
  <2> QED
    BY <1>1, <1>2, <2>3, <2>4, <2>5 DEF CountInv
<1> QED
  BY <1>3, <1>10, <1>11, <1>12 DEF OutputInv

\* A step after the columns are placed: the placement stays as it is.
LEMMA PlacementStays ==
  ASSUME UploadInv, CountInv, step \in Placing, step # "saved", PassInv,
         UNCHANGED <<given, placement, runs>>, step' \in Placing,
         step' # "saved", written' \in Nat
  PROVE  /\ CountInv' /\ UploadInv' /\ Source' = Source /\ header' = header
         /\ header' = DetectHeaderRow(Source')
         /\ at' = PointOf(Source', header') /\ count' = NewOf(Source', header')
         /\ columns' = ColumnsOf(Source', header')
         /\ reused' = OldOf(Source', header')
<1>1. UploadInv' /\ Source' = Source
  BY GivenStays
<1>2. /\ header' = header /\ columns' = columns /\ reused' = reused
      /\ at' = at /\ count' = count /\ runs' = runs
  BY DEF placement
<1>3. PICK s, h : s = Source /\ h = header
  OBVIOUS
<1>4. /\ h = DetectHeaderRow(s) /\ at = PointOf(s, h) /\ count = NewOf(s, h)
      /\ columns = ColumnsOf(s, h) /\ reused = OldOf(s, h)
  BY <1>3 DEF PassInv, Placing
<1>5. CountInv'
  BY <1>2 DEF CountInv
<1> QED
  BY <1>1, <1>2, <1>3, <1>4, <1>5

LEMMA DressStep ==
  ASSUME OutputInv, DressTitleRows
  PROVE  OutputInv'
<1>1. UploadInv /\ PassInv /\ CountInv /\ SheetsInv
  BY DEF OutputInv
<1>2. /\ step = "dress" /\ step' = "headers"
      /\ book' = [book EXCEPT ![Len(book)] = Dressed(Target, header, at, count)]
      /\ UNCHANGED <<given, placement, written, saved, runs>>
  BY DressDoes
<1>3. PICK s, h, p, n : s = Source /\ h = header /\ p = at /\ n = count
  OBVIOUS
<1>4. /\ h = DetectHeaderRow(s) /\ p = PointOf(s, h) /\ n = NewOf(s, h)
      /\ book = Append(Rest, Widened(s, h))
  BY <1>1, <1>2, <1>3 DEF PassInv, Placing
<1>5. Target = Widened(s, h)
  BY <1>1, <1>4, TargetIs
<1>6. book' = [book EXCEPT ![Len(book)] = Banded(s, h)]
  BY <1>2, <1>3, <1>4, <1>5, Zenon DEF Banded
<1>7. IsSheet(Banded(s, h)) /\ KeyedByColumn(Banded(s, h))
  <2>1. SheetFacts(s, h)
    BY <1>1, <1>3, <1>4, PassFacts
  <2> QED
    BY <2>1 DEF SheetFacts, IsBanded, Automating
<1>8. book' = Append(Rest', Banded(s, h)) /\ SheetsInv'
  BY <1>1, <1>2, <1>4, <1>6, <1>7, WorkStep
<1>9. /\ CountInv' /\ UploadInv' /\ Source' = s /\ header' = h
      /\ header' = DetectHeaderRow(Source')
      /\ at' = PointOf(Source', header') /\ count' = NewOf(Source', header')
      /\ columns' = ColumnsOf(Source', header')
      /\ reused' = OldOf(Source', header')
  <2>1. written' \in Nat /\ step \in Placing /\ step' \in Placing
    BY <1>1, <1>2 DEF CountInv, Placing
  <2> QED
    BY <1>1, <1>2, <1>3, <2>1, PlacementStays
<1>10. PassInv'
  BY <1>2, <1>8, <1>9 DEF PassInv, Steps, Placing
<1> QED
  BY <1>8, <1>9, <1>10 DEF OutputInv

LEMMA TitleStep ==
  ASSUME OutputInv, WriteHeaders
  PROVE  OutputInv'
<1>1. UploadInv /\ PassInv /\ CountInv /\ SheetsInv
  BY DEF OutputInv
<1>2. /\ step = "headers" /\ step' = "rows"
      /\ book' = [book EXCEPT ![Len(book)] =
                    Titled(Target, header, columns, reused)]
      /\ UNCHANGED <<given, placement, written, saved, runs>>
  BY TitleDoes
<1>3. PICK s, h, f, old : /\ s = Source /\ h = header
                          /\ f = columns /\ old = reused
  OBVIOUS
<1>4. /\ h = DetectHeaderRow(s) /\ f = ColumnsOf(s, h) /\ old = OldOf(s, h)
      /\ book = Append(Rest, Banded(s, h))
  BY <1>1, <1>2, <1>3 DEF PassInv, Placing
<1>5. Target = Banded(s, h)
  BY <1>1, <1>4, TargetIs
<1>6. book' = [book EXCEPT ![Len(book)] = Captioned(s, h)]
  BY <1>2, <1>3, <1>4, <1>5, Zenon DEF Captioned
<1>7. IsSheet(Captioned(s, h)) /\ KeyedByColumn(Captioned(s, h))
  <2>1. SheetFacts(s, h)
    BY <1>1, <1>3, <1>4, PassFacts
  <2> QED
    BY <2>1 DEF SheetFacts, IsCaptioned, Automating
<1>8. book' = Append(Rest', Captioned(s, h)) /\ SheetsInv'
  BY <1>1, <1>2, <1>4, <1>6, <1>7, WorkStep
<1>9. /\ CountInv' /\ UploadInv' /\ Source' = s /\ header' = h
      /\ header' = DetectHeaderRow(Source')
      /\ at' = PointOf(Source', header') /\ count' = NewOf(Source', header')
      /\ columns' = ColumnsOf(Source', header')
      /\ reused' = OldOf(Source', header')
  <2>1. written' \in Nat /\ step \in Placing /\ step' \in Placing
    BY <1>1, <1>2 DEF CountInv, Placing
  <2> QED
    BY <1>1, <1>2, <1>3, <2>1, PlacementStays
<1>10. PassInv'
  BY <1>2, <1>8, <1>9 DEF PassInv, Steps, Placing
<1> QED
  BY <1>8, <1>9, <1>10 DEF OutputInv

LEMMA AnswerStep ==
  ASSUME OutputInv, WriteRows
  PROVE  OutputInv'
<1>1. UploadInv /\ PassInv /\ CountInv /\ SheetsInv
  BY DEF OutputInv
<1>2. /\ step = "rows" /\ step' = "latest"
      /\ book' = [book EXCEPT ![Len(book)] =
                    Answered(Target, header, columns, answers)]
      /\ written' = Cardinality({r \in DOMAIN answers : r > header})
      /\ UNCHANGED <<given, placement, saved, runs>>
  BY AnswerDoes
<1>3. PICK s, h, f, ans : /\ s = Source /\ h = header
                          /\ f = columns /\ ans = answers
  OBVIOUS
<1>4. /\ h = DetectHeaderRow(s) /\ f = ColumnsOf(s, h)
      /\ book = Append(Rest, Captioned(s, h))
  BY <1>1, <1>2, <1>3 DEF PassInv, Placing
<1>5. Target = Captioned(s, h)
  BY <1>1, <1>4, TargetIs
<1>6. book' = [book EXCEPT ![Len(book)] = Result]
  BY <1>2, <1>3, <1>4, <1>5, Zenon DEF Made, Result
<1>7. IsSheet(Result) /\ KeyedByColumn(Result)
  BY <1>1, <1>3, <1>4, PassFacts
<1>8. book' = Append(Rest', Result) /\ SheetsInv'
  BY <1>1, <1>2, <1>4, <1>6, <1>7, WorkStep
<1>9. written' \in Nat
  <2>1. PICK S : S = {r \in DOMAIN answers : r > header}
    OBVIOUS
  <2>2. \A r \in S : r \in 1..s.rows
    <3>1. /\ \A r \in DOMAIN answers : r \in (h + 1)..s.rows
          /\ h \in 1..s.rows /\ s.rows \in Nat
      BY <1>1, <1>3, <1>4, SourceFacts
    <3> QED
      BY <2>1, <3>1
  <2>3. s.rows \in Nat
    BY <1>1, <1>3, SourceFacts
  <2>4. Cardinality(S) \in 0..s.rows
    BY <2>2, <2>3, UpTo
  <2> QED
    BY <1>2, <2>1, <2>3, <2>4
<1>10. /\ CountInv' /\ UploadInv' /\ Source' = s /\ header' = h
       /\ header' = DetectHeaderRow(Source')
       /\ at' = PointOf(Source', header') /\ count' = NewOf(Source', header')
       /\ columns' = ColumnsOf(Source', header')
       /\ reused' = OldOf(Source', header')
  <2>1. step \in Placing /\ step' \in Placing
    BY <1>2 DEF Placing
  <2> QED
    BY <1>1, <1>2, <1>3, <1>9, <2>1, PlacementStays
<1>11. Result' = Result
  <2>1. answers' = answers
    BY <1>2 DEF given
  <2> QED
    BY <1>3, <1>10, <2>1 DEF Result
<1>12. PassInv'
  BY <1>2, <1>8, <1>10, <1>11 DEF PassInv, Steps, Placing
<1> QED
  BY <1>8, <1>10, <1>12 DEF OutputInv

\* The workbook that is written, and its sheets.
LEMMA OutputIs ==
  ASSUME UploadInv, header = DetectHeaderRow(Source)
  PROVE  /\ Append(Without(Append(Rest, Result), LATEST_REVISIONS_SHEET), Extract)
               = Output
         /\ \A i \in DOMAIN Output : /\ IsSheet(Output[i])
                                     /\ KeyedByColumn(Output[i])
         /\ Ends(Output, Own(upload), Result, Extract)
<1>1. PICK o, d, l, b : /\ o = Own(upload) /\ d = Result /\ l = Extract
                        /\ b = upload
  OBVIOUS
<1>2. /\ IsSheet(d) /\ KeyedByColumn(d) /\ d.name = AUTOMATED_SHEET
      /\ IsSheet(l) /\ KeyedByColumn(l)
  BY <1>1, PassFacts
<1>3. PICK w : w = Rest
  OBVIOUS
<1>4. IsBook(w)
  BY <1>3, RestIs
<1>5. o = Without(w, LATEST_REVISIONS_SHEET)
  BY <1>1, <1>3, Zenon DEF Own, Rest
<1>6. Without(Append(w, d), LATEST_REVISIONS_SHEET) = Append(o, d)
  <2>1. d.name # LATEST_REVISIONS_SHEET
    BY <1>2, OutputAssumption
  <2> QED
    BY <1>4, <1>5, <2>1, WithoutAppend
<1>7. IsBook(b) /\ \A i \in 1..Len(b) : IsSheet(b[i]) /\ KeyedByColumn(b[i])
  BY <1>1 DEF UploadInv
<1>8. IsBook(o) /\ \A n \in 1..Len(o) : IsSheet(o[n]) /\ KeyedByColumn(o[n])
  <2>1. o = Own(b)
    BY <1>1
  <2>2. IsBook(o) /\ \E f : OwnAt(f, b, o)
    BY <1>7, <2>1, OwnKeeps
  <2>3. PICK f : OwnAt(f, b, o)
    BY <2>2
  <2> QED
    BY <1>7, <2>2, <2>3 DEF OwnAt
<1>9. PICK c : c = Append(o, d)
  OBVIOUS
<1>10. IsBook(c) /\ \A n \in 1..Len(c) : IsSheet(c[n]) /\ KeyedByColumn(c[n])
  BY <1>2, <1>8, <1>9, SheetsOfAppend
<1>11. PICK u : u = Append(c, l)
  OBVIOUS
<1>12. \A i \in DOMAIN u : IsSheet(u[i]) /\ KeyedByColumn(u[i])
  BY <1>2, <1>10, <1>11, SheetsOfAppend
<1>13. u = Output
  BY <1>1, <1>9, <1>11, Zenon DEF Output
<1>14. Ends(u, o, d, l)
  BY <1>8, <1>9, <1>11, TwoMore, Zenon
<1> QED
  BY <1>1, <1>3, <1>6, <1>9, <1>11, <1>12, <1>13, <1>14, Zenon

LEMMA ExtractStep ==
  ASSUME OutputInv, WriteLatestRevisions
  PROVE  OutputInv'
<1>1. UploadInv /\ PassInv /\ CountInv /\ SheetsInv
  BY DEF OutputInv
<1>2. /\ step = "latest" /\ step' = "save"
      /\ book' = Append(Without(book, LATEST_REVISIONS_SHEET),
                        ExtractOf(Target, header, latest))
      /\ UNCHANGED <<given, placement, written, saved, runs>>
  BY ExtractDoes
<1>3. header = DetectHeaderRow(Source) /\ book = Append(Rest, Result)
  BY <1>1, <1>2 DEF PassInv
<1>4. Target = Result
  BY <1>1, <1>3, TargetIs
<1>5. book' = Output
  <2>1. book' = Append(Without(Append(Rest, Result), LATEST_REVISIONS_SHEET),
                       Extract)
    BY <1>2, <1>3, <1>4, Zenon DEF Extract
  <2> QED
    BY <1>1, <1>3, <2>1, OutputIs
<1>6. SheetsInv'
  <2>1. \A i \in DOMAIN book' : IsSheet(book'[i]) /\ KeyedByColumn(book'[i])
    BY <1>1, <1>3, <1>5, OutputIs
  <2> QED
    BY <1>1, <1>2, <2>1 DEF SheetsInv
<1>7. /\ CountInv' /\ UploadInv' /\ Source' = Source /\ header' = header
      /\ header' = DetectHeaderRow(Source')
      /\ at' = PointOf(Source', header') /\ count' = NewOf(Source', header')
      /\ columns' = ColumnsOf(Source', header')
      /\ reused' = OldOf(Source', header')
  <2>1. written' \in Nat /\ step \in Placing /\ step' \in Placing
    BY <1>1, <1>2 DEF CountInv, Placing
  <2> QED
    BY <1>1, <1>2, <2>1, PlacementStays
<1>8. Output' = Output
  <2>1. upload' = upload /\ answers' = answers /\ latest' = latest
    BY <1>2 DEF given
  <2>2. Result' = Result
    BY <1>7, <2>1 DEF Result
  <2>3. Extract' = Extract
    BY <1>7, <2>1, <2>2 DEF Extract
  <2>4. Own(upload)' = Own(upload)
    BY <2>1
  <2> QED
    BY <2>2, <2>3, <2>4 DEF Output
<1>9. PassInv'
  BY <1>2, <1>5, <1>7, <1>8 DEF PassInv, Steps, Placing
<1> QED
  BY <1>6, <1>7, <1>9 DEF OutputInv

LEMMA SaveStep ==
  ASSUME OutputInv, Save
  PROVE  OutputInv'
<1>1. UploadInv /\ PassInv /\ CountInv /\ SheetsInv
  BY DEF OutputInv
<1>2. /\ step = "save" /\ step' = "saved" /\ saved' = book /\ runs' = runs + 1
      /\ UNCHANGED <<given, book, placement, written>>
  BY DEF Save
<1>3. UploadInv' /\ Source' = Source
  BY <1>1, <1>2, GivenStays
<1>4. /\ header' = header /\ columns' = columns /\ reused' = reused
      /\ at' = at /\ count' = count /\ upload' = upload
      /\ answers' = answers /\ latest' = latest
  BY <1>2 DEF placement, given
<1>5. book = Output
  BY <1>1, <1>2 DEF PassInv
<1>6. Output' = Output
  <2>1. Result' = Result
    BY <1>3, <1>4 DEF Result
  <2>2. Extract' = Extract
    BY <1>4, <2>1 DEF Extract
  <2> QED
    BY <1>4, <2>1, <2>2 DEF Output
<1>7. PassInv'
  <2>1. PICK s, h : s = Source /\ h = header
    OBVIOUS
  <2>2. /\ h = DetectHeaderRow(s) /\ at = PointOf(s, h) /\ count = NewOf(s, h)
        /\ columns = ColumnsOf(s, h) /\ reused = OldOf(s, h)
    BY <1>1, <1>2, <2>1 DEF PassInv, Placing
  <2>3. /\ header' = h /\ Source' = s /\ at' = PointOf(s, h)
        /\ count' = NewOf(s, h) /\ columns' = ColumnsOf(s, h)
        /\ reused' = OldOf(s, h)
    BY <1>3, <1>4, <2>1, <2>2
  <2>4. book' = Output' /\ saved' = Output'
    BY <1>2, <1>5, <1>6
  <2> QED
    BY <1>2, <2>2, <2>3, <2>4 DEF PassInv, Steps, Placing
<1>8. CountInv'
  <2>1. runs \in 0..MaxRuns /\ runs < MaxRuns /\ MaxRuns \in Nat
    BY <1>1, <1>2, OutputAssumption DEF CountInv
  <2>2. runs' \in 0..MaxRuns
    BY <1>2, <2>1
  <2> QED
    BY <1>1, <1>2, <1>4, <2>2 DEF CountInv
<1>9. SheetsInv'
  <2>1. \A i \in DOMAIN book : IsSheet(book[i]) /\ KeyedByColumn(book[i])
    BY <1>1 DEF SheetsInv
  <2>2. book' = book /\ saved' = book
    BY <1>2
  <2> QED
    BY <2>1, <2>2 DEF SheetsInv
<1> QED
  BY <1>3, <1>7, <1>8, <1>9 DEF OutputInv

\* The sheet that is found in the workbook that was written: the one that was
\* found before, or the one that was made of it.
LEMMA FoundInOutput ==
  ASSUME UploadInv, header = DetectHeaderRow(Source),
         NEW b, b = Output
  PROVE  /\ IsBook(b) /\ Found(b, FindSheet(b)) /\ Steady(b, FindSheet(b))
         /\ Chosen(b) \in {Source, Result}
<1>1. PICK u, i, a, l : /\ u = upload /\ i = FindSheet(upload)
                        /\ a = Result /\ l = Extract
  OBVIOUS
<1>2. IsBook(u) /\ Found(u, i) /\ Steady(u, i)
  BY <1>1 DEF UploadInv
<1>3. a.name = AUTOMATED_SHEET /\ l.name = LATEST_REVISIONS_SHEET
  BY <1>1, PassFacts
<1>4. b = Append(Append(Own(u), a), l)
  BY <1>1, Zenon DEF Output
<1>5. IsBook(b) /\ FoundAgain(b, u[i], a)
  BY <1>2, <1>3, <1>4, SourceAgain
<1>6. PICK j : Found(b, j) /\ Steady(b, j) /\ b[j] \in {u[i], a}
  BY <1>5 DEF FoundAgain
<1>7. Findable(b)
  BY <1>6 DEF Found, FoundExactly, FoundPartly, Findable
<1>8. Found(b, FindSheet(b))
  BY <1>5, <1>7, FindSheetFinds
<1>9. FindSheet(b) = j
  BY <1>5, <1>6, <1>8, FoundOnce
<1>10. Chosen(b) = b[j]
  BY <1>9, Zenon DEF Chosen
<1>11. Source = u[i]
  BY <1>1, SourceFacts
<1> QED
  BY <1>1, <1>5, <1>6, <1>8, <1>9, <1>10, <1>11

LEMMA RerunStep ==
  ASSUME OutputInv, Rerun
  PROVE  OutputInv'
<1>1. UploadInv /\ PassInv /\ CountInv /\ SheetsInv
  BY DEF OutputInv
<1>2. /\ step = "saved" /\ runs < MaxRuns /\ upload' = saved /\ step' = "open"
      /\ UNCHANGED <<answers, latest, book, placement, written, saved, runs>>
  BY DEF Rerun
<1>3. /\ header = DetectHeaderRow(Source) /\ saved = Output
  BY <1>1, <1>2 DEF PassInv
<1>4. PICK b : b = saved
  OBVIOUS
<1>5. /\ IsBook(b) /\ Found(b, FindSheet(b)) /\ Steady(b, FindSheet(b))
      /\ Chosen(b) \in {Source, Result}
  BY <1>1, <1>3, <1>4, FoundInOutput
<1>6. Source' = Chosen(b)
  BY <1>2, <1>4 DEF Source
<1>7. PICK s : s = Source
  OBVIOUS
<1>8. PICK t : t = Chosen(b)
  OBVIOUS
<1>9. t.rows = s.rows /\ DetectHeaderRow(t) = DetectHeaderRow(s)
  <2>1. /\ Result.rows = s.rows /\ DetectHeaderRow(Result) = header
    BY <1>1, <1>3, <1>7, PassFacts DEF ReadsBack
  <2> QED
    BY <1>3, <1>5, <1>7, <1>8, <2>1
<1>10. UploadInv'
  <2>1. /\ s.rows > 0 /\ latest \subseteq DOMAIN answers
        /\ \A r \in DOMAIN answers : r \in DataRows(s)
    BY <1>1, <1>7 DEF UploadInv
  <2>2. DataRows(t) = DataRows(s)
    BY <1>9 DEF DataRows
  <2>3. \A i \in 1..Len(b) : IsSheet(b[i]) /\ KeyedByColumn(b[i])
    <3>1. \A i \in DOMAIN b : IsSheet(b[i]) /\ KeyedByColumn(b[i])
      BY <1>1, <1>4 DEF SheetsInv
    <3>2. DOMAIN b = 1..Len(b)
      BY <1>5 DEF IsBook
    <3> QED
      BY <3>1, <3>2
  <2>4. t.rows > 0 /\ \A r \in DOMAIN answers : r \in DataRows(t)
    BY <1>9, <2>1, <2>2
  <2>5. upload' = b /\ Source' = t /\ answers' = answers /\ latest' = latest
    BY <1>2, <1>4, <1>6, <1>8
  <2> QED
    BY <1>5, <2>1, <2>3, <2>4, <2>5 DEF UploadInv
<1>11. PassInv'
  BY <1>2 DEF PassInv, Steps, Placing
<1>12. CountInv'
  <2>1. /\ header' = header /\ columns' = columns /\ reused' = reused
        /\ at' = at /\ count' = count
    BY <1>2 DEF placement
  <2> QED
    BY <1>1, <1>2, <2>1 DEF CountInv
<1>13. SheetsInv'
  BY <1>1, <1>2 DEF SheetsInv
<1> QED
  BY <1>10, <1>11, <1>12, <1>13 DEF OutputInv

LEMMA OutputStep ==
  ASSUME OutputInv, [Next]_vars
  PROVE  OutputInv'
<1>1. CASE CopySheet
  BY <1>1, CopyStep
<1>2. CASE ResolveColumns
  BY <1>2, ResolveStep
<1>3. CASE DressTitleRows
  BY <1>3, DressStep
<1>4. CASE WriteHeaders
  BY <1>4, TitleStep
<1>5. CASE WriteRows
  BY <1>5, AnswerStep
<1>6. CASE WriteLatestRevisions
  BY <1>6, ExtractStep
<1>7. CASE Save
  BY <1>7, SaveStep
<1>8. CASE Rerun
  BY <1>8, RerunStep
<1>9. CASE UNCHANGED vars
  <2>1. UploadInv' /\ Source' = Source /\ Rest' = Rest
    BY <1>9, GivenStays DEF OutputInv, vars
  <2>2. /\ header' = header /\ columns' = columns /\ reused' = reused
        /\ at' = at /\ count' = count /\ upload' = upload
        /\ answers' = answers /\ latest' = latest /\ step' = step
        /\ book' = book /\ saved' = saved /\ written' = written
        /\ runs' = runs
    BY <1>9 DEF vars, placement, given
  <2>3. Result' = Result
    BY <2>1, <2>2 DEF Result
  <2>4. Extract' = Extract
    BY <2>2, <2>3 DEF Extract
  <2>5. Output' = Output
    BY <2>2, <2>3, <2>4 DEF Output
  <2>6. PassInv'
    <3>1. PassInv
      BY DEF OutputInv
    <3>2. PICK s, h : s = Source /\ h = header
      OBVIOUS
    <3>3. Source' = s /\ header' = h
      BY <2>1, <2>2, <3>2
    <3> QED
      BY <2>1, <2>2, <2>3, <2>5, <3>1, <3>2, <3>3 DEF PassInv
  <2>7. CountInv' /\ SheetsInv'
    BY <2>2 DEF OutputInv, CountInv, SheetsInv
  <2> QED
    BY <2>1, <2>6, <2>7 DEF OutputInv
<1> QED
  BY <1>1, <1>2, <1>3, <1>4, <1>5, <1>6, <1>7, <1>8, <1>9 DEF Next

LEMMA OutputInvariant == Spec => []OutputInv
<1>1. Init => OutputInv
  BY OutputInit
<1>2. OutputInv /\ [Next]_vars => OutputInv'
  BY OutputStep
<1> QED
  BY <1>1, <1>2, PTL DEF Spec

----------------------------------------------------------------------------
(* The theorems                                                            *)

\* Every sheet stays a sheet: the cells and styles fill its grid, the ranges
\* and column dimensions on it are well-formed, and every method of write()
\* leaves the placement within the numbers it is computed with.
THEOREM OutputTypeCorrect == Spec => []TypeOK
<1>1. ASSUME OutputInv PROVE TypeOK
  <2>1. UploadInv /\ PassInv /\ CountInv /\ SheetsInv
    BY <1>1 DEF OutputInv
  <2>2. step \in {"open", "resolve", "dress", "headers", "rows", "latest",
                  "save", "saved"}
    BY <2>1 DEF PassInv, Steps
  <2>3. ASSUME NEW b \in {upload, book, saved}, NEW i \in DOMAIN b
        PROVE  IsSheet(b[i])
    <3>1. CASE b = upload
      BY <2>1, <2>3, <3>1 DEF UploadInv, IsBook
    <3>2. CASE b \in {book, saved}
      BY <2>1, <2>3, <3>2 DEF SheetsInv
    <3> QED
      BY <2>3, <3>1, <3>2
  <2>4. DOMAIN answers \subseteq DataRows(Source) /\ latest \subseteq DOMAIN answers
    BY <2>1 DEF UploadInv
  <2> QED
    BY <2>1, <2>2, <2>3, <2>4 DEF TypeOK, CountInv
<1> QED
  BY <1>1, OutputInvariant, PTL

\* What _insert_columns carries over by hand - merged ranges, conditional
\* formats and validations, the filter, the frozen pane, the widths - covers
\* the same cells after the insertion, in every later step of the pass.
THEOREM RangesAreCarried == Spec => []RangesFollowCells
<1>1. ASSUME OutputInv, Working PROVE Follows(Source, Target)
  <2>1. UploadInv /\ PassInv
    BY <1>1 DEF OutputInv
  <2>2. step \in {"dress", "headers", "rows", "latest"}
    BY <1>1 DEF Working
  <2>3. PICK s, h : s = Source /\ h = header
    OBVIOUS
  <2>4. h = DetectHeaderRow(s) /\ at = PointOf(s, h) /\ count = NewOf(s, h)
    BY <2>1, <2>2, <2>3 DEF PassInv, Placing
  <2>5. /\ SheetFacts(s, h)
        /\ IsMade(s, Result, h, at, count, ColumnsOf(s, h), answers)
    BY <2>1, <2>3, <2>4, PassFacts
  <2>6. \E d : book = Append(Rest, d) /\ Shifted(s, d, at, count)
    <3>1. CASE step = "dress"
      BY <2>1, <2>3, <2>4, <2>5, <3>1
         DEF PassInv, SheetFacts, IsWidened, Automating
    <3>2. CASE step = "headers"
      BY <2>1, <2>3, <2>4, <2>5, <3>2
         DEF PassInv, SheetFacts, IsBanded, Automating
    <3>3. CASE step = "rows"
      BY <2>1, <2>3, <2>4, <2>5, <3>3
         DEF PassInv, SheetFacts, IsCaptioned, Automating
    <3>4. CASE step = "latest"
      BY <2>1, <2>3, <2>4, <2>5, <3>4 DEF PassInv, IsMade, Automating
    <3> QED
      BY <2>2, <3>1, <3>2, <3>3, <3>4
  <2>7. PICK d : book = Append(Rest, d) /\ Shifted(s, d, at, count)
    BY <2>6
  <2>8. Target = d
    BY <2>1, <2>7, TargetIs
  <2>9. /\ IsSheet(s) /\ KeyedByColumn(s)
        /\ at \in Nat /\ at > 0 /\ at <= s.cols + 1 /\ count \in Nat
    <3>1. IsSheet(s) /\ KeyedByColumn(s) /\ s.cols \in Nat
      BY <2>1, <2>3, SourceFacts
    <3>2. Placed(s, h, at, count, ColumnsOf(s, h), OldOf(s, h))
      BY <2>4, <2>5 DEF SheetFacts
    <3> QED
      BY <3>1, <3>2 DEF Placed
  <2>10. Follows(s, d)
    BY <2>7, <2>9, ShiftedFollows
  <2> QED
    BY <2>3, <2>8, <2>10
<1>2. ASSUME OutputInv PROVE RangesFollowCells
  BY <1>1, <1>2, Zenon DEF RangesFollowCells, Follows
<1> QED
  BY <1>2, OutputInvariant, PTL

\* The workbook at the end of a pass.
LEMMA AtTheEnd ==
  ASSUME OutputInv, Written
  PROVE  /\ Ends(saved, Own(upload), Result, Extract)
         /\ Automated = Result /\ LatestRevisions = Extract
         /\ header = DetectHeaderRow(Source)
         /\ at = PointOf(Source, header) /\ count = NewOf(Source, header)
         /\ columns = ColumnsOf(Source, header)
         /\ reused = OldOf(Source, header)
<1>1. UploadInv /\ PassInv /\ step = "saved"
  BY DEF OutputInv, Written
<1>2. PICK s, h : s = Source /\ h = header
  OBVIOUS
<1>3. /\ h = DetectHeaderRow(s) /\ at = PointOf(s, h) /\ count = NewOf(s, h)
      /\ columns = ColumnsOf(s, h) /\ reused = OldOf(s, h) /\ saved = Output
  BY <1>1, <1>2 DEF PassInv, Placing
<1>4. Ends(saved, Own(upload), Result, Extract)
  BY <1>1, <1>2, <1>3, OutputIs
<1>5. Automated = Result /\ LatestRevisions = Extract
  <2>1. PICK N : N = Len(Own(upload))
    OBVIOUS
  <2>2. /\ Len(saved) = N + 2 /\ N \in Nat /\ saved[N + 1] = Result
        /\ saved[N + 2] = Extract
    BY <1>4, <2>1 DEF Ends
  <2>3. (N + 2) - 1 = N + 1
    BY <2>2
  <2> QED
    BY <2>2, <2>3 DEF Automated, LatestRevisions
<1> QED
  BY <1>2, <1>3, <1>4, <1>5

\* _copy_sheet and _write_latest_revisions remove only sheets with the names
\* they write: the employee's sheets are in the output, in their order, and
\* the two sheets come after them.
THEOREM SheetsStay == Spec => []EmployeeSheetsStay
<1>1. ASSUME OutputInv, Written
      PROVE  /\ Len(saved) = Len(Own(upload)) + 2
             /\ \A i \in DOMAIN Own(upload) : saved[i] = Own(upload)[i]
             /\ Automated.name = AUTOMATED_SHEET
             /\ LatestRevisions.name = LATEST_REVISIONS_SHEET
  <2>1. /\ Ends(saved, Own(upload), Result, Extract)
        /\ Automated = Result /\ LatestRevisions = Extract
        /\ header = DetectHeaderRow(Source)
    BY <1>1, AtTheEnd
  <2>2. UploadInv
    BY <1>1 DEF OutputInv
  <2>3. Automated.name = AUTOMATED_SHEET
        /\ LatestRevisions.name = LATEST_REVISIONS_SHEET
    BY <2>1, <2>2, PassFacts
  <2>4. PICK o, b : o = Own(upload) /\ b = upload
    OBVIOUS
  <2>5. IsBook(o)
    <3>1. IsBook(b) /\ o = Own(b)
      BY <2>2, <2>4 DEF UploadInv
    <3> QED
      BY <3>1, OwnKeeps
  <2>6. DOMAIN o = 1..Len(o)
    BY <2>5 DEF IsBook
  <2> QED
    BY <2>1, <2>3, <2>4, <2>6 DEF Ends
<1>2. ASSUME OutputInv PROVE EmployeeSheetsStay
  BY <1>1, <1>2, Zenon DEF EmployeeSheetsStay, Own
<1> QED
  BY <1>2, OutputInvariant, PTL

\* Whoever looks the captions up in the automated sheet reads, on each row,
\* the answers write() was given for that row, and everything else as the
\* source sheet had it - also when the sheet had captions of its own, in any
\* order, and when columns were inserted between them (_resolve_columns).
THEOREM ResultsReadBack == Spec => []AnswersReadBack
<1>1. ASSUME OutputInv, Written
      PROVE  ReadsBack(Source, Automated, header, at, count, columns, reused,
                       answers)
  <2>1. PICK s, h : s = Source /\ h = header
    OBVIOUS
  <2>2. /\ Automated = Result
        /\ h = DetectHeaderRow(s) /\ at = PointOf(s, h) /\ count = NewOf(s, h)
        /\ columns = ColumnsOf(s, h) /\ reused = OldOf(s, h)
    BY <1>1, <2>1, AtTheEnd
  <2>3. UploadInv
    BY <1>1 DEF OutputInv
  <2>4. ReadsBack(s, Result, h, PointOf(s, h), NewOf(s, h), ColumnsOf(s, h),
                  OldOf(s, h), answers)
    BY <2>1, <2>2, <2>3, PassFacts
  <2> QED
    BY <2>1, <2>2, <2>4
<1>2. /\ \A s, k : Having(s, k) = Holding(s, header, k)
      /\ \A c : Image(c) = ImageAt(c, at, count)
      /\ Ours = OursIn(columns)
  BY ResolveIs, Zenon DEF Image, ImageAt, Ours, OursIn
<1>3. ASSUME OutputInv, Written PROVE AnswersReadBack
  <2>1. PICK s, d : s = Source /\ d = Automated
    OBVIOUS
  <2>2. ReadsBack(s, d, header, at, count, columns, reused, answers)
    BY <1>1, <1>3, <2>1
  <2>3. \A k \in Captions : Having(d, k) # {} /\ First(Having(d, k)) = columns[k]
    BY <1>2, <2>2, Zenon DEF ReadsBack
  <2>4. ASSUME NEW r \in (header + 1)..d.rows, NEW k \in Captions
        PROVE  d.cell[<<r, First(Having(d, k))>>] =
                  IF k = CHECK_STATUS \/ r \notin DOMAIN answers
                  THEN IF k \in reused THEN s.cell[<<r, First(Having(s, k))>>]
                                       ELSE Empty
                  ELSE IF k \in answers[r] THEN Answer(k, r) ELSE Empty
    <3>1. d.cell[<<r, columns[k]>>] =
             IF k = CHECK_STATUS \/ r \notin DOMAIN answers
             THEN IF k \in reused
                  THEN s.cell[<<r, First(Holding(s, header, k))>>] ELSE Empty
             ELSE IF k \in answers[r] THEN Answer(k, r) ELSE Empty
      BY <2>2, <2>4, Zenon DEF ReadsBack
    <3>2. First(Having(d, k)) = columns[k]
      BY <2>3, <2>4
    <3>3. Having(s, k) = Holding(s, header, k)
      BY <1>2
    <3> QED
      BY <3>1, <3>2, <3>3, Zenon
  <2>5. \A r \in 1..s.rows, c \in 1..s.cols :
           Image(c) \notin Ours => d.cell[<<r, Image(c)>>] = s.cell[<<r, c>>]
    BY <1>2, <2>2, Zenon DEF ReadsBack
  <2>6. DetectHeaderRow(d) = header
    BY <2>2 DEF ReadsBack
  <2> QED
    BY <2>1, <2>3, <2>4, <2>5, <2>6, Zenon DEF AnswersReadBack
<1>4. ASSUME OutputInv PROVE AnswersReadBack
  <2>1. CASE Written
    BY <1>3, <1>4, <2>1
  <2>2. CASE ~Written
    BY <2>2, Zenon DEF AnswersReadBack
  <2> QED
    BY <2>1, <2>2
<1> QED
  BY <1>4, OutputInvariant, PTL

\* _write_latest_revisions keeps the rows above the data and the latest rows,
\* each once and in their order, and a filter over the data ends with them.
THEOREM LatestRowsAreExtracted == Spec => []LatestIsExtract
<1>1. ASSUME OutputInv, Written
      PROVE  IsExtract(Automated, LatestRevisions, header, latest)
  <2>1. /\ Automated = Result /\ LatestRevisions = Extract
        /\ header = DetectHeaderRow(Source)
    BY <1>1, AtTheEnd
  <2>2. UploadInv
    BY <1>1 DEF OutputInv
  <2> QED
    BY <2>1, <2>2, PassFacts
<1>2. ASSUME OutputInv PROVE LatestIsExtract
  BY <1>1, <1>2, Zenon DEF LatestIsExtract, IsExtract
<1> QED
  BY <1>2, OutputInvariant, PTL

\* _dress_title_rows fills the block with the style of the column beside it,
\* so that a band that ran across the insertion point still does.
THEOREM BandsRunOn == Spec => []BandUnbroken
<1>1. ASSUME OutputInv, Written, count > 0, at > 1,
             NEW d, d = Automated,
             NEW beyond,
             beyond = IF at + count <= d.cols THEN at + count ELSE at - 1,
             NEW r \in 1..(header - 1),
             d.style[<<r, at - 1>>] = d.style[<<r, beyond>>],
             NEW c \in Inserted
      PROVE  d.style[<<r, c>>] = d.style[<<r, at - 1>>]
  <2>1. PICK s, h, p, n : s = Source /\ h = header /\ p = at /\ n = count
    OBVIOUS
  <2>2. /\ d = Result
        /\ h = DetectHeaderRow(s) /\ p = PointOf(s, h) /\ n = NewOf(s, h)
    BY <1>1, <2>1, AtTheEnd
  <2>3. UploadInv /\ CountInv
    BY <1>1 DEF OutputInv
  <2>4. IsMade(s, d, h, p, n, ColumnsOf(s, h), answers)
    BY <2>1, <2>2, <2>3, PassFacts
  <2>5. Band(s, d, h, p, n)
    BY <2>4 DEF IsMade
  <2>6. Neighbour(d, p, n) = beyond
    BY <1>1, <2>1 DEF Neighbour
  <2>7. p \in Nat /\ n \in Nat /\ h \in 1..s.rows /\ s.rows \in Nat
    BY <2>1, <2>2, <2>3, SourceFacts DEF CountInv
  <2>8. beyond >= 1
    BY <1>1, <2>1, <2>7
  <2>9. r \in 1..s.rows /\ r < h /\ c \in Block(p, n)
    BY <1>1, <2>1, <2>7 DEF Inserted, Block
  <2>10. d.style[<<r, c>>] = d.style[<<r, beyond>>]
    BY <2>5, <2>6, <2>8, <2>9 DEF Band
  <2> QED
    BY <1>1, <2>10
<1>2. ASSUME OutputInv PROVE BandUnbroken
  BY <1>1, <1>2, Zenon DEF BandUnbroken
<1> QED
  BY <1>2, OutputInvariant, PTL

----------------------------------------------------------------------------
(* Automating the output                                                   *)

LEMMA SameSheet ==
  ASSUME NEW s, IsSheet(s), NEW d, IsSheet(d), Alike(s, d), d.dims = s.dims,
         \A q \in Grid(s.rows, s.cols) :
            d.cell[q] = s.cell[q] /\ d.style[q] = s.style[q]
  PROVE  d = s
<1>1. /\ s = SheetOf(s.name, s.rows, s.cols, s.cell, s.style, s.merges,
                     s.formats, s.filter, s.pane, s.dims)
      /\ IsGrid(s.cell, s.rows, s.cols) /\ IsGrid(s.style, s.rows, s.cols)
  BY PartsOfSheet
<1>2. /\ d = SheetOf(d.name, d.rows, d.cols, d.cell, d.style, d.merges,
                     d.formats, d.filter, d.pane, d.dims)
      /\ IsGrid(d.cell, d.rows, d.cols) /\ IsGrid(d.style, d.rows, d.cols)
  BY PartsOfSheet
<1>3. d.rows = s.rows /\ d.cols = s.cols
  BY DEF Alike
<1>4. d.cell = s.cell
  BY <1>1, <1>2, <1>3 DEF IsGrid
<1>5. d.style = s.style
  BY <1>1, <1>2, <1>3 DEF IsGrid
<1> QED
  BY <1>1, <1>2, <1>4, <1>5 DEF Alike

\* Without new columns there is nothing to dress ...
LEMMA DressedNone ==
  ASSUME NEW s, IsSheet(s), NEW h, NEW p \in Nat
  PROVE  Dressed(s, h, p, 0) = s
<1>0. PICK n \in Nat : n = 0
  OBVIOUS
<1>1. PICK d : d = Dressed(s, h, p, n)
  OBVIOUS
<1>2. /\ IsSheet(d) /\ Alike(s, d) /\ d.cell = s.cell /\ d.dims = s.dims
      /\ \A q \in Grid(s.rows, s.cols) :
            d.style[q] = IF DressedBy(s, h, p, n, Neighbour(s, p, n), q)
                         THEN s.style[<<q[1], Neighbour(s, p, n)>>]
                         ELSE s.style[q]
  BY <1>1, DressedIs
<1>3. ASSUME NEW q, NEW nb PROVE ~DressedBy(s, h, p, n, nb, q)
  <2>1. \A c : c \notin p..(p + n - 1)
    BY <1>0
  <2> QED
    BY <2>1 DEF DressedBy
<1>4. \A q \in Grid(s.rows, s.cols) : d.style[q] = s.style[q]
  BY <1>2, <1>3
<1>5. d = s
  BY <1>2, <1>4, SameSheet
<1> QED
  BY <1>0, <1>1, <1>5

\* ... captions that are there are written as they are ...
LEMMA TitledSame ==
  ASSUME NEW s, IsSheet(s), NEW h, NEW f,
         \A k \in Captions : f[k] \in Nat,
         \A k, l \in Captions : f[k] = f[l] => k = l,
         \A k \in Captions : s.cell[<<h, f[k]>>] = Caption(k)
  PROVE  Titled(s, h, f, Captions) = s
<1>1. PICK d : d = Titled(s, h, f, Captions)
  OBVIOUS
<1>2. \A c : c \notin NewColumns(f, Captions)
  BY DEF NewColumns
<1>3. /\ IsSheet(d) /\ Alike(s, d)
      /\ d.dims = s.dims \cup {OurDim(c) : c \in NewColumns(f, Captions)}
      /\ \A q \in Grid(s.rows, s.cols) :
            /\ d.cell[q] = IF q[1] = h /\ q[2] \in OursIn(f)
                           THEN Caption(KeyIn(f, q[2])) ELSE s.cell[q]
            /\ d.style[q] = IF q[1] = h /\ q[2] \in NewColumns(f, Captions)
                            THEN TitleStyle(s, h, f, Captions) ELSE s.style[q]
  BY <1>1, TitledIs
<1>4. d.dims = s.dims
  BY <1>2, <1>3
<1>5. ASSUME NEW q \in Grid(s.rows, s.cols)
      PROVE  d.cell[q] = s.cell[q] /\ d.style[q] = s.style[q]
  <2>1. d.style[q] = s.style[q]
    BY <1>2, <1>3
  <2>2. CASE ~(q[1] = h /\ q[2] \in OursIn(f))
    BY <1>3, <2>1, <2>2
  <2>3. CASE q[1] = h /\ q[2] \in OursIn(f)
    <3>1. PICK k \in Captions : q[2] = f[k]
      BY <2>3 DEF OursIn
    <3>2. KeyIn(f, q[2]) = k
      BY <3>1 DEF KeyIn
    <3>3. q = <<h, f[k]>>
      BY <2>3, <3>1 DEF Grid
    <3>4. d.cell[q] = Caption(k)
      BY <1>3, <2>3, <3>2
    <3> QED
      BY <2>1, <3>3, <3>4
  <2> QED
    BY <2>2, <2>3
<1>6. d = s
  BY <1>3, <1>4, <1>5, SameSheet
<1> QED
  BY <1>1, <1>6

LEMMA CornerIs ==
  ASSUME NEW s, IsSheet(s), NEW S, \A q \in S : q \in Grid(s.rows, s.cols), S # {}
  PROVE  <<TopOf(S), LeftOf(S)>> \in S
<1>1. \A q \in S : q[1] \in Nat /\ q[2] \in Nat /\ q = <<q[1], q[2]>>
  BY DEF Grid
<1>2. PICK R : R = {q[1] : q \in S}
  OBVIOUS
<1>3. R # {} /\ \A r \in R : r \in Nat
  BY <1>1, <1>2
<1>4. PICK t : t = First(R)
  OBVIOUS
<1>5. t \in R
  BY <1>3, <1>4, FirstIsLeast
<1>6. PICK C : C = {q[2] : q \in {x \in S : x[1] = t}}
  OBVIOUS
<1>7. PICK p \in S : p[1] = t
  BY <1>2, <1>5
<1>8. p[2] \in C
  BY <1>6, <1>7
<1>9. \A c \in C : c \in Nat
  BY <1>1, <1>6
<1>10. PICK l : l = First(C)
  OBVIOUS
<1>11. l \in C
  BY <1>8, <1>9, <1>10, FirstIsLeast
<1>12. PICK q \in S : q[1] = t /\ q[2] = l
  BY <1>6, <1>11
<1>13. q = <<t, l>>
  BY <1>1, <1>12
<1>14. TopOf(S) = t
  BY <1>2, <1>4, Zenon DEF TopOf
<1>15. LeftOf(S) = l
  BY <1>6, <1>10, <1>14, Zenon DEF LeftOf
<1> QED
  BY <1>12, <1>13, <1>14, <1>15

\* ... and so are answers, in the style they have.
LEMMA AnsweredTwice ==
  ASSUME NEW b, IsSheet(b), NEW h, NEW f, NEW ans,
         NEW d, d = Answered(b, h, f, ans)
  PROVE  Answered(d, h, f, ans) = d
<1>1. PICK S, T, e : /\ S = StyledIn(b, h, f) /\ T = StyledIn(d, h, f)
                     /\ e = Answered(d, h, f, ans)
  OBVIOUS
<1>2. /\ IsSheet(d) /\ Alike(b, d) /\ d.dims = b.dims
      /\ \A q \in Grid(b.rows, b.cols) :
            /\ d.cell[q] = IF AnsweredAt(h, f, ans, q)
                           THEN ValueAt(b, f, ans, q) ELSE b.cell[q]
            /\ d.style[q] = IF AnsweredAt(h, f, ans, q) /\ S # {}
                            THEN b.style[<<TopOf(S), LeftOf(S)>>]
                            ELSE b.style[q]
  BY <1>1, AnsweredIs
<1>3. d.rows = b.rows /\ d.cols = b.cols
  BY <1>2 DEF Alike
<1>4. /\ IsSheet(e) /\ Alike(d, e) /\ e.dims = d.dims
      /\ \A q \in Grid(b.rows, b.cols) :
            /\ e.cell[q] = IF AnsweredAt(h, f, ans, q)
                           THEN ValueAt(d, f, ans, q) ELSE d.cell[q]
            /\ e.style[q] = IF AnsweredAt(h, f, ans, q) /\ T # {}
                            THEN d.style[<<TopOf(T), LeftOf(T)>>]
                            ELSE d.style[q]
  BY <1>1, <1>2, <1>3, AnsweredIs
<1>5. \A q \in Grid(b.rows, b.cols) :
         q[2] \notin OursIn(f) => d.style[q] = b.style[q]
  BY <1>2 DEF AnsweredAt
<1>6. T = S
  BY <1>1, <1>3, <1>5 DEF StyledIn
<1>7. ASSUME NEW q \in Grid(b.rows, b.cols) PROVE e.style[q] = d.style[q]
  <2>1. CASE AnsweredAt(h, f, ans, q) /\ S # {}
    <3>1. PICK c : c = <<TopOf(S), LeftOf(S)>>
      OBVIOUS
    <3>2. \A x \in S : x \in Grid(b.rows, b.cols) /\ x[2] \notin OursIn(f)
      BY <1>1 DEF StyledIn
    <3>3. c \in S
      BY <2>1, <3>1, <3>2, CornerIs
    <3>4. d.style[c] = b.style[c]
      BY <1>5, <3>2, <3>3
    <3>5. e.style[q] = d.style[c] /\ d.style[q] = b.style[c]
      BY <1>2, <1>4, <1>6, <2>1, <3>1
    <3> QED
      BY <3>4, <3>5
  <2>2. CASE ~(AnsweredAt(h, f, ans, q) /\ S # {})
    BY <1>4, <1>6, <2>2
  <2> QED
    BY <2>1, <2>2
<1>8. ASSUME NEW q \in Grid(b.rows, b.cols) PROVE e.cell[q] = d.cell[q]
  <2>1. CASE AnsweredAt(h, f, ans, q)
    <3>1. e.cell[q] = ValueAt(d, f, ans, q) /\ d.cell[q] = ValueAt(b, f, ans, q)
      BY <1>2, <1>4, <2>1
    <3>2. q = <<q[1], q[2]>>
      BY DEF Grid
    <3>3. CASE KeyIn(f, q[2]) = CHECK_STATUS
      BY <3>1, <3>2, <3>3 DEF ValueAt
    <3>4. CASE KeyIn(f, q[2]) # CHECK_STATUS
      BY <3>1, <3>4 DEF ValueAt
    <3> QED
      BY <3>3, <3>4
  <2>2. CASE ~AnsweredAt(h, f, ans, q)
    BY <1>4, <2>2
  <2> QED
    BY <2>1, <2>2
<1>9. e = d
  BY <1>2, <1>3, <1>4, <1>7, <1>8, SameSheet
<1> QED
  BY <1>1, <1>9

\* The sheet that was made is made of itself again.
LEMMA MadeAgain ==
  ASSUME NEW s, IsSheet(s), KeyedByColumn(s), s.rows \in Nat, s.rows > 0,
         NEW h, h = DetectHeaderRow(s), h \in 1..s.rows,
         NEW ans, \A r \in DOMAIN ans : r \in (h + 1)..s.rows,
         NEW d, d = Made(s, h, ans)
  PROVE  Made(d, h, ans) = d
<1>1. PICK p, n, f, old : /\ p = PointOf(s, h) /\ n = NewOf(s, h)
                          /\ f = ColumnsOf(s, h) /\ old = OldOf(s, h)
  OBVIOUS
<1>2. Placed(s, h, p, n, f, old) /\ IsCaptioned(s, Captioned(s, h), h, p, n, f)
  BY <1>1, Widens, Makes
<1>3. IsMade(s, d, h, p, n, f, ans)
  BY <1>1, Makes
<1>4. ReadsBack(s, d, h, p, n, f, old, ans)
  BY <1>2, <1>3, MadeReadsBack
<1>5. /\ IsSheet(d) /\ KeyedByColumn(d) /\ d.name = AUTOMATED_SHEET
      /\ \A k \in Captions : d.cell[<<h, f[k]>>] = Caption(k)
      /\ \A k \in Captions : /\ Holding(d, h, k) # {}
                             /\ First(Holding(d, h, k)) = f[k]
  BY <1>3, <1>4 DEF IsMade, Automating, ReadsBack
<1>6. Copy(d) = d
  <2>1. d = SheetOf(d.name, d.rows, d.cols, d.cell, d.style, d.merges,
                    d.formats, d.filter, d.pane, d.dims)
    BY <1>5, PartsOfSheet
  <2> QED
    BY <1>5, <2>1 DEF Copy, SheetOf
<1>7. OldIn(d, h) = Captions
  BY <1>5 DEF OldIn
<1>8. NewIn(d, h) = 0
  <2>1. Captions \ OldIn(d, h) = {}
    BY <1>7
  <2>2. Cardinality({}) = 0
    BY FS_EmptySet
  <2> QED
    BY <2>1, <2>2, Zenon DEF NewIn
<1>9. PICK x \in Nat : x = PointIn(d, h)
  <2>1. d.cols \in Nat
    BY <1>5, PartsOfSheet
  <2> QED
    BY <2>1, PointInSheet
<1>10. InsertColumns(d, x, 0) = d
  BY DEF InsertColumns
<1>11. ColumnsIn(d, h) = f
  <2>1. ColumnsIn(d, h) = [k \in Captions |->
           IF k \in OldIn(d, h)
           THEN First(Holding(InsertColumns(d, PointIn(d, h), NewIn(d, h)), h, k))
           ELSE PointIn(d, h) + PlaceIn(OldIn(d, h), k)]
    BY Zenon DEF ColumnsIn
  <2>2. InsertColumns(d, PointIn(d, h), NewIn(d, h)) = d
    BY <1>8, <1>9, <1>10, Zenon
  <2>3. f = [k \in Captions |-> f[k]]
    BY <1>2 DEF Placed
  <2>4. \A k \in Captions :
           First(Holding(InsertColumns(d, PointIn(d, h), NewIn(d, h)), h, k))
              = f[k]
    BY <1>5, <2>2, Zenon
  <2> QED
    BY <1>7, <2>1, <2>3, <2>4
<1>12. Widened(d, h) = d
  BY <1>6, <1>8, <1>9, <1>10, Zenon DEF Widened, PointOf, NewOf
<1>13. Banded(d, h) = d
  <2>1. Dressed(d, h, x, 0) = d
    BY <1>5, DressedNone
  <2> QED
    BY <1>6, <1>8, <1>9, <1>12, <2>1, Zenon DEF Banded, PointOf, NewOf
<1>14. \A k \in Captions : f[k] \in Nat
  <2>1. s.cols \in Nat /\ n \in Nat
    BY <1>2, PartsOfSheet DEF Placed
  <2> QED
    BY <1>2, <2>1 DEF Placed
<1>15. Captioned(d, h) = d
  <2>1. \A k, l \in Captions : f[k] = f[l] => k = l
    BY <1>2 DEF Placed
  <2>2. Titled(d, h, f, Captions) = d
    BY <1>5, <1>14, <2>1, TitledSame
  <2> QED
    BY <1>6, <1>7, <1>11, <1>13, <2>2, Zenon DEF Captioned, ColumnsOf, OldOf
<1>16. Made(d, h, ans) = Answered(d, h, f, ans)
  BY <1>6, <1>11, <1>15, Zenon DEF Made, ColumnsOf
<1>17. Answered(d, h, f, ans) = d
  <2>1. PICK b : b = Captioned(s, h)
    OBVIOUS
  <2>2. IsSheet(b)
    BY <1>2, <2>1 DEF IsCaptioned, Automating
  <2>3. d = Answered(b, h, f, ans)
    BY <1>1, <2>1, Zenon DEF Made
  <2> QED
    BY <2>2, <2>3, AnsweredTwice
<1> QED
  BY <1>16, <1>17

\* Taking away what is not there, and what is last.
LEMMA WithoutNone ==
  ASSUME NEW b, IsBook(b), NEW name, \A i \in 1..Len(b) : b[i].name # name
  PROVE  Without(b, name) = b
<1>1. PICK N \in Nat : N = Len(b)
  BY DEF IsBook
<1>2. PICK S : S = Others(b, name)
  OBVIOUS
<1>3. S = 1..N
  BY <1>1, <1>2 DEF Others
<1>4. \A i \in 0..N : Cardinality(1..i) = i
  BY FS_Interval
<1>5. \A i \in S : i \in 1..N
  BY <1>3
<1>6. ASSUME NEW i \in 1..N PROVE Nth(S, i) = i
  <2>1. {k \in S : k <= i} = 1..i
    BY <1>3
  <2>2. Rank(S, i) = i
    <3>1. Cardinality(1..i) = i
      BY <1>4
    <3> QED
      BY <2>1, <3>1, Zenon DEF Rank
  <2>3. Nth(S, Rank(S, i)) = i
    BY <1>3, <1>5, NthOfRank
  <2> QED
    BY <2>2, <2>3
<1>7. PICK w : w = Without(b, name)
  OBVIOUS
<1>8. /\ IsBook(w) /\ Len(w) = Cardinality(S)
      /\ \A n \in 1..Len(w) : w[n] = b[Nth(S, n)]
  BY <1>2, <1>7, WithoutKeeps
<1>9. Len(w) = N
  BY <1>3, <1>4, <1>8
<1>10. \A n \in 1..N : w[n] = b[n]
  BY <1>6, <1>8, <1>9
<1> QED
  BY <1>1, <1>7, <1>8, <1>9, <1>10, SameBook

LEMMA WithoutLast ==
  ASSUME NEW b, IsBook(b), NEW s, NEW name, s.name = name
  PROVE  Without(Append(b, s), name) = Without(b, name)
<1>1. PICK c : c = Append(b, s)
  OBVIOUS
<1>2. PICK N \in Nat : N = Len(b)
  BY DEF IsBook
<1>3. /\ IsBook(c) /\ Len(c) = N + 1 /\ c[N + 1] = s
      /\ \A i \in 1..N : c[i] = b[i]
  BY <1>1, <1>2, AppendIs
<1>4. PICK S : S = Others(b, name)
  OBVIOUS
<1>5. Others(c, name) = S
  <2>1. \A i : i \in 1..(N + 1) <=> i \in 1..N \/ i = N + 1
    OBVIOUS
  <2> QED
    BY <1>2, <1>3, <1>4, <2>1 DEF Others
<1>6. PICK v, w : v = Without(c, name) /\ w = Without(b, name)
  OBVIOUS
<1>7. /\ IsBook(v) /\ Len(v) = Cardinality(S)
      /\ \A n \in 1..Len(v) : v[n] = c[Nth(S, n)]
  BY <1>3, <1>5, <1>6, WithoutKeeps
<1>8. /\ IsBook(w) /\ Len(w) = Cardinality(S)
      /\ \A n \in 1..Len(w) : w[n] = b[Nth(S, n)] /\ Nth(S, n) \in S
  BY <1>4, <1>6, WithoutKeeps
<1>9. \A i \in S : i \in 1..N
  BY <1>2, <1>4 DEF Others
<1>10. \A n \in 1..Len(v) : v[n] = w[n]
  BY <1>3, <1>7, <1>8, <1>9
<1>11. v = w
  BY <1>7, <1>8, <1>10, SameBook
<1> QED
  BY <1>1, <1>6, <1>11

LEMMA OwnAgain ==
  ASSUME NEW b, IsBook(b), NEW a, a.name = AUTOMATED_SHEET,
         NEW l, l.name = LATEST_REVISIONS_SHEET
  PROVE  Own(Append(Append(Own(b), a), l)) = Own(b)
<1>1. PICK o : o = Own(b)
  OBVIOUS
<1>2. IsBook(o)
  BY <1>1, OwnKeeps
<1>3. \A i \in 1..Len(o) : /\ o[i].name # AUTOMATED_SHEET
                           /\ o[i].name # LATEST_REVISIONS_SHEET
  <2>1. PICK f : OwnAt(f, b, o)
    BY <1>1, OwnKeeps
  <2> QED
    BY <2>1 DEF OwnAt, Added
<1>4. Without(Append(o, a), AUTOMATED_SHEET) = o
  <2>1. Without(o, AUTOMATED_SHEET) = o
    BY <1>2, <1>3, WithoutNone
  <2>2. Without(Append(o, a), AUTOMATED_SHEET) = Without(o, AUTOMATED_SHEET)
    BY <1>2, WithoutLast
  <2> QED
    BY <2>1, <2>2
<1>5. PICK c : c = Append(o, a)
  OBVIOUS
<1>6. IsBook(c)
  BY <1>2, <1>5, AppendIs
<1>7. Without(Append(c, l), AUTOMATED_SHEET) = Append(o, l)
  <2>1. l.name # AUTOMATED_SHEET
    BY OutputAssumption
  <2>2. Without(Append(c, l), AUTOMATED_SHEET) =
           Append(Without(c, AUTOMATED_SHEET), l)
    BY <1>6, <2>1, WithoutAppend
  <2> QED
    BY <1>4, <1>5, <2>2
<1>8. Without(Append(o, l), LATEST_REVISIONS_SHEET) = o
  <2>1. Without(o, LATEST_REVISIONS_SHEET) = o
    BY <1>2, <1>3, WithoutNone
  <2>2. Without(Append(o, l), LATEST_REVISIONS_SHEET) =
           Without(o, LATEST_REVISIONS_SHEET)
    BY <1>2, WithoutLast
  <2> QED
    BY <2>1, <2>2
<1>9. Own(Append(c, l)) = o
  BY <1>7, <1>8, Zenon DEF Own
<1> QED
  BY <1>1, <1>5, <1>9

\* What the pass over the present upload has written or will write.
DueHeader == DetectHeaderRow(Source)
DueResult == Made(Source, DueHeader, answers)
Due == Append(Append(Own(upload), DueResult),
              ExtractOf(DueResult, DueHeader, latest))

\* Once a workbook was written, it is the one that is due.
AgainInv == runs > 0 => saved = Due

LEMMA OutputIsDue ==
  ASSUME header = DetectHeaderRow(Source)
  PROVE  Output = Due /\ Result = DueResult
BY Zenon DEF Output, Due, Result, DueResult, Extract, DueHeader

LEMMA DueAgain ==
  ASSUME OutputInv, Rerun
  PROVE  Due' = Due /\ saved = Due
<1>1. UploadInv /\ PassInv
  BY DEF OutputInv
<1>2. /\ step = "saved" /\ upload' = saved
      /\ UNCHANGED <<answers, latest, book, placement, written, saved, runs>>
  BY DEF Rerun
<1>3. header = DetectHeaderRow(Source) /\ saved = Output
  BY <1>1, <1>2 DEF PassInv
<1>4. PICK b, s, h, ans, d, l, o :
         /\ b = saved /\ s = Source /\ h = header /\ ans = answers /\ d = Result
         /\ l = Extract /\ o = Own(upload)
  OBVIOUS
<1>5. Chosen(b) \in {s, d}
  BY <1>1, <1>3, <1>4, FoundInOutput
<1>6. Source' = Chosen(b)
  BY <1>2, <1>4 DEF Source
<1>7. /\ IsSheet(s) /\ KeyedByColumn(s) /\ s.rows \in Nat /\ s.rows > 0
      /\ h = DetectHeaderRow(s) /\ h \in 1..s.rows
      /\ \A r \in DOMAIN ans : r \in (h + 1)..s.rows
  <2>1. s.rows > 0
    BY <1>1, <1>4 DEF UploadInv
  <2> QED
    BY <1>1, <1>3, <1>4, <2>1, SourceFacts
<1>8. /\ DetectHeaderRow(d) = h
      /\ d.name = AUTOMATED_SHEET /\ l.name = LATEST_REVISIONS_SHEET
  BY <1>1, <1>3, <1>4, PassFacts DEF ReadsBack
<1>9. d = Made(s, h, ans)
  BY <1>4, Zenon DEF Result
<1>10. Made(d, h, ans) = d
  BY <1>7, <1>9, MadeAgain
<1>11. DueHeader' = h
  BY <1>5, <1>6, <1>7, <1>8 DEF DueHeader
<1>12. DueResult' = d
  <2>1. DueResult' = Made(Chosen(b), h, ans)
    BY <1>2, <1>4, <1>6, <1>11 DEF DueResult
  <2> QED
    BY <1>5, <1>9, <1>10, <2>1
<1>13. b = Append(Append(o, d), l)
  BY <1>3, <1>4, Zenon DEF Output
<1>14. Own(b) = o
  <2>1. PICK u : u = upload
    OBVIOUS
  <2>2. IsBook(u) /\ o = Own(u)
    BY <1>1, <1>4, <2>1 DEF UploadInv
  <2> QED
    BY <1>8, <1>13, <2>2, OwnAgain
<1>15. l = ExtractOf(d, h, latest)
  BY <1>4, Zenon DEF Extract
<1>16. Due' = b
  <2>1. Own(upload)' = o
    BY <1>2, <1>4, <1>14
  <2>2. Due' = Append(Append(o, d), ExtractOf(d, h, latest))
    BY <1>2, <1>11, <1>12, <2>1 DEF Due
  <2> QED
    BY <1>13, <1>15, <2>2
<1>17. saved = Due
  BY <1>3, OutputIsDue
<1> QED
  BY <1>4, <1>16, <1>17

\* A step saves nothing, or what is due.
LEMMA SavesWhatIsDue ==
  ASSUME OutputInv, [Next]_vars
  PROVE  /\ Due' = Due
         /\ \/ saved' = saved /\ runs' = runs
            \/ saved' = Due
<1>1. CASE Rerun
  BY <1>1, DueAgain DEF Rerun
<1>2. CASE Save
  <2>1. header = DetectHeaderRow(Source) /\ book = Output
    BY <1>2 DEF Save, OutputInv, PassInv
  <2>2. saved' = Due
    BY <1>2, <2>1, OutputIsDue DEF Save
  <2>3. upload' = upload /\ answers' = answers /\ latest' = latest
    BY <1>2 DEF Save, given
  <2>4. Due' = Due
    BY <2>3 DEF Due, DueResult, DueHeader, Source
  <2> QED
    BY <2>2, <2>4
<1>3. CASE \/ CopySheet \/ ResolveColumns \/ DressTitleRows \/ WriteHeaders
           \/ WriteRows \/ WriteLatestRevisions \/ UNCHANGED vars
  <2>1. UNCHANGED <<given, saved, runs>>
    BY <1>3, ResolveDoes, DressDoes, TitleDoes, AnswerDoes, ExtractDoes
       DEF CopySheet, Copying, vars
  <2>2. upload' = upload /\ answers' = answers /\ latest' = latest
    BY <2>1 DEF given
  <2>3. Due' = Due
    BY <2>2 DEF Due, DueResult, DueHeader, Source
  <2> QED
    BY <2>1, <2>3
<1> QED
  BY <1>1, <1>2, <1>3 DEF Next

\* A re-run over an already-automated workbook replaces the sheets rather than
\* accumulating (_copy_sheet): whichever sheet is then found, the workbook that
\* is written is the one that was uploaded.
THEOREM SecondRunsChangeNothing == Spec => RerunChangesNothing
<1>1. Init => AgainInv
  BY DEF Init, AgainInv
<1>2. OutputInv /\ AgainInv /\ [Next]_vars => AgainInv'
  <2> SUFFICES ASSUME OutputInv, AgainInv, [Next]_vars PROVE AgainInv'
    OBVIOUS
  <2> QED
    BY SavesWhatIsDue DEF AgainInv
<1>3. OutputInv /\ AgainInv /\ [Next]_vars => [runs > 0 => saved' = saved]_vars
  <2> SUFFICES ASSUME OutputInv, AgainInv, [Next]_vars, runs > 0
               PROVE  saved' = saved
    OBVIOUS
  <2> QED
    BY SavesWhatIsDue DEF AgainInv
<1> QED
  BY <1>1, <1>2, <1>3, OutputInvariant, PTL DEF Spec, RerunChangesNothing
============================================================================
