------------------------ MODULE LatestRevision_proofs ------------------------
(***************************************************************************)
(* Theorems about LatestRevision for any document numbers, any REV cells   *)
(* and any length of the sheet.                                            *)
(***************************************************************************)
EXTENDS LatestRevision, SequenceTheorems, TLAPS

----------------------------------------------------------------------------
(* Revisions                                                               *)

\* A parsed revision has a band and a rank; exactly the bands of the sequence
\* can be latest.
LEMMA ParseBands ==
  ASSUME NEW c \in RevCell
  PROVE  /\ ParseRevision(c).band \in {Unparseable, Numeric, Alphabetic, AsBuilt}
         /\ ParseRevision(c).rank \in Nat
         /\ InSequence(c) <=> ParseRevision(c).band \in {Numeric, Alphabetic}
<1>1. CASE c \in [form : {"null", "other"}]
  BY <1>1 DEF ParseRevision, InSequence, Unparseable, Numeric, Alphabetic, AsBuilt
<1>2. CASE c \in [form : {"number"}, digits : Nat \ {0}, value : Nat]
  <2>1. CASE c.digits <= 3
    BY <1>2, <2>1 DEF ParseRevision, InSequence, Unparseable, Numeric,
                      Alphabetic, AsBuilt
  <2>2. CASE ~(c.digits <= 3)
    BY <1>2, <2>2 DEF ParseRevision, InSequence, Unparseable, Numeric,
                      Alphabetic, AsBuilt
  <2> QED
    BY <2>1, <2>2
<1>3. CASE c \in [form : {"letter"}, value : 0..25]
  <2>1. CASE c.value = 25
    BY <1>3, <2>1 DEF ParseRevision, InSequence, Unparseable, Numeric,
                      Alphabetic, AsBuilt
  <2>2. CASE c.value # 25
    BY <1>3, <2>2 DEF ParseRevision, InSequence, Unparseable, Numeric,
                      Alphabetic, AsBuilt
  <2> QED
    BY <2>1, <2>2
<1> QED
  BY <1>1, <1>2, <1>3 DEF RevCell

\* Comparing (band, ordinal) orders the sequence as the revision rules do.
LEMMA ParseOrders ==
  ASSUME NEW c \in RevCell, NEW d \in RevCell, InSequence(c), InSequence(d),
         NEW p, NEW q, p = ParseRevision(c), q = ParseRevision(d)
  PROVE  Supersedes(c, d) <=>
            p.band > q.band \/ (p.band = q.band /\ p.rank > q.rank)
<1>1. ASSUME NEW e \in RevCell, InSequence(e)
      PROVE  \/ /\ e.form = "number"
                /\ e.value \in Nat
                /\ ParseRevision(e) = [band |-> Numeric, rank |-> e.value]
             \/ /\ e.form = "letter"
                /\ e.value \in Nat
                /\ ParseRevision(e) = [band |-> Alphabetic, rank |-> e.value]
  <2>1. CASE e.form = "number" /\ e.digits <= 3
    BY <1>1, <2>1 DEF ParseRevision, RevCell
  <2>2. CASE e.form = "letter" /\ e.value # 25
    BY <1>1, <2>2 DEF ParseRevision, RevCell
  <2> QED
    BY <1>1, <2>1, <2>2 DEF InSequence
<1>2. /\ \/ c.form = "number" /\ p.band = Numeric
         \/ c.form = "letter" /\ p.band = Alphabetic
      /\ c.value \in Nat /\ p.rank = c.value
  BY <1>1
<1>3. /\ \/ d.form = "number" /\ q.band = Numeric
         \/ d.form = "letter" /\ q.band = Alphabetic
      /\ d.value \in Nat /\ q.rank = d.value
  BY <1>1
<1> QED
  BY <1>2, <1>3 DEF Supersedes, Numeric, Alphabetic

----------------------------------------------------------------------------
(* Invariant                                                               *)

\* What a record says about itself before its document is ranked: it has a
\* reason exactly when it is no candidate.
Undecided(r) ==
    /\ r.status = "EXCEPTION"
    /\ r.latest = FALSE
    /\ r.eligible => r.why = "" /\ r.exception = FALSE
    /\ ~r.eligible => r.why # ""

\* ... and afterwards.
Decided(r) ==
    /\ r.latest <=> r.status = "LATEST"
    /\ r.status \in {"LATEST", "OLD"} => r.why = "" /\ r.exception = FALSE
    /\ r.status = "EXCEPTION" => r.why # ""
    /\ r.exception => r.why # ""

\* What never changes: the position and the candidacy follow from the cells.
Parsed(r) ==
    /\ r.band = ParseRevision(r.raw).band
    /\ r.rank = ParseRevision(r.raw).rank
    /\ r.eligible <=> InSequence(r.raw) /\ r.why # "withdrawn"

\* A latest row beats every other candidate of its document.
AloneOnTop(i) ==
    records[i].latest <=>
       /\ records[i].eligible
       /\ \A j \in Candidates(records[i].doc) \ {i} : Higher(i, j)

RankingInv ==
    /\ TypeOK
    /\ stage = "assemble" => ranked = {}
    /\ \A i \in Rows :
          /\ Parsed(records[i])
          /\ records[i].doc \notin ranked => Undecided(records[i])
          /\ records[i].doc \in ranked => Decided(records[i]) /\ AloneOnTop(i)

----------------------------------------------------------------------------
(* Assembly                                                                *)

\* A record fresh from the pipeline is undecided, and its position and its
\* candidacy follow from its cells.
LEMMA DocumentFacts ==
  ASSUME NEW number \in Numbers, NEW cell \in RevCells, NEW withdrawn \in BOOLEAN
  PROVE  /\ Document(number, cell, withdrawn) \in Record
         /\ Parsed(Document(number, cell, withdrawn))
         /\ Undecided(Document(number, cell, withdrawn))
<1> DEFINE rev == ParseRevision(cell)
<1>1. /\ rev.band \in {Unparseable, Numeric, Alphabetic, AsBuilt}
      /\ rev.rank \in Nat
      /\ InSequence(cell) <=> rev.band \in {Numeric, Alphabetic}
  BY ParseBands, RevisionAssumption
<1>2. Canonical(number) \in Keys
  BY DEF Keys
<1> HIDE DEF rev
<1>3. Unparseable = -1 /\ Numeric = 0 /\ Alphabetic = 1 /\ AsBuilt = 2
  BY DEF Unparseable, Numeric, Alphabetic, AsBuilt
<1> DEFINE why == CASE rev.band = Unparseable -> "unparseable"
                    [] rev.band # Unparseable /\ withdrawn -> "withdrawn"
                    [] rev.band = AsBuilt /\ ~withdrawn -> "asBuilt"
                    [] OTHER -> ""
           el == rev.band \in {Numeric, Alphabetic} /\ ~withdrawn
           exc == why \in {"unparseable", "withdrawn"}
<1>4. why \in {"unparseable", "withdrawn", "asBuilt", ""}
  OBVIOUS
<1>5. \/ /\ el = TRUE /\ exc = FALSE /\ why = ""
         /\ InSequence(cell)
      \/ /\ el = FALSE /\ exc \in BOOLEAN /\ why # ""
         /\ ~InSequence(cell) \/ why = "withdrawn"
  BY <1>1, <1>3
<1>6. Document(number, cell, withdrawn) =
         [number |-> number, doc |-> Canonical(number), raw |-> cell,
          band |-> rev.band, rank |-> rev.rank, eligible |-> el,
          status |-> "EXCEPTION", latest |-> FALSE, exception |-> exc,
          why |-> why]
  BY DEF Document, rev
<1>b. el \in BOOLEAN /\ exc \in BOOLEAN
  OBVIOUS
<1>7. why \in Whys
  BY <1>4 DEF Whys
<1> HIDE DEF why, el, exc
<1>8. PICK e \in BOOLEAN, x \in BOOLEAN, w \in Whys :
         /\ Document(number, cell, withdrawn) =
               [number |-> number, doc |-> Canonical(number), raw |-> cell,
                band |-> rev.band, rank |-> rev.rank, eligible |-> e,
                status |-> "EXCEPTION", latest |-> FALSE, exception |-> x,
                why |-> w]
         /\ \/ e = TRUE /\ x = FALSE /\ w = "" /\ InSequence(cell)
            \/ /\ e = FALSE /\ w # ""
               /\ ~InSequence(cell) \/ w = "withdrawn"
  BY <1>5, <1>6, <1>7, <1>b, Zenon
<1> DEFINE r == Document(number, cell, withdrawn)
<1>9. r = [number |-> number, doc |-> Canonical(number), raw |-> cell,
           band |-> rev.band, rank |-> rev.rank, eligible |-> e,
           status |-> "EXCEPTION", latest |-> FALSE, exception |-> x,
           why |-> w]
  BY <1>8, Zenon
<1>10. /\ \/ e = TRUE /\ x = FALSE /\ w = "" /\ InSequence(cell)
          \/ /\ e = FALSE /\ w # ""
             /\ ~InSequence(cell) \/ w = "withdrawn"
       /\ e \in BOOLEAN /\ x \in BOOLEAN /\ w \in Whys
  BY <1>8, Zenon
<1> HIDE DEF r
<1>11. r \in Record
  BY <1>1, <1>2, <1>9, <1>10 DEF Record, Statuses
<1>12. /\ r.raw = cell /\ r.band = rev.band /\ r.rank = rev.rank
       /\ r.eligible = e /\ r.status = "EXCEPTION" /\ r.latest = FALSE
       /\ r.exception = x /\ r.why = w
  BY <1>9
<1>13. Parsed(r)
  BY <1>10, <1>12 DEF Parsed, rev
<1>14. Undecided(r)
  BY <1>10, <1>12 DEF Undecided
<1> QED
  BY <1>11, <1>13, <1>14 DEF r

LEMMA AssemblyStep == RankingInv /\ ReadRow => RankingInv'
<1> SUFFICES ASSUME RankingInv, ReadRow
             PROVE  RankingInv'
  OBVIOUS
<1>1. /\ stage = "assemble" /\ ranked = {} /\ stage' = stage /\ ranked' = ranked
      /\ rowsRead \in Nat /\ rowsRead < MaxRows /\ rowsRead' = rowsRead + 1
      /\ records \in Seq(Record)
  BY RevisionAssumption DEF RankingInv, TypeOK, ReadRow
<1>2. rowsRead' \in 0..MaxRows
  BY <1>1, RevisionAssumption
<1>3. CASE UNCHANGED records
  BY <1>1, <1>2, <1>3 DEF RankingInv, TypeOK, Rows, Candidates, Group, Higher,
                          AloneOnTop
<1>4. ASSUME NEW number \in Numbers, NEW cell \in RevCells,
             NEW withdrawn \in BOOLEAN,
             records' = Append(records, Document(number, cell, withdrawn))
      PROVE  RankingInv'
  <2> DEFINE r == Document(number, cell, withdrawn)
  <2>1. r \in Record /\ Parsed(r) /\ Undecided(r)
    BY DocumentFacts
  <2> HIDE DEF r
  <2>2. records' = Append(records, r)
    BY <1>4 DEF r
  <2>3. records' \in Seq(Record)
    BY <1>1, <2>1, <2>2
  <2>4. \A i \in Rows' : records'[i] = r \/ (i \in Rows /\ records'[i] = records[i])
    BY <1>1, <2>1, <2>2 DEF Rows
  <2>5. \A i \in Rows : Parsed(records[i]) /\ Undecided(records[i])
    BY <1>1 DEF RankingInv
  <2>6. \A i \in Rows' : Parsed(records'[i]) /\ Undecided(records'[i])
    BY <2>1, <2>4, <2>5
  <2>7. TypeOK'
    BY <1>1, <1>2, <2>3 DEF RankingInv, TypeOK
  <2>8. ranked' = {}
    BY <1>1
  <2> QED
    BY <2>6, <2>7, <2>8 DEF RankingInv, Parsed, Undecided
<1> QED
  BY <1>3, <1>4 DEF ReadRow

----------------------------------------------------------------------------
(* Ranking                                                                 *)

LEMMA RecordFields ==
  ASSUME TypeOK, NEW i \in Rows
  PROVE  /\ records[i] \in Record
         /\ records[i].doc \in Keys
         /\ records[i].band \in Int /\ records[i].rank \in Int
         /\ records[i].eligible \in BOOLEAN /\ records[i].latest \in BOOLEAN
         /\ records[i].exception \in BOOLEAN /\ records[i].why \in Whys
         /\ records[i].raw \in RevCell
<1>1. records[i] \in Record
  BY DEF TypeOK, Rows
<1>2. records[i].band \in {-1, 0, 1, 2}
  BY <1>1 DEF Record, Unparseable, Numeric, Alphabetic, AsBuilt
<1>3. records[i].raw \in RevCells
  BY <1>1 DEF Record
<1> QED
  BY <1>1, <1>2, <1>3, RevisionAssumption DEF Record

\* A winner stands alone exactly when it beats every other candidate; no
\* candidate that is not a winner beats all the others.
LEMMA SoleWinner ==
  ASSUME TypeOK, NEW k \in Keys, NEW i \in Candidates(k)
  PROVE  Winners(k) = {i} <=> \A j \in Candidates(k) \ {i} : Higher(i, j)
<1>1. \A j \in Candidates(k) :
         j \in Rows /\ records[j].band \in Int /\ records[j].rank \in Int
  BY RecordFields DEF Candidates, Group
<1>2. ASSUME Winners(k) = {i}, NEW j \in Candidates(k) \ {i}
      PROVE  Higher(i, j)
  <2>1. ~Higher(j, i) /\ \A l \in Candidates(k) : ~Higher(l, i)
    BY <1>2 DEF Winners
  <2>2. PICK l \in Candidates(k) : Higher(l, j)
    BY <1>2 DEF Winners
  <2> QED
    BY <1>1, <2>1, <2>2 DEF Higher
<1>3. ASSUME \A j \in Candidates(k) \ {i} : Higher(i, j)
      PROVE  Winners(k) = {i}
  BY <1>1, <1>3 DEF Winners, Higher
<1> QED
  BY <1>2, <1>3

\* What a decision leaves alone.
SameCell(r, q) ==
    /\ q.doc = r.doc /\ q.raw = r.raw /\ q.band = r.band /\ q.rank = r.rank
    /\ q.eligible = r.eligible
    /\ q.why = "withdrawn" <=> r.why = "withdrawn"

\* Deciding the rows of a group in which none is eligible.
LEMMA DecideNoneFacts ==
  ASSUME TypeOK, NEW i \in Rows, Undecided(records[i]), ~records[i].eligible,
         NEW q, q = DecideNone(i)
  PROVE  q \in Record /\ SameCell(records[i], q) /\ Decided(q) /\ q.latest = FALSE
<1> DEFINE r == records[i]
<1>1. r.why \in Whys /\ r.why # "" /\ r.exception \in BOOLEAN
  BY RecordFields DEF Undecided
<1>2. q = Decide(i, "EXCEPTION", FALSE, r.exception, r.why)
  BY <1>1 DEF DecideNone
<1>3. "EXCEPTION" \in Statuses /\ FALSE \in BOOLEAN
  BY DEF Statuses
<1>4. /\ q \in Record
      /\ q.doc = r.doc /\ q.raw = r.raw /\ q.band = r.band /\ q.rank = r.rank
      /\ q.eligible = r.eligible /\ q.status = "EXCEPTION" /\ q.latest = FALSE
      /\ q.exception = r.exception /\ q.why = r.why
  BY <1>1, <1>2, <1>3, RecordFields DEF Decide, Record
<1> HIDE DEF r
<1>5. SameCell(r, q) /\ Decided(q)
  BY <1>1, <1>4 DEF SameCell, Decided
<1> QED
  BY <1>4, <1>5 DEF r

\* Deciding the rows of a group that has a candidate.
LEMMA DecideAmongFacts ==
  ASSUME TypeOK, NEW k, NEW i \in Group(k), Undecided(records[i]),
         NEW q, q = DecideAmong(i, k)
  PROVE  /\ q \in Record /\ SameCell(records[i], q) /\ Decided(q)
         /\ q.latest <=> i \in Winners(k) /\ Winners(k) = {i}
<1> DEFINE r == records[i]
<1>1. /\ i \in Rows
      /\ r \in Record /\ r.why \in Whys /\ r.exception \in BOOLEAN
      /\ r.eligible \in BOOLEAN
  BY RecordFields DEF Group
<1>2. i \in Winners(k) <=> i \in Winners(k) /\ r.eligible
  BY DEF Winners, Candidates
<1>3. \/ /\ i \in Winners(k) /\ Winners(k) = {i}
         /\ q = Decide(i, "LATEST", TRUE, r.exception, r.why)
      \/ /\ i \in Winners(k) /\ Winners(k) # {i}
         /\ q = Decide(i, "EXCEPTION", FALSE, TRUE, "ambiguous")
      \/ /\ i \notin Winners(k) /\ r.eligible
         /\ q = Decide(i, "OLD", FALSE, r.exception, r.why)
      \/ /\ i \notin Winners(k) /\ ~r.eligible /\ r.why # ""
         /\ q = Decide(i, "AS_BUILT", FALSE, r.exception, r.why)
      \/ /\ i \notin Winners(k) /\ ~r.eligible /\ r.why # ""
         /\ q = Decide(i, "EXCEPTION", FALSE, TRUE, r.why)
  BY <1>1 DEF DecideAmong, Undecided
<1> QED
  BY <1>1, <1>2, <1>3 DEF Decide, Record, Statuses, Whys, SameCell, Decided,
                          Undecided

\* A decision says of every row of the group whether it beats the others.
LEMMA RankFacts ==
  ASSUME RankingInv, NEW k \in Keys, k \notin ranked, RankGroup(k), NEW i \in Rows
  PROVE  /\ Rows' = Rows /\ records'[i] \in Record
         /\ SameCell(records[i], records'[i])
         /\ i \notin Group(k) => records'[i] = records[i]
         /\ i \in Group(k) =>
              /\ Decided(records'[i])
              /\ records'[i].latest <=>
                    /\ records[i].eligible
                    /\ \A j \in Candidates(k) \ {i} : Higher(i, j)
<1>1. TypeOK /\ Rows' = Rows
  BY DEF RankingInv, RankGroup, Rows
<1>2. CASE i \notin Group(k)
  BY <1>1, <1>2, RecordFields DEF RankGroup, SameCell
<1>3. CASE i \in Group(k)
  <2>1. Undecided(records[i])
    BY <1>3 DEF RankingInv, Group
  <2>2. CASE Candidates(k) = {}
    <3>1. records'[i] = DecideNone(i) /\ ~records[i].eligible
      BY <1>3, <2>2 DEF RankGroup, Candidates
    <3> QED
      BY <1>1, <1>3, <2>1, <3>1, DecideNoneFacts
  <2>3. CASE Candidates(k) # {}
    <3>1. records'[i] = DecideAmong(i, k)
      BY <1>3, <2>3 DEF RankGroup
    <3>2. /\ records'[i] \in Record /\ SameCell(records[i], records'[i])
          /\ Decided(records'[i])
          /\ records'[i].latest <=> i \in Winners(k) /\ Winners(k) = {i}
      BY <1>1, <1>3, <2>1, <3>1, DecideAmongFacts
    <3>3. CASE records[i].eligible
      <4>1. i \in Candidates(k)
        BY <1>3, <3>3 DEF Candidates
      <4>2. Winners(k) = {i} <=> \A j \in Candidates(k) \ {i} : Higher(i, j)
        BY <1>1, <4>1, SoleWinner
      <4>3. Winners(k) = {i} => i \in Winners(k)
        OBVIOUS
      <4> QED
        BY <1>1, <1>3, <3>2, <3>3, <4>2, <4>3
    <3>4. CASE ~records[i].eligible
      <4>1. i \notin Winners(k)
        BY <3>4 DEF Winners, Candidates
      <4> QED
        BY <1>1, <1>3, <3>2, <3>4, <4>1
    <3> QED
      BY <3>3, <3>4
  <2> QED
    BY <2>2, <2>3
<1> QED
  BY <1>2, <1>3

LEMMA RankingStep == RankingInv /\ RankNext => RankingInv'
<1> SUFFICES ASSUME RankingInv, RankNext
             PROVE  RankingInv'
  OBVIOUS
<1>1. PICK i \in Rows : records[i].doc \notin ranked /\ RankGroup(records[i].doc)
  BY DEF RankNext
<1> DEFINE k == records[i].doc
<1>2. /\ TypeOK /\ k \in Keys /\ k \notin ranked /\ RankGroup(k)
      /\ ranked' = ranked \cup {k} /\ stage' = stage /\ stage = "rank"
      /\ rowsRead' = rowsRead
  BY <1>1, RecordFields DEF RankingInv, RankGroup, RankNext
<1> HIDE DEF k
<1>3. Rows' = Rows /\ Rows = 1..Len(records) /\ Len(records) \in Nat
  BY <1>2 DEF TypeOK, RankGroup, Rows
<1>4. \A j \in Rows : records'[j] \in Record /\ SameCell(records[j], records'[j])
  BY <1>2, RankFacts
<1>5. TypeOK'
  <2>1. records' \in [1..Len(records) -> Record]
    BY <1>2, <1>3, <1>4 DEF RankGroup
  <2>2. records' \in Seq(Record)
    BY <1>3, <2>1, SeqDef
  <2> QED
    BY <1>2, <2>2 DEF TypeOK
<1>6. /\ \A d : Candidates(d)' = Candidates(d)
      /\ \A j, l \in Rows : Higher(j, l)' <=> Higher(j, l)
  BY <1>3, <1>4 DEF Candidates, Group, Higher, SameCell
<1>7. ASSUME NEW j \in Rows
      PROVE  /\ Parsed(records'[j])
             /\ records'[j].doc = records[j].doc
             /\ records'[j].eligible = records[j].eligible
  BY <1>4, <1>7 DEF RankingInv, Parsed, SameCell
<1>8. ASSUME NEW j \in Rows, records[j].doc = k
      PROVE  Decided(records'[j]) /\ AloneOnTop(j)'
  <2>1. j \in Group(k)
    BY <1>8 DEF Group
  <2>2. /\ Decided(records'[j])
        /\ records'[j].latest <=>
              /\ records[j].eligible
              /\ \A l \in Candidates(k) \ {j} : Higher(j, l)
    BY <1>2, <2>1, RankFacts
  <2>3. Candidates(k) \subseteq Rows
    BY DEF Candidates, Group
  <2> QED
    BY <1>6, <1>7, <1>8, <2>2, <2>3 DEF AloneOnTop
<1>9. ASSUME NEW j \in Rows, records[j].doc # k
      PROVE  /\ records'[j] = records[j]
             /\ AloneOnTop(j) => AloneOnTop(j)'
  <2>1. records'[j] = records[j]
    BY <1>2, <1>9, RankFacts DEF Group
  <2>2. Candidates(records[j].doc) \subseteq Rows
    BY DEF Candidates, Group
  <2> QED
    BY <1>6, <2>1, <2>2 DEF AloneOnTop
<1>10. ASSUME NEW j \in Rows
       PROVE  /\ Parsed(records'[j])
              /\ records'[j].doc \notin ranked' => Undecided(records'[j])
              /\ records'[j].doc \in ranked' =>
                    Decided(records'[j]) /\ AloneOnTop(j)'
  <2>1. CASE records[j].doc = k
    BY <1>2, <1>7, <1>8, <2>1
  <2>2. CASE records[j].doc # k
    BY <1>2, <1>7, <1>9, <2>2 DEF RankingInv
  <2> QED
    BY <2>1, <2>2
<1> QED
  BY <1>2, <1>3, <1>5, <1>10 DEF RankingInv, Parsed, Undecided, Decided

----------------------------------------------------------------------------
(* Theorems                                                                *)

LEMMA RankingInvariant == Spec => []RankingInv
<1>1. Init => RankingInv
  <2> SUFFICES ASSUME Init PROVE RankingInv
    OBVIOUS
  <2>1. Rows = {} /\ records \in Seq(Record)
    BY DEF Init, Rows
  <2> QED
    BY <2>1, RevisionAssumption DEF Init, RankingInv, TypeOK
<1>2. RankingInv /\ [Next]_vars => RankingInv'
  <2> SUFFICES ASSUME RankingInv, [Next]_vars
               PROVE  RankingInv'
    OBVIOUS
  <2>1. CASE ReadRow
    BY <2>1, AssemblyStep
  <2>2. CASE RankNext
    BY <2>2, RankingStep
  <2>3. CASE EndOfSheet \/ Return \/ UNCHANGED vars
    <3>1. /\ UNCHANGED <<rowsRead, records, ranked>>
          /\ stage' \in {"assemble", "rank", "done"}
          /\ stage' = "assemble" => stage = "assemble"
      BY <2>3 DEF EndOfSheet, Return, vars, RankingInv, TypeOK
    <3>2. TypeOK' /\ (stage' = "assemble" => ranked' = {})
      BY <3>1 DEF RankingInv, TypeOK
    <3>3. /\ Rows' = Rows
          /\ \A i : AloneOnTop(i)' <=> AloneOnTop(i)
      BY <3>1 DEF Rows, AloneOnTop, Candidates, Group, Higher
    <3> QED
      BY <3>1, <3>2, <3>3 DEF RankingInv, Parsed, Undecided, Decided
  <2> QED
    BY <2>1, <2>2, <2>3 DEF Next
<1> QED
  BY <1>1, <1>2, PTL DEF Spec

\* Every variable keeps its type in every reachable state.
THEOREM RevisionTypeCorrect == Spec => []TypeOK
<1>1. RankingInv => TypeOK
  BY DEF RankingInv
<1> QED
  BY <1>1, RankingInvariant, PTL

\* determine_latest marks exactly the rows that stand out in their document,
\* whatever the sheet holds.
THEOREM LatestStandOut == Spec => []LatestStandsOut
<1>1. RankingInv => LatestStandsOut
  <2> SUFFICES ASSUME RankingInv, NEW i \in Rows
               PROVE  /\ records[i].latest <=>
                            /\ records[i].doc \in ranked
                            /\ Contender(i)
                            /\ \A j \in Group(records[i].doc) \ {i} :
                                  Contender(j) =>
                                     Supersedes(records[i].raw, records[j].raw)
                      /\ records[i].latest <=> records[i].status = "LATEST"
    BY DEF LatestStandsOut
  <2> DEFINE k == records[i].doc
  <2>1. \A j \in Rows : Contender(j) <=> records[j].eligible
    BY DEF RankingInv, Parsed, Contender
  <2>2. ASSUME NEW j \in Rows, records[i].eligible, records[j].eligible
        PROVE  Higher(i, j) <=> Supersedes(records[i].raw, records[j].raw)
    <3>1. /\ records[i].raw \in RevCell /\ InSequence(records[i].raw)
          /\ records[j].raw \in RevCell /\ InSequence(records[j].raw)
          /\ records[i].band = ParseRevision(records[i].raw).band
          /\ records[i].rank = ParseRevision(records[i].raw).rank
          /\ records[j].band = ParseRevision(records[j].raw).band
          /\ records[j].rank = ParseRevision(records[j].raw).rank
      BY <2>2, RecordFields DEF RankingInv, Parsed
    <3> QED
      BY <3>1, ParseOrders DEF Higher
  <2>3. Candidates(k) = {j \in Group(k) : Contender(j)} /\ Group(k) \subseteq Rows
    BY <2>1 DEF Candidates, Group
  <2>4. CASE k \in ranked
    <3>1. Decided(records[i]) /\ AloneOnTop(i)
      BY <2>4 DEF RankingInv
    <3>2. records[i].eligible =>
             ((\A j \in Candidates(k) \ {i} : Higher(i, j)) <=>
              (\A j \in Group(k) \ {i} : Contender(j) =>
                  Supersedes(records[i].raw, records[j].raw)))
      BY <2>1, <2>2, <2>3
    <3> QED
      BY <2>1, <2>4, <3>1, <3>2 DEF Decided, AloneOnTop
  <2>5. CASE k \notin ranked
    BY <2>5 DEF RankingInv, Undecided
  <2> QED
    BY <2>4, <2>5
<1> QED
  BY <1>1, RankingInvariant, PTL

\* Statuses, exceptions and reasons agree in every reachable state.
THEOREM ExceptionsAreExplained == Spec => []ExceptionsExplained
<1>1. RankingInv => ExceptionsExplained
  BY DEF RankingInv, ExceptionsExplained, Undecided, Decided
<1> QED
  BY <1>1, RankingInvariant, PTL

\* No document is decided twice and none before the sheet was read.
THEOREM DecisionsAreFinal == Spec => DecisionsStand
<1>1. RankingInv /\ [Next]_vars =>
         [\A i \in Rows : records'[i] # records[i] =>
             /\ stage # "assemble"
             /\ records[i].doc \notin ranked]_vars
  <2> SUFFICES ASSUME RankingInv, Next, NEW i \in Rows, records'[i] # records[i]
               PROVE  /\ stage # "assemble"
                      /\ records[i].doc \notin ranked
    BY DEF vars
  <2>1. CASE ReadRow
    <3>1. records \in Seq(Record)
      BY DEF RankingInv, TypeOK
    <3>2. records'[i] = records[i]
      BY <2>1, <3>1, DocumentFacts DEF ReadRow, Rows
    <3> QED
      BY <3>2
  <2>2. CASE RankNext
    <3>1. PICK l \in Rows : records[l].doc \notin ranked /\ RankGroup(records[l].doc)
      BY <2>2 DEF RankNext
    <3>2. i \in Group(records[l].doc)
      BY <3>1 DEF RankGroup
    <3> QED
      BY <2>2, <3>1, <3>2 DEF RankNext, Group
  <2>3. CASE EndOfSheet \/ Return
    BY <2>3 DEF EndOfSheet, Return
  <2> QED
    BY <2>1, <2>2, <2>3 DEF Next
<1> QED
  BY <1>1, RankingInvariant, PTL DEF Spec, DecisionsStand
=============================================================================
