------------------------ MODULE ReferenceReports_proofs ------------------------
(***************************************************************************)
(* Theorems about ReferenceReports and the modules it is made of, for any  *)
(* sheets, any rules workbooks and any length of the working sheet: the    *)
(* vendor rows of VendorMatching, the answers of ScopeChain and the        *)
(* counts, causes and examples of the reports.                             *)
(***************************************************************************)
EXTENDS ReferenceReports, LatestRevision_proofs, FiniteSetTheorems,
        WellFoundedInduction

----------------------------------------------------------------------------
(* The pipeline                                                            *)

\* A set of numbers has a least one.
LEMMA LeastNumber ==
  ASSUME NEW T \in SUBSET Nat, T # {}
  PROVE  \E m \in T : \A k \in T : m <= k
<1> DEFINE R == {ss \in Nat \X Nat : ss[1] < ss[2]}
<1>1. IsWellFoundedOn(R, Nat)
  BY NatLessThanWellFounded DEF OpToRel
<1>2. \E x \in T : \A y \in T : ~(<<y, x>> \in R)
  <2> HIDE DEF R
  <2> QED
    BY <1>1, WFMin
<1>3. PICK m \in T : \A y \in T : ~(<<y, m>> \in R)
  BY <1>2
<1>4. \A y \in T : ~(y < m)
  BY <1>3
<1> QED
  BY <1>4

\* Every step of a report is a step of the pipeline or leaves it alone, so
\* what LatestRevision promises of the pipeline holds of every report.
LEMMA ReportsRunPipeline == ReportSpec => Spec
<1>1. ReportInit => Init
  BY DEF ReportInit, VendorInit
<1>2. [ReportNext]_allVars => [Next]_vars
  BY DEF ReportNext, allVars, vars, RunPipeline, VendorNext, BuildVendorRows,
         ValidateLatest, CannotStart, CompareRow, PrintReport, AutomateRow,
         vendorVars
<1> QED
  BY <1>1, <1>2, PTL DEF ReportSpec, Spec

\* The rows of the sheet are finitely many, and a step of the pipeline leaves
\* them alone once it is done.
LEMMA RowsFinite == TypeOK => IsFiniteSet(Rows)
<1> SUFFICES ASSUME TypeOK PROVE IsFiniteSet(Rows)
  OBVIOUS
<1>1. records \in Seq(Record)
  BY DEF TypeOK
<1>2. Rows = 1..Len(records) /\ Len(records) \in Nat
  BY <1>1 DEF Rows
<1> QED
  BY <1>2, FS_Interval

LEMMA CardinalityUpTo ==
  ASSUME NEW n \in Nat
  PROVE  IsFiniteSet(1..n) /\ Cardinality(1..n) = n
BY FS_Interval

LEMMA DisjointCardinality ==
  ASSUME NEW S, NEW T, IsFiniteSet(S), IsFiniteSet(T), S \cap T = {}
  PROVE  Cardinality(S \cup T) = Cardinality(S) + Cardinality(T)
<1>1. /\ Cardinality(S) \in Nat /\ Cardinality(T) \in Nat
      /\ Cardinality(S \cap T) = 0
  BY FS_CardinalityType, FS_EmptySet
<1>2. Cardinality(S \cup T) =
         Cardinality(S) + Cardinality(T) - Cardinality(S \cap T)
  BY FS_Union
<1> QED
  BY <1>1, <1>2

LEMMA DoneIsDone == stage = "done" /\ Next => UNCHANGED vars
BY DEF Next, ReadRow, EndOfSheet, RankNext, Return

----------------------------------------------------------------------------
(* Vendor rows                                                             *)

\* The documents a number of a vendor row has the key of.
Holders(n, t) ==
    {j \in Rows : /\ Identifies(records[j].number)
                  /\ KeyOf(t, records[j].number) = KeyOf(t, n)}

\* What VendorsNeverGuess says of one row and its outcome.
NotGuessed(row, o) ==
    /\ o.tier # 0 =>
         /\ \A f \in Usable(row), t \in 1..(o.tier - 1) :
               Holders(row.numbers[f], t) = {}
         /\ \A f \in Usable(row) :
               f < o.field => Holders(row.numbers[f], o.tier) = {}
         /\ {records[j].number : j \in Holders(row.numbers[o.field], o.tier)}
               = IF o.match # << >> THEN {o.match} ELSE o.candidates
         /\ o.match = << >> => Cardinality(o.candidates) > 1
    /\ o.tier = 0 =>
         /\ o.match = << >>
         /\ \A f \in Usable(row), t \in Tiers : Holders(row.numbers[f], t) = {}

LEMMA NeverGuessByRow ==
  (\A i \in DOMAIN vendors.rows :
      NotGuessed(vendors.rows[i].row, vendors.rows[i].outcome))
     => VendorsNeverGuess
BY DEF VendorsNeverGuess, NotGuessed, Holders

\* Of the tiers and fields that have documents one comes first.
LEMMA FirstRung ==
  ASSUME NEW S \in SUBSET (Tiers \X Fields), S # {}
  PROVE  \E s \in S : \A t \in S \ {s} : Earlier(s, t)
<1> DEFINE place(s) == 4 * s[1] + s[2]
           T == {place(s) : s \in S}
<1>1. \A s \in S : s[1] \in 1..3 /\ s[2] \in 1..3 /\ s = <<s[1], s[2]>>
  BY DEF Tiers, Fields
<1>2. T \in SUBSET Nat /\ T # {}
  BY <1>1
<1>3. PICK m \in T : \A k \in T : m <= k
  <2> HIDE DEF T
  <2> QED
    BY <1>2, LeastNumber
<1>4. PICK s \in S : \A t \in S : place(s) <= place(t)
  BY <1>3
<1>5. ASSUME NEW t \in S \ {s}
      PROVE  Earlier(s, t)
  <2>1. /\ s[1] \in 1..3 /\ s[2] \in 1..3 /\ t[1] \in 1..3 /\ t[2] \in 1..3
        /\ s[1] # t[1] \/ s[2] # t[2]
        /\ 4 * s[1] + s[2] <= 4 * t[1] + t[2]
    BY <1>1, <1>4, <1>5
  <2> QED
    BY <2>1 DEF Earlier
<1> QED
  BY <1>5

\* A document that is found has a number.
LEMMA HitsAreNumbers ==
  ASSUME NEW n, NEW t
  PROVE  /\ Hits(t, n) = {records[j].number : j \in Holders(n, t)}
         /\ TypeOK => IsFiniteSet(Hits(t, n)) /\ << >> \notin Hits(t, n)
<1>1. Hits(t, n) = {records[j].number : j \in Holders(n, t)}
  BY DEF Hits, Holders
<1>2. ASSUME TypeOK PROVE IsFiniteSet(Hits(t, n))
  <2>1. IsFiniteSet(Holders(n, t))
    BY <1>2, RowsFinite, FS_Subset DEF Holders
  <2>2. IsFiniteSet({records[j].number : j \in Holders(n, t)})
    <3> DEFINE S == Holders(n, t)
               T == {records[j].number : j \in Holders(n, t)}
               g == [j \in S |-> records[j].number]
    <3>1. g \in Surjection(S, T)
      BY DEF Surjection
    <3> QED
      BY <2>1, <3>1, FS_Surjection
  <2> QED
    BY <1>1, <2>2
<1>3. ASSUME TypeOK PROVE << >> \notin Hits(t, n)
  <2>1. \A j \in Rows : records[j].number \in Numbers
    BY <1>3, RecordFields DEF Record
  <2>2. \A j \in Holders(n, t) : records[j].number # << >>
    BY <2>1, RevisionAssumption DEF Holders, Identifies
  <2> QED
    BY <1>1, <2>2
<1> QED
  BY <1>1, <1>2, <1>3

\* match_vendor_row guesses about no row: the ladder stops at the first tier
\* and field with a document, and gives that one only if it is alone.
LEMMA MatchGuessesNot ==
  ASSUME TypeOK, NEW row
  PROVE  NotGuessed(row, MatchVendorRow(row))
<1> DEFINE n(f) == row.numbers[f]
           rungs == {s \in Tiers \X Usable(row) : Hits(s[1], n(s[2])) # {}}
           first == CHOOSE s \in rungs : \A t \in rungs \ {s} : Earlier(s, t)
           hits == Hits(first[1], n(first[2]))
           o == MatchVendorRow(row)
<1>1. Usable(row) \subseteq Fields
  BY DEF Usable
<1>2. \A t \in Tiers, f \in Usable(row) :
         Holders(n(f), t) # {} <=> <<t, f>> \in rungs
  <2>1. \A t \in Tiers, f \in Usable(row) :
           Hits(t, n(f)) = {records[j].number : j \in Holders(n(f), t)}
    BY HitsAreNumbers
  <2> QED
    BY <2>1
<1>3. ASSUME rungs = {} PROVE NotGuessed(row, o)
  <2>1. o.tier = 0 /\ o.match = << >>
    BY <1>3 DEF MatchVendorRow, Outcome
  <2>2. \A f \in Usable(row), t \in Tiers : Holders(n(f), t) = {}
    BY <1>2, <1>3
  <2> QED
    BY <2>1, <2>2 DEF NotGuessed
<1>4. ASSUME rungs # {} PROVE NotGuessed(row, o)
  <2>1. /\ first \in rungs
        /\ \A t \in rungs \ {first} : Earlier(first, t)
    <3>1. rungs \in SUBSET (Tiers \X Fields)
      BY <1>1
    <3>2. \E s \in rungs : \A t \in rungs \ {s} : Earlier(s, t)
      <4> HIDE DEF rungs
      <4> QED
        BY <1>4, <3>1, FirstRung
    <3> HIDE DEF rungs
    <3> QED
      BY <3>2
  <2>2. /\ first[1] \in Tiers /\ first[2] \in Usable(row)
        /\ first = <<first[1], first[2]>> /\ hits # {}
    <3> HIDE DEF first
    <3>1. first \in Tiers \X Usable(row) /\ Hits(first[1], n(first[2])) # {}
      BY <2>1
    <3> QED
      BY <3>1
  <2>3. /\ hits = {records[j].number : j \in Holders(n(first[2]), first[1])}
        /\ IsFiniteSet(hits) /\ << >> \notin hits
    BY HitsAreNumbers
  <2>4. Usable(row) # {}
    BY <2>2
  <2>5. /\ o.tier = first[1] /\ o.field = first[2]
        /\ Cardinality(hits) = 1 => o.match = (CHOOSE x \in hits : TRUE)
        /\ Cardinality(hits) # 1 => o.match = << >> /\ o.candidates = hits
    <3>1. CASE Cardinality(hits) = 1
      <4>1. o = Outcome(Methods[first[1]], first[1], first[2],
                        CHOOSE x \in hits : TRUE, {})
        BY <1>4, <2>4, <3>1, Zenon DEF MatchVendorRow
      <4> HIDE DEF o, first, hits
      <4> QED
        BY <3>1, <4>1 DEF Outcome
    <3>2. CASE Cardinality(hits) # 1
      <4>1. o = Outcome("AMBIGUOUS", first[1], first[2], << >>, hits)
        BY <1>4, <2>4, <3>2, Zenon DEF MatchVendorRow
      <4> HIDE DEF o, first, hits
      <4> QED
        BY <3>2, <4>1 DEF Outcome
    <3> QED
      BY <3>1, <3>2
  <2> HIDE DEF o, first, hits
  <2>6. \A t \in Tiers, f \in Usable(row) :
           t < o.tier \/ (t = o.tier /\ f < o.field) => Holders(n(f), t) = {}
    <3> SUFFICES ASSUME NEW t \in Tiers, NEW f \in Usable(row),
                        t < o.tier \/ (t = o.tier /\ f < o.field),
                        Holders(n(f), t) # {}
                 PROVE  FALSE
      OBVIOUS
    <3>1. <<t, f>> \in rungs
      BY <1>2
    <3>2. <<t, f>> # first
      BY <1>1, <2>2, <2>5 DEF Tiers, Fields
    <3>3. Earlier(first, <<t, f>>)
      BY <2>1, <3>1, <3>2
    <3> QED
      BY <1>1, <2>2, <2>5, <3>3 DEF Earlier, Tiers, Fields
  <2>7. hits = IF o.match # << >> THEN {o.match} ELSE o.candidates
    <3>1. CASE Cardinality(hits) = 1
      <4>1. PICK x : hits = {x}
        BY <2>3, <3>1, FS_Singleton
      <4> QED
        BY <2>3, <2>5, <3>1, <4>1
    <3>2. CASE Cardinality(hits) # 1
      BY <2>5, <3>2
    <3> QED
      BY <3>1, <3>2
  <2>8. o.match = << >> => Cardinality(o.candidates) > 1
    <3>1. Cardinality(hits) \in Nat /\ Cardinality(hits) # 0
      BY <2>2, <2>3, FS_CardinalityType, FS_EmptySet
    <3>2. Cardinality(hits) = 1 => o.match # << >>
      BY <2>2, <2>3, <2>5
    <3> QED
      BY <2>5, <3>1, <3>2
  <2>9. o.tier # 0 /\ 1..(o.tier - 1) \subseteq Tiers
        /\ \A t \in 1..(o.tier - 1) : t < o.tier
    BY <2>2, <2>5 DEF Tiers
  <2> QED
    BY <2>2, <2>3, <2>5, <2>6, <2>7, <2>8, <2>9 DEF NotGuessed
<1> HIDE DEF o, rungs
<1> QED
  BY <1>3, <1>4 DEF o

\* The vendor rows are built once, when the revisions are decided, and no
\* record changes afterwards.
VendorInv ==
    /\ TypeOK
    /\ vendors.built => stage = "done"
    /\ ~vendors.built => vendors.rows = << >>
    /\ \A i \in DOMAIN vendors.rows :
          NotGuessed(vendors.rows[i].row, vendors.rows[i].outcome)

LEMMA BuildStep == VendorInv /\ BuildVendorRows => VendorInv'
<1> SUFFICES ASSUME VendorInv, BuildVendorRows PROVE VendorInv'
  OBVIOUS
<1>1. UNCHANGED vars /\ stage = "done"
  BY DEF BuildVendorRows, vars
<1> DEFINE kept == SelectSeq(VendorSheet, LAMBDA row : ~Decorative(row))
           built == [i \in DOMAIN kept |->
                       [row |-> kept[i], outcome |-> MatchVendorRow(kept[i])]]
<1>2. vendors' = [built |-> TRUE, rows |-> built]
  BY DEF BuildVendorRows
<1> HIDE DEF kept
<1>5. \A i \in DOMAIN built :
         /\ i \in DOMAIN kept
         /\ built[i].row = kept[i]
         /\ built[i].outcome = MatchVendorRow(kept[i])
  OBVIOUS
<1> HIDE DEF built
<1>6. \A i \in DOMAIN built : NotGuessed(built[i].row, built[i].outcome)
  <2> TAKE i \in DOMAIN built
  <2>1. NotGuessed(kept[i], MatchVendorRow(kept[i]))
    BY MatchGuessesNot DEF VendorInv
  <2> QED
    BY <1>5, <2>1
<1>7. \A i \in DOMAIN vendors'.rows :
         NotGuessed(vendors'.rows[i].row, vendors'.rows[i].outcome)
  BY <1>2, <1>6
<1>8. UNCHANGED records
  BY <1>1 DEF vars
<1>9. \A row, o : NotGuessed(row, o)' <=> NotGuessed(row, o)
  BY <1>8 DEF NotGuessed, Holders, Rows
<1>10. TypeOK' /\ stage' = "done"
  BY <1>1 DEF VendorInv, TypeOK, vars
<1> QED
  BY <1>2, <1>7, <1>9, <1>10 DEF VendorInv

LEMMA VendorsStand ==
  VendorInv /\ UNCHANGED vendors /\ [Next]_vars /\ TypeOK' => VendorInv'
<1> SUFFICES ASSUME VendorInv, UNCHANGED vendors, [Next]_vars, TypeOK'
             PROVE  VendorInv'
  OBVIOUS
<1>1. CASE vendors.built
  <2>1. UNCHANGED vars
    BY <1>1, DoneIsDone DEF VendorInv
  <2> QED
    BY <2>1 DEF VendorInv, NotGuessed, Holders, Rows, vars
<1>2. CASE ~vendors.built
  <2>1. vendors'.rows = << >> /\ ~vendors'.built
    BY <1>2 DEF VendorInv
  <2> QED
    BY <2>1 DEF VendorInv
<1> QED
  BY <1>1, <1>2

LEMMA PipelineOrBuild ==
  [ReportNext]_allVars => BuildVendorRows \/ ([Next]_vars /\ UNCHANGED vendors)
BY DEF ReportNext, allVars, vars, RunPipeline, VendorNext, ValidateLatest,
       CannotStart, CompareRow, PrintReport, AutomateRow, vendorVars

LEMMA VendorInvariant == ReportSpec => []VendorInv
<1>1. ReportInit /\ TypeOK => VendorInv
  BY DEF ReportInit, VendorInit, VendorInv
<1>2. VendorInv /\ [ReportNext]_allVars /\ TypeOK' => VendorInv'
  BY PipelineOrBuild, BuildStep, VendorsStand
<1>3. ReportSpec => []TypeOK
  BY ReportsRunPipeline, RevisionTypeCorrect, PTL
<1> QED
  BY <1>1, <1>2, <1>3, PTL DEF ReportSpec

\* match_vendor_row makes no uncertain match silently, whatever the sheets
\* hold.
THEOREM VendorsAreNotGuessed == ReportSpec => []VendorsNeverGuess
<1>1. VendorInv => VendorsNeverGuess
  BY NeverGuessByRow DEF VendorInv
<1> QED
  BY <1>1, VendorInvariant, PTL

\* In a report the revisions are decided as in the pipeline alone: once, by
\* the row that stands out, and with a reason.
THEOREM ReportsDecideOnce ==
  ReportSpec => []LatestStandsOut /\ []ExceptionsExplained /\ DecisionsStand
BY ReportsRunPipeline, LatestStandOut, ExceptionsAreExplained,
   DecisionsAreFinal, PTL

----------------------------------------------------------------------------
(* Keyword rules and the table                                             *)

LEMMA RuleFacts ==
  ASSUME NEW b, IsWorkbook(b), KeywordsReadable(b)
  PROVE  \A r \in RuleRows(b) : r.source \in Sources /\ r.row \in Nat
<1> SUFFICES ASSUME NEW s \in Sources, NEW r \in b.sheets[SheetOf(b, s)]
             PROVE  r.row \in Nat
  BY DEF RuleRows
<1>1. SheetOf(b, s) \in DOMAIN b.sheets
  BY DEF SheetOf, KeywordsReadable
<1>2. b.sheets \in [DOMAIN b.sheets -> SUBSET KeywordRow]
  BY DEF IsWorkbook
<1>3. r \in KeywordRow
  BY <1>1, <1>2
<1> QED
  BY <1>3 DEF KeywordRow

\* Of the rules that cover a document one comes before all others.
LEMMA FirstRule ==
  ASSUME NEW b, IsWorkbook(b), KeywordsReadable(b),
         NEW S \in SUBSET RuleRows(b), S # {}
  PROVE  \E r \in S : \A q \in S : ~Before(q, r)
<1>1. \A r \in S : r.source \in Sources /\ r.row \in Nat
  BY RuleFacts
<1> DEFINE R == {r \in S : r.source = "REQUIRED"}
           P == IF R # {} THEN R ELSE S
           T == {r.row : r \in P}
<1>2. P # {} /\ P \subseteq S
  OBVIOUS
<1> HIDE DEF P
<1>3. T \in SUBSET Nat /\ T # {}
  BY <1>1, <1>2
<1>4. PICK m \in T : \A k \in T : m <= k
  <2> HIDE DEF T
  <2> QED
    BY <1>3, LeastNumber
<1>5. PICK r \in P : r.row = m
  BY <1>4
<1>6. \A q \in P : r.row <= q.row
  BY <1>4, <1>5
<1>7. ASSUME NEW q \in S, Before(q, r) PROVE FALSE
  <2>1. q.source \in {"REQUIRED", "NOT_REQUIRED"}
        /\ r.source \in {"REQUIRED", "NOT_REQUIRED"}
        /\ q.row \in Nat /\ r.row \in Nat
    BY <1>1, <1>2 DEF Sources
  <2>2. CASE R # {}
    <3>1. r.source = "REQUIRED"
      BY <2>2 DEF P
    <3>2. q \in P
      BY <1>7, <3>1, <2>1 DEF P, Before
    <3> QED
      BY <1>6, <1>7, <2>1, <3>1, <3>2 DEF Before
  <2>3. CASE R = {}
    <3>1. q \in P /\ q.source = "NOT_REQUIRED"
      BY <2>1, <2>3 DEF P
    <3> QED
      BY <1>6, <1>7, <2>1, <3>1 DEF Before
  <2> QED
    BY <2>2, <2>3
<1> QED
  BY <1>2, <1>5, <1>7

LEMMA ClassifyFacts ==
  ASSUME NEW b, IsWorkbook(b), KeywordsReadable(b), NEW n, NEW t
  PROVE  LET C == Covering(b, n, t)
             v == Classify(b, n, t)
             w == CHOOSE r \in C : \A q \in C : ~Before(q, r)
         IN  /\ C \subseteq RuleBook(b)
             /\ C = {} => v.type = "" /\ v.source = "" /\ v.competing = {}
             /\ C # {} => /\ w \in C /\ \A q \in C : ~Before(q, w)
                          /\ v.type = w.type /\ v.source = w.source
                          /\ v.competing = {r.type : r \in C}
<1> DEFINE C == Covering(b, n, t)
           v == Classify(b, n, t)
           w == CHOOSE r \in C : \A q \in C : ~Before(q, r)
<1>1. C \subseteq RuleBook(b) /\ RuleBook(b) \subseteq RuleRows(b)
  BY DEF Covering, RuleBook
<1>2. v = IF C = {} THEN Unclassified
          ELSE [type |-> w.type, source |-> w.source,
                competing |-> {r.type : r \in C}]
  BY DEF Classify, Covering
<1> HIDE DEF C, v
<1>3. ASSUME C # {} PROVE w \in C /\ \A q \in C : ~Before(q, w)
  <2>1. \E r \in C : \A q \in C : ~Before(q, r)
    BY <1>1, <1>3, FirstRule
  <2> QED
    BY <2>1
<1> HIDE DEF w
<1>4. C = {} => v.type = "" /\ v.source = "" /\ v.competing = {}
  BY <1>2 DEF Unclassified
<1>5. C # {} => /\ v.type = w.type /\ v.source = w.source
                /\ v.competing = {r.type : r \in C}
  BY <1>2
<1> QED
  BY <1>1, <1>3, <1>4, <1>5 DEF C, v, w

\* A label has at most one rule in the table, and none if it is blank.
LEMMA TableFacts ==
  ASSUME NEW b, IsWorkbook(b), NEW label
  PROVE  /\ \A r, q \in TableRules(b, label) : r = q
         /\ TableRules(b, "") = {}
<1>1. /\ b.table \subseteq SowRow
      /\ \A r, q \in b.table : r.row = q.row => r = q
  BY DEF IsWorkbook
<1>2. \A r \in b.table : r.row \in Nat
  BY <1>1 DEF SowRow
<1>3. ASSUME NEW r \in TableRules(b, label), NEW q \in TableRules(b, label)
      PROVE  r = q
  <2>1. r \in b.table /\ q \in b.table /\ r.row <= q.row /\ q.row <= r.row
    BY DEF TableRules
  <2> QED
    BY <1>1, <1>2, <2>1
<1>4. TableRules(b, "") = {}
  BY DEF TableRules
<1> QED
  BY <1>3, <1>4

\* What the scope of a resolved type says about the table and the sheet.
LEMMA ResolveFacts ==
  ASSUME NEW b, IsWorkbook(b), NEW type, NEW source
  PROVE  LET rules == TableRules(b, Label(type))
             sow == Resolve(b, type, source).sow
         IN  /\ sow = <<"NO">> =>
                   \/ Label(type) \in SelfStating
                   \/ \E q \in rules : q.sow = <<"NO">>
                   \/ rules = {} /\ source = "NOT_REQUIRED"
             /\ Opens(sow) => \E q \in rules : Opens(q.sow)
             /\ ScopeOf(sow) = "unknown" =>
                   /\ Label(type) \notin SelfStating
                   /\ \A q \in rules : ScopeOf(q.sow) = "unknown"
                   /\ \/ rules # {} \/ Label(type) = ""
                      \/ source # "NOT_REQUIRED"
<1> DEFINE label == Label(type)
           rules == TableRules(b, label)
           req == Resolve(b, type, source)
           Goal == /\ req.sow = <<"NO">> =>
                         \/ label \in SelfStating
                         \/ \E q \in rules : q.sow = <<"NO">>
                         \/ rules = {} /\ source = "NOT_REQUIRED"
                   /\ Opens(req.sow) => \E q \in rules : Opens(q.sow)
                   /\ ScopeOf(req.sow) = "unknown" =>
                         /\ label \notin SelfStating
                         /\ \A q \in rules : ScopeOf(q.sow) = "unknown"
                         /\ \/ rules # {} \/ label = ""
                            \/ source # "NOT_REQUIRED"
<1> SUFFICES Goal
  OBVIOUS
<1>1. /\ \A r, q \in rules : r = q
      /\ label = "" => rules = {}
  BY TableFacts
<1>2. /\ ~Opens(<< >>) /\ ~Opens(<<"NO">>) /\ << >> # <<"NO">>
      /\ ScopeOf(<<"NO">>) = "out"
  BY DEF Opens, ScopeOf
<1>3. CASE label = ""
  <2>1. label \notin SelfStating
    BY <1>3 DEF SelfStating
  <2>2. req.sow = << >>
    BY <1>3, <2>1 DEF Resolve, Requirement
  <2> QED
    BY <1>1, <1>2, <1>3, <2>1, <2>2
<1>4. CASE label \in SelfStating
  <2>1. label # ""
    BY <1>4 DEF SelfStating
  <2>2. req.sow = <<"NO">>
    BY <1>4, <2>1 DEF Resolve, Requirement
  <2> QED
    BY <1>2, <1>4, <2>2
<1>5. CASE label \notin SelfStating \cup {""} /\ rules # {}
  <2>1. PICK q \in rules : rules = {q}
    BY <1>1, <1>5
  <2>2. req.sow = (CHOOSE r \in rules : TRUE).sow
    BY <1>5 DEF Resolve, Requirement
  <2>3. req.sow = q.sow
    BY <2>1, <2>2
  <2>4. \A x \in rules : x.sow = req.sow
    BY <2>1, <2>3
  <2> HIDE DEF req, rules, label
  <2> QED
    BY <1>5, <2>1, <2>3, <2>4
<1>6. CASE label \notin SelfStating \cup {""} /\ rules = {}
  <2>1. CASE source = "NOT_REQUIRED"
    <3>1. req.sow = <<"NO">>
      BY <1>6, <2>1 DEF Resolve, Requirement
    <3> QED
      BY <1>2, <1>6, <2>1, <3>1
  <2>2. CASE source # "NOT_REQUIRED"
    <3>1. req.sow = << >>
      BY <1>6, <2>2 DEF Resolve, Requirement
    <3> QED
      BY <1>2, <1>6, <2>2, <3>1
  <2> QED
    BY <2>1, <2>2
<1> QED
  BY <1>3, <1>4, <1>5, <1>6

\* The cell of an answer tells its scope, and only a check that is due is left
\* blank.
LEMMA CellFacts ==
  ASSUME NEW sow
  PROVE  LET status == IdbStatus(sow)
             cell == IdbCell(status)
         IN  /\ cell = "NO NEED TO CHECK" => sow = <<"NO">>
             /\ cell = "" => Opens(sow) /\ status.source = "NO_COMPLETION_SOURCE"
             /\ cell = "UNMAPPED" <=> ScopeOf(sow) = "unknown"
             /\ cell = "UNMAPPED" =>
                   status.source \in {"UNRESOLVED_SOW", "SOW_NOT_A_VERDICT"}
             /\ sow = << >> => cell = "UNMAPPED"
<1>1. CASE ScopeOf(sow) = "out"
  <2>1. sow = <<"NO">>
    BY <1>1 DEF ScopeOf
  <2>2. /\ IdbStatus(sow).status = "NO NEED TO CHECK"
        /\ IdbStatus(sow).source = "SOW_NOT_REQUIRED"
    BY <1>1 DEF IdbStatus
  <2>3. IdbCell(IdbStatus(sow)) = "NO NEED TO CHECK"
    BY <2>2 DEF IdbCell
  <2>4. sow # << >>
    BY <2>1
  <2> QED
    BY <1>1, <2>1, <2>3, <2>4
<1>2. CASE ScopeOf(sow) = "in"
  <2>1. Opens(sow) /\ sow # << >>
    BY <1>2 DEF ScopeOf, Opens
  <2>2. IdbStatus(sow).source = "NO_COMPLETION_SOURCE"
    BY <1>2 DEF IdbStatus
  <2>3. /\ IdbCell(IdbStatus(sow)) = ""
        /\ IdbStatus(sow).source = "NO_COMPLETION_SOURCE"
    BY <2>2 DEF IdbCell
  <2> QED
    BY <1>2, <2>1, <2>3
<1>3. CASE ScopeOf(sow) = "unknown"
  <2>1. IdbStatus(sow) =
           [status |-> "UNMAPPED",
            source |-> IF sow = << >> THEN "UNRESOLVED_SOW"
                                      ELSE "SOW_NOT_A_VERDICT"]
    BY <1>3 DEF IdbStatus
  <2> QED
    BY <1>3, <2>1 DEF IdbCell
<1>4. ScopeOf(sow) \in {"out", "in", "unknown"}
  BY DEF ScopeOf
<1> QED
  BY <1>1, <1>2, <1>3, <1>4

----------------------------------------------------------------------------
(* Answers                                                                 *)

\* An answer says what it was made from, and what each stage found.
LEMMA AnswerFields ==
  ASSUME NEW b, NEW n, NEW t
  PROVE  LET a == AutomationRow(b, n, t)
             v == IF b = NoBook THEN Unclassified ELSE Classify(b, n, t)
         IN  /\ a.number = n /\ a.title = t
             /\ a.type = v.type
             /\ a.sow = IF b = NoBook THEN << >>
                        ELSE Resolve(b, v.type, v.source).sow
             /\ a.idb = IdbCell(IdbStatus(a.sow))
             /\ a.idbSource = IdbStatus(a.sow).source
BY DEF AutomationRow, Requirement

\* What the automation run can answer, whatever row comes.
Answers == {AutomationRow(book, row.number, row.title) :
               row \in ReferenceRows["automate"]}

\* Every answer is the answer of the rules workbook that was read, and it was
\* read with its not-required sheet.
AnswersInv ==
    /\ book \in Books \cup {NoBook}
    /\ answers \in Seq(Answers)
    /\ answers # << >> /\ book # NoBook => KeywordsReadable(book)

LEMMA AnswersInvariant == ReportSpec => []AnswersInv
<1>1. ReportInit => AnswersInv
  BY DEF ReportInit, PhaseOneBooks, AnswersInv
<1>2. AnswersInv /\ [ReportNext]_allVars => AnswersInv'
  <2> SUFFICES ASSUME AnswersInv, [ReportNext]_allVars PROVE AnswersInv'
    OBVIOUS
  <2>1. CASE AutomateRow
    <3>1. /\ UNCHANGED book
          /\ book # NoBook => KeywordsReadable(book)
      BY <2>1 DEF AutomateRow, Readable
    <3>2. PICK row \in ReferenceRows["automate"] :
             answers' = Append(answers, AutomationRow(book, row.number, row.title))
      BY <2>1 DEF AutomateRow
    <3>3. AutomationRow(book, row.number, row.title) \in Answers
      BY DEF Answers
    <3>4. answers' \in Seq(Answers) /\ Answers' = Answers
      BY <3>1, <3>2, <3>3 DEF AnswersInv, Answers
    <3> QED
      BY <3>1, <3>4 DEF AnswersInv
  <2>2. CASE UNCHANGED <<book, answers>>
    BY <2>2 DEF AnswersInv, Answers
  <2> QED
    BY <2>1, <2>2 DEF ReportNext, allVars, RunPipeline, reportVars,
       ValidateLatest, CannotStart, CompareRow, PrintReport
<1> QED
  BY <1>1, <1>2, PTL DEF ReportSpec

\* What an answer was made from, and the workbook behind it.
LEMMA AnswerFacts ==
  ASSUME AnswersInv, NEW i \in DOMAIN answers
  PROVE  /\ answers[i] = AutomationRow(book, answers[i].number, answers[i].title)
         /\ book # NoBook => IsWorkbook(book) /\ KeywordsReadable(book)
<1>1. answers \in Seq(Answers)
  BY DEF AnswersInv
<1>2. PICK row \in ReferenceRows["automate"] :
         answers[i] = AutomationRow(book, row.number, row.title)
  BY <1>1 DEF Answers
<1>3. answers[i].number = row.number /\ answers[i].title = row.title
  BY <1>2, AnswerFields
<1>4. answers # << >>
  BY <1>1
<1> QED
  BY <1>2, <1>3, <1>4, ReportAssumption DEF AnswersInv

\* One answer writes what the workbook states and leaves the rest to a person.
LEMMA AnswerStated ==
  ASSUME NEW b, b # NoBook, IsWorkbook(b), KeywordsReadable(b),
         NEW n, NEW t
  PROVE  LET a == AutomationRow(b, n, t)
             C == Covering(b, n, t)
         IN  /\ a.idb = "NO NEED TO CHECK" => StatedOut(b, n, t)
             /\ a.idb = "" => StatedIn(b, n, t)
             /\ a.idb = "UNMAPPED" /\ C # {} =>
                   \E r \in C :
                      /\ Label(r.type) \notin SelfStating
                      /\ \A q \in TableRules(b, Label(r.type)) :
                            ScopeOf(q.sow) = "unknown"
                      /\ r.source = "REQUIRED" \/ InTable(b, r.type)
                           \/ Label(r.type) = ""
<1> DEFINE a == AutomationRow(b, n, t)
           C == Covering(b, n, t)
           v == Classify(b, n, t)
           w == CHOOSE r \in C : \A q \in C : ~Before(q, r)
           sow == Resolve(b, v.type, v.source).sow
           rules == TableRules(b, Label(v.type))
<1>1. a.idb = IdbCell(IdbStatus(a.sow)) /\ a.sow = sow
  BY AnswerFields
<1>2. /\ C = {} => v.type = "" /\ v.source = ""
      /\ C # {} => /\ w \in C /\ \A q \in C : ~Before(q, w)
                   /\ v.type = w.type /\ v.source = w.source
  BY ClassifyFacts
<1>3. \A q \in C : q.source \in {"REQUIRED", "NOT_REQUIRED"}
  BY RuleFacts DEF Covering, RuleBook, Sources
<1>4. /\ sow = <<"NO">> =>
            \/ Label(v.type) \in SelfStating
            \/ \E q \in rules : q.sow = <<"NO">>
            \/ rules = {} /\ v.source = "NOT_REQUIRED"
      /\ Opens(sow) => \E q \in rules : Opens(q.sow)
      /\ ScopeOf(sow) = "unknown" =>
            /\ Label(v.type) \notin SelfStating
            /\ \A q \in rules : ScopeOf(q.sow) = "unknown"
            /\ rules # {} \/ Label(v.type) = "" \/ v.source # "NOT_REQUIRED"
  BY ResolveFacts
<1>5. /\ a.idb = "NO NEED TO CHECK" => a.sow = <<"NO">>
      /\ a.idb = "" => Opens(a.sow)
      /\ a.idb = "UNMAPPED" => ScopeOf(a.sow) = "unknown"
  BY <1>1, CellFacts
<1>6. C = {} => rules = {} /\ Label(v.type) \notin SelfStating
                /\ v.source # "NOT_REQUIRED"
  BY <1>2, TableFacts DEF Label, SelfStating, NullTokens
<1> HIDE DEF a, C, v, w, sow
<1>7. ASSUME a.idb = "NO NEED TO CHECK" PROVE StatedOut(b, n, t)
  <2>1. sow = <<"NO">>
    BY <1>1, <1>5, <1>7
  <2>2. C # {}
    BY <1>4, <1>6, <2>1
  <2>3. v.source = "NOT_REQUIRED" => \A q \in C : q.source = "NOT_REQUIRED"
    BY <1>2, <1>3, <2>2 DEF Before
  <2> QED
    BY <1>2, <1>4, <2>1, <2>2, <2>3 DEF StatedOut, InTable, C
<1>8. ASSUME a.idb = "" PROVE StatedIn(b, n, t)
  BY <1>1, <1>2, <1>4, <1>5, <1>6, <1>8 DEF StatedIn, C
<1>9. ASSUME a.idb = "UNMAPPED", C # {}
      PROVE  \E r \in C :
                /\ Label(r.type) \notin SelfStating
                /\ \A q \in TableRules(b, Label(r.type)) :
                      ScopeOf(q.sow) = "unknown"
                /\ r.source = "REQUIRED" \/ InTable(b, r.type)
                     \/ Label(r.type) = ""
  BY <1>1, <1>2, <1>3, <1>4, <1>5, <1>9 DEF InTable
<1> QED
  BY <1>7, <1>8, <1>9 DEF a, C

\* No answer is a guess: it is what the rules workbook states, for every
\* workbook and every document.
THEOREM ScopesAreStated == ReportSpec => []ScopeNeverGuessed
<1>1. AnswersInv => ScopeNeverGuessed
  <2> SUFFICES ASSUME AnswersInv, NEW i \in DOMAIN answers
               PROVE  LET a == answers[i]
                          C == Covering(book, a.number, a.title)
                      IN  /\ a.idb = "NO NEED TO CHECK" =>
                               book # NoBook /\ StatedOut(book, a.number, a.title)
                          /\ a.idb = "" =>
                               book # NoBook /\ StatedIn(book, a.number, a.title)
                          /\ a.idb = "UNMAPPED" /\ book # NoBook /\ C # {} =>
                                \E r \in C :
                                   /\ Label(r.type) \notin SelfStating
                                   /\ \A q \in TableRules(book, Label(r.type)) :
                                         ScopeOf(q.sow) = "unknown"
                                   /\ r.source = "REQUIRED" \/ InTable(book, r.type)
                                        \/ Label(r.type) = ""
    BY DEF ScopeNeverGuessed
  <2> DEFINE a == answers[i]
  <2>1. a = AutomationRow(book, a.number, a.title)
        /\ (book # NoBook => IsWorkbook(book) /\ KeywordsReadable(book))
    BY AnswerFacts
  <2>2. CASE book = NoBook
    <3>1. a.sow = << >> /\ a.idb = IdbCell(IdbStatus(a.sow))
      BY <2>1, <2>2, AnswerFields
    <3>2. a.idb = "UNMAPPED"
      BY <3>1, CellFacts
    <3> QED
      BY <2>2, <3>2
  <2>3. CASE book # NoBook
    <3> HIDE DEF a
    <3>1. PICK n, t : n = a.number /\ t = a.title
      OBVIOUS
    <3>2. /\ a = AutomationRow(book, n, t)
          /\ IsWorkbook(book) /\ KeywordsReadable(book)
      BY <2>1, <2>3, <3>1
    <3>3. /\ a.idb = "NO NEED TO CHECK" => StatedOut(book, n, t)
          /\ a.idb = "" => StatedIn(book, n, t)
          /\ a.idb = "UNMAPPED" /\ Covering(book, n, t) # {} =>
                \E r \in Covering(book, n, t) :
                   /\ Label(r.type) \notin SelfStating
                   /\ \A q \in TableRules(book, Label(r.type)) :
                         ScopeOf(q.sow) = "unknown"
                   /\ r.source = "REQUIRED" \/ InTable(book, r.type)
                        \/ Label(r.type) = ""
      BY <2>3, <3>2, AnswerStated
    <3> QED
      BY <2>3, <3>1, <3>3 DEF a
  <2> QED
    BY <2>2, <2>3
<1> QED
  BY <1>1, AnswersInvariant, PTL

\* Rules of one sheet are told apart by their rows.
LEMMA RowTellsRule ==
  ASSUME NEW b, IsWorkbook(b), KeywordsReadable(b),
         NEW r \in RuleRows(b), NEW q \in RuleRows(b),
         r.source = q.source, r.row = q.row
  PROVE  r = q
<1> DEFINE rule(s, x) == [source |-> s, row |-> x.row, number |-> x.number,
                          title |-> x.title, type |-> x.type]
<1>1. /\ r.source \in Sources
      /\ \E x \in b.sheets[SheetOf(b, r.source)] : r = rule(r.source, x)
      /\ \E x \in b.sheets[SheetOf(b, r.source)] : q = rule(r.source, x)
  BY DEF RuleRows
<1>2. PICK x \in b.sheets[SheetOf(b, r.source)] : r = rule(r.source, x)
  BY <1>1
<1>3. PICK y \in b.sheets[SheetOf(b, r.source)] : q = rule(r.source, y)
  BY <1>1
<1>4. x.row = y.row
  BY <1>2, <1>3
<1>5. SheetOf(b, r.source) \in DOMAIN b.sheets
  BY <1>1 DEF SheetOf, KeywordsReadable
<1>6. x = y
  BY <1>4, <1>5 DEF IsWorkbook
<1> QED
  BY <1>2, <1>3, <1>6

LEMMA FirstRuleAlone ==
  ASSUME NEW b, IsWorkbook(b), KeywordsReadable(b),
         NEW S \in SUBSET RuleRows(b), NEW r \in S, NEW q \in S,
         \A x \in S : ~Before(x, r), \A x \in S : ~Before(x, q)
  PROVE  r = q
<1>1. /\ r.source \in {"REQUIRED", "NOT_REQUIRED"} /\ r.row \in Nat
      /\ q.source \in {"REQUIRED", "NOT_REQUIRED"} /\ q.row \in Nat
  BY RuleFacts DEF Sources
<1>2. r.source = q.source /\ r.row = q.row
  BY <1>1 DEF Before
<1> QED
  BY <1>2, RowTellsRule

\* Without its not-required keywords a workbook has the required rules left,
\* and its table.
LEMMA RequiredOnlyFacts ==
  ASSUME NEW b, IsWorkbook(b), KeywordsReadable(b), "REQUIRED" \in DOMAIN b.sheets
  PROVE  LET c == RequiredOnly(b)
         IN  /\ IsWorkbook(c) /\ KeywordsReadable(c)
             /\ \A label : TableRules(c, label) = TableRules(b, label)
             /\ \A n, t : Covering(c, n, t) =
                             {r \in Covering(b, n, t) : r.source = "REQUIRED"}
<1> DEFINE c == RequiredOnly(b)
<1>1. /\ b = [sheets |-> b.sheets, table |-> b.table, tabled |-> b.tabled]
      /\ DOMAIN b.sheets = {"REQUIRED", "NOT_REQUIRED"}
      /\ b.sheets \in [DOMAIN b.sheets -> SUBSET KeywordRow]
  BY DEF IsWorkbook, KeywordsReadable, Sources
<1>2. /\ c.sheets = [b.sheets EXCEPT !["NOT_REQUIRED"] = {}]
      /\ c.table = b.table /\ c.tabled = b.tabled
      /\ c = [sheets |-> c.sheets, table |-> c.table, tabled |-> c.tabled]
  BY <1>1 DEF RequiredOnly
<1> HIDE DEF c
<1>3. /\ DOMAIN c.sheets = {"REQUIRED", "NOT_REQUIRED"}
      /\ c.sheets["REQUIRED"] = b.sheets["REQUIRED"]
      /\ c.sheets["NOT_REQUIRED"] = {}
      /\ c.sheets \in [DOMAIN c.sheets -> SUBSET KeywordRow]
  BY <1>1, <1>2
<1>4. IsWorkbook(c) /\ KeywordsReadable(c)
  BY <1>1, <1>2, <1>3 DEF IsWorkbook, KeywordsReadable, Sources
<1>5. \A label : TableRules(c, label) = TableRules(b, label)
  BY <1>2 DEF TableRules
<1>6. RuleRows(c) = {r \in RuleRows(b) : r.source = "REQUIRED"}
  <2>1. /\ SheetOf(b, "REQUIRED") = "REQUIRED"
        /\ SheetOf(b, "NOT_REQUIRED") = "NOT_REQUIRED"
        /\ SheetOf(c, "REQUIRED") = "REQUIRED"
        /\ SheetOf(c, "NOT_REQUIRED") = "NOT_REQUIRED"
    BY <1>1, <1>3 DEF SheetOf
  <2> DEFINE of(s, S) == {[source |-> s, row |-> x.row, number |-> x.number,
                           title |-> x.title, type |-> x.type] : x \in S}
  <2>2. RuleRows(b) = of("REQUIRED", b.sheets["REQUIRED"])
                        \cup of("NOT_REQUIRED", b.sheets["NOT_REQUIRED"])
    BY <2>1 DEF RuleRows, Sources
  <2>3. RuleRows(c) = of("REQUIRED", b.sheets["REQUIRED"])
    BY <1>3, <2>1 DEF RuleRows, Sources
  <2>4. \A s, S : \A r \in of(s, S) : r.source = s
    OBVIOUS
  <2> HIDE DEF of
  <2> QED
    BY <2>2, <2>3, <2>4
<1>7. \A n, t : Covering(c, n, t) =
                   {r \in Covering(b, n, t) : r.source = "REQUIRED"}
  BY <1>6 DEF Covering, RuleBook
<1> QED
  BY <1>4, <1>5, <1>7 DEF c

\* Keywords of the not-required sheet decide nothing a required keyword covers.
LEMMA RequiredDecides ==
  ASSUME NEW b, b # NoBook, RequiredOnly(b) # NoBook,
         IsWorkbook(b), KeywordsReadable(b),
         "REQUIRED" \in DOMAIN b.sheets, NEW n, NEW t,
         \E r \in Covering(b, n, t) : r.source = "REQUIRED"
  PROVE  AutomationRow(b, n, t) = AutomationRow(RequiredOnly(b), n, t)
<1> DEFINE c == RequiredOnly(b)
           B == Covering(b, n, t)
           C == Covering(c, n, t)
           w == CHOOSE r \in B : \A q \in B : ~Before(q, r)
           x == CHOOSE r \in C : \A q \in C : ~Before(q, r)
           v == Classify(b, n, t)
           u == Classify(c, n, t)
<1>1. /\ IsWorkbook(c) /\ KeywordsReadable(c)
      /\ \A label : TableRules(c, label) = TableRules(b, label)
      /\ C = {r \in B : r.source = "REQUIRED"}
  BY RequiredOnlyFacts
<1> HIDE DEF c
<1>2. B # {} /\ C # {} /\ C \subseteq B
  BY <1>1
<1>3. /\ w \in B /\ \A q \in B : ~Before(q, w)
      /\ v.type = w.type /\ v.source = w.source
      /\ B \subseteq RuleRows(b)
  BY <1>2, ClassifyFacts DEF RuleBook
<1>4. /\ x \in C /\ \A q \in C : ~Before(q, x)
      /\ u.type = x.type /\ u.source = x.source
  BY <1>1, <1>2, ClassifyFacts
<1> HIDE DEF B, C, w, x
<1>5. \A r \in B : r.source \in {"REQUIRED", "NOT_REQUIRED"} /\ r.row \in Nat
  BY <1>3, RuleFacts DEF Sources
<1>6. \A q \in B : ~Before(q, x)
  <2> SUFFICES ASSUME NEW q \in B, Before(q, x) PROVE FALSE
    OBVIOUS
  <2>1. x.source = "REQUIRED" /\ q.source = "REQUIRED"
    BY <1>1, <1>4, <1>5 DEF Before
  <2> QED
    BY <1>1, <1>4, <2>1
<1>7. w = x
  BY <1>2, <1>3, <1>4, <1>6, FirstRuleAlone
<1>8. v.type = u.type /\ v.source = u.source
  BY <1>3, <1>4, <1>7
<1> HIDE DEF v, u
<1>9. Resolve(c, u.type, u.source) = Resolve(b, v.type, v.source)
  BY <1>1, <1>8 DEF Resolve
<1> QED
  BY <1>8, <1>9 DEF AutomationRow, v, u, c

\* The required sheet has the last word on every document it covers.
THEOREM RequiredSheetHasTheWord == ReportSpec => []RequiredSheetDecides
<1>1. AnswersInv => RequiredSheetDecides
  <2> SUFFICES ASSUME AnswersInv, NEW i \in DOMAIN answers, book # NoBook,
                      "REQUIRED" \in DOMAIN book.sheets,
                      NEW n, n = answers[i].number,
                      NEW t, t = answers[i].title,
                      \E r \in Covering(book, n, t) : r.source = "REQUIRED"
               PROVE  answers[i] = AutomationRow(RequiredOnly(book), n, t)
    BY DEF RequiredSheetDecides
  <2>1. /\ answers[i] = AutomationRow(book, n, t)
        /\ IsWorkbook(book) /\ KeywordsReadable(book)
    BY AnswerFacts
  <2>2. RequiredOnly(book) # NoBook
    BY ReportAssumption DEF AnswersInv
  <2> QED
    BY <2>1, <2>2, RequiredDecides
<1> QED
  BY <1>1, AnswersInvariant, PTL

\* The counts of a run add up, whatever the answers are.
THEOREM BlanksAreCounted == ReportSpec => []BlanksAreManual
<1>1. AnswersInv => BlanksAreManual
  <2> SUFFICES ASSUME AnswersInv PROVE BlanksAreManual
    OBVIOUS
  <2> DEFINE rows == DOMAIN answers
             unresolved == {i \in rows : answers[i].sow = << >>}
             unmapped == {i \in rows : answers[i].idb = "UNMAPPED"}
             manual == {i \in rows :
                           /\ answers[i].idb = ""
                           /\ answers[i].idbSource = "NO_COMPLETION_SOURCE"}
             written == {i \in rows : answers[i].idb # ""}
             counts == Summary(answers)
  <2>1. /\ counts.rows = Len(answers)
        /\ counts.unresolved = Cardinality(unresolved)
        /\ counts.unmapped = Cardinality(unmapped)
        /\ counts.manual = Cardinality(manual)
        /\ counts.written = Cardinality(written)
    BY DEF Summary
  <2>2. /\ rows = 1..Len(answers) /\ Len(answers) \in Nat
    BY DEF AnswersInv
  <2>3. IsFiniteSet(rows) /\ Cardinality(rows) = Len(answers)
    BY <2>2, CardinalityUpTo
  <2>4. \A i \in rows :
           /\ answers[i].idb = IdbCell(IdbStatus(answers[i].sow))
           /\ answers[i].idbSource = IdbStatus(answers[i].sow).source
           /\ book = NoBook => answers[i].sow = << >>
    <3> SUFFICES ASSUME NEW i \in rows
                 PROVE  /\ answers[i].idb = IdbCell(IdbStatus(answers[i].sow))
                        /\ answers[i].idbSource = IdbStatus(answers[i].sow).source
                        /\ book = NoBook => answers[i].sow = << >>
      OBVIOUS
    <3>1. PICK n, t : answers[i] = AutomationRow(book, n, t)
      BY AnswerFacts
    <3> QED
      BY <3>1, AnswerFields
  <2>5. \A i \in rows :
           /\ answers[i].idb = "" => answers[i].idbSource = "NO_COMPLETION_SOURCE"
           /\ answers[i].sow = << >> => answers[i].idb = "UNMAPPED"
    BY <2>4, CellFacts
  <2>6. /\ written \cup manual = rows /\ written \cap manual = {}
        /\ unresolved \subseteq unmapped
        /\ unmapped \cap manual = {} /\ unmapped \cup manual \subseteq rows
        /\ book = NoBook => unmapped = rows
    BY <2>4, <2>5
  <2>7. /\ IsFiniteSet(written) /\ IsFiniteSet(manual)
        /\ IsFiniteSet(unresolved) /\ IsFiniteSet(unmapped)
    BY <2>3, FS_Subset
  <2>8. /\ Cardinality(written) \in Nat /\ Cardinality(manual) \in Nat
        /\ Cardinality(unresolved) \in Nat /\ Cardinality(unmapped) \in Nat
    BY <2>7, FS_CardinalityType
  <2> HIDE DEF rows, written, manual, unresolved, unmapped
  <2>9. Cardinality(written) + Cardinality(manual) = Cardinality(rows)
    BY <2>6, <2>7, DisjointCardinality
  <2>10. Cardinality(unresolved) <= Cardinality(unmapped)
    BY <2>6, <2>7, FS_Subset
  <2>11. Cardinality(unmapped \cup manual)
            = Cardinality(unmapped) + Cardinality(manual)
    BY <2>6, <2>7, DisjointCardinality
  <2>12. Cardinality(unmapped \cup manual) <= Cardinality(rows)
    BY <2>3, <2>6, FS_Subset
  <2> HIDE DEF counts
  <2> QED
    BY <2>1, <2>3, <2>6, <2>9, <2>10, <2>11, <2>12 DEF BlanksAreManual, counts
<1> QED
  BY <1>1, AnswersInvariant, PTL

----------------------------------------------------------------------------
(* Counts                                                                  *)

\* The report is a record of counts and examples.
IsReport(r) ==
    /\ r = [evaluated |-> r.evaluated, accountable |-> r.accountable,
            exact |-> r.exact, due |-> r.due, causes |-> r.causes,
            listed |-> r.listed]
    /\ r.evaluated \in Nat /\ r.accountable \in Nat /\ r.exact \in Nat
    /\ r.due \in Nat
    /\ r.causes \in [Causes -> Nat]

\* The causes of a row on which only one side wants a check.
Disputed == {"RULE_DISAGREES_WITH_REFERENCE", "UPSTREAM_SOW_OVERRIDDEN",
             "REFERENCE_SPELLING_VARIANT", "REFERENCE_VALUE_NOT_GENERATABLE"}

\* A row that matched.
CountsMatch ==
    /\ report'.evaluated = report.evaluated + 1
    /\ report'.accountable = report.accountable + 1
    /\ report'.exact = report.exact + 1
    /\ report'.due = report.due \/ report'.due = report.due + 1
    /\ command = "idb" => report'.due = report.due + 1
    /\ report'.causes = report.causes
    /\ report'.listed = report.listed

\* A row that did not, for a cause.
CountsCause(cause) ==
    /\ report'.evaluated = report.evaluated + 1
    /\ report'.accountable = IF cause \in OutOfScope THEN report.accountable
                                                    ELSE report.accountable + 1
    /\ report'.exact = report.exact
    /\ \/ report'.due = report.due
       \/ report'.due = report.due + 1 /\ cause \notin OutOfScope
    /\ command = "idb" /\ cause \notin OutOfScope /\ report'.due = report.due =>
          cause \in Disputed
    /\ report'.causes = [report.causes EXCEPT ![cause] = @ + 1]

LEMMA ReportOf ==
  ASSUME NEW e \in Nat, NEW a \in Nat, NEW x \in Nat, NEW d \in Nat,
         NEW c \in [Causes -> Nat], NEW l
  PROVE  IsReport([evaluated |-> e, accountable |-> a, exact |-> x, due |-> d,
                   causes |-> c, listed |-> l])
BY DEF IsReport

LEMMA MatchedCounts ==
  ASSUME IsReport(report), NEW d \in {0, 1}, command = "idb" => d = 1,
         report' = [Matched EXCEPT !.due = report.due + d]
  PROVE  CountsMatch /\ IsReport(report')
<1>1. report' = [evaluated |-> report.evaluated + 1,
                 accountable |-> report.accountable + 1,
                 exact |-> report.exact + 1, due |-> report.due + d,
                 causes |-> report.causes, listed |-> report.listed]
  BY DEF Matched, IsReport
<1>2. /\ report'.evaluated = report.evaluated + 1
      /\ report'.accountable = report.accountable + 1
      /\ report'.exact = report.exact + 1 /\ report'.due = report.due + d
      /\ report'.causes = report.causes /\ report'.listed = report.listed
  BY <1>1
<1>3. CountsMatch
  BY <1>2 DEF CountsMatch, IsReport
<1>4. /\ report.evaluated + 1 \in Nat /\ report.accountable + 1 \in Nat
      /\ report.exact + 1 \in Nat /\ report.due + d \in Nat
      /\ report.causes \in [Causes -> Nat]
  BY DEF IsReport
<1>5. IsReport([evaluated |-> report.evaluated + 1,
                accountable |-> report.accountable + 1,
                exact |-> report.exact + 1, due |-> report.due + d,
                causes |-> report.causes, listed |-> report.listed])
  BY <1>4, ReportOf
<1>6. IsReport(report')
  BY <1>1, <1>5, Zenon
<1> QED
  BY <1>3, <1>6

LEMMA DiffersCounts ==
  ASSUME IsReport(report), NEW d \in {0, 1}, NEW cause \in Causes, NEW listed,
         d = 1 => cause \notin OutOfScope,
         command = "idb" /\ cause \notin OutOfScope /\ d = 0 => cause \in Disputed,
         report' = [Differs(cause, listed) EXCEPT !.due = report.due + d]
  PROVE  /\ CountsCause(cause) /\ IsReport(report')
         /\ report'.listed = IF cause \in OutOfScope THEN report.listed ELSE listed
<1> DEFINE acc == IF cause \in OutOfScope THEN report.accountable
                                          ELSE report.accountable + 1
           lst == IF cause \in OutOfScope THEN report.listed ELSE listed
<1>1. report' = [evaluated |-> report.evaluated + 1, accountable |-> acc,
                 exact |-> report.exact, due |-> report.due + d,
                 causes |-> [report.causes EXCEPT ![cause] = @ + 1],
                 listed |-> lst]
  BY DEF Differs, IsReport
<1>2. acc = IF cause \in OutOfScope THEN report.accountable
                                    ELSE report.accountable + 1
  OBVIOUS
<1>3. lst = IF cause \in OutOfScope THEN report.listed ELSE listed
  OBVIOUS
<1>4. acc \in Nat
  BY DEF IsReport
<1>5. [report.causes EXCEPT ![cause] = @ + 1] \in [Causes -> Nat]
  BY DEF IsReport
<1> HIDE DEF acc, lst
<1>6. /\ report'.evaluated = report.evaluated + 1
      /\ report'.accountable = acc
      /\ report'.exact = report.exact /\ report'.due = report.due + d
      /\ report'.causes = [report.causes EXCEPT ![cause] = @ + 1]
      /\ report'.listed = lst
  BY <1>1
<1>7. CountsCause(cause)
  BY <1>2, <1>6 DEF CountsCause, IsReport
<1>8. /\ report.evaluated + 1 \in Nat /\ report.exact \in Nat
      /\ report.due + d \in Nat
  BY DEF IsReport
<1>9. IsReport([evaluated |-> report.evaluated + 1, accountable |-> acc,
                exact |-> report.exact, due |-> report.due + d,
                causes |-> [report.causes EXCEPT ![cause] = @ + 1],
                listed |-> lst])
  BY <1>4, <1>5, <1>8, ReportOf
<1>10. IsReport(report')
  BY <1>1, <1>9, Zenon
<1> QED
  BY <1>3, <1>6, <1>7, <1>10

LEMMA SameDue ==
  ASSUME IsReport(report), NEW cause \in Causes, NEW listed
  PROVE  /\ Matched = [Matched EXCEPT !.due = report.due + 0]
         /\ Differs(cause, listed) =
               [Differs(cause, listed) EXCEPT !.due = report.due + 0]
<1>1. report.due + 0 = report.due
  BY DEF IsReport
<1> DEFINE shape(e, a, x, d, c, l) ==
             report = [evaluated |-> e, accountable |-> a, exact |-> x,
                       due |-> d, causes |-> c, listed |-> l]
<1>a. PICK c, l : \E e, a, x, d \in Nat : shape(e, a, x, d, c, l)
  BY DEF IsReport
<1>b. PICK e \in Nat, a \in Nat, x \in Nat, d \in Nat : shape(e, a, x, d, c, l)
  BY <1>a
<1>2. report = [evaluated |-> e, accountable |-> a, exact |-> x, due |-> d,
                causes |-> c, listed |-> l]
  BY <1>b
<1>3. report.due = d
  BY <1>2
<1>4. Matched = [Matched EXCEPT !.due = d]
  <2>1. Matched = [report EXCEPT !.evaluated = e + 1, !.accountable = a + 1,
                                 !.exact = x + 1]
    BY <1>2 DEF Matched
  <2>2. Matched = [evaluated |-> e + 1, accountable |-> a + 1, exact |-> x + 1,
                   due |-> d, causes |-> c, listed |-> l]
    BY <1>2, <2>1
  <2> QED
    BY <2>2
<1>5. Differs(cause, listed) = [Differs(cause, listed) EXCEPT !.due = d]
  <2> DEFINE acc == IF cause \in OutOfScope THEN a ELSE a + 1
             lst == IF cause \in OutOfScope THEN l ELSE listed
             cs == [c EXCEPT ![cause] = @ + 1]
  <2>1. Differs(cause, listed) =
           [report EXCEPT !.evaluated = e + 1, !.accountable = acc,
                          !.causes = cs, !.listed = lst]
    BY <1>2 DEF Differs
  <2> HIDE DEF acc, lst, cs
  <2>2. Differs(cause, listed) =
           [evaluated |-> e + 1, accountable |-> acc, exact |-> x, due |-> d,
            causes |-> cs, listed |-> lst]
    BY <1>2, <2>1
  <2> QED
    BY <2>2
<1> QED
  BY <1>1, <1>3, <1>4, <1>5

\* The examples after a row of a cause that can be graded.
Listing(example) ==
    IF command = "idb" THEN ListPerCause(example) ELSE ListFlat(example)

\* A compared row is one of the two.
Tallied ==
    /\ IsReport(report')
    /\ \/ CountsMatch
       \/ \E cause \in Causes :
             /\ CountsCause(cause)
             /\ \E row, x :
                   report'.listed = IF cause \in OutOfScope THEN report.listed
                                    ELSE Listing(Example(cause, row, x))

LEMMA DocTypeTallied ==
  ASSUME IsReport(report), command = "docType", NEW row,
         report' = CompareDocType(row)
  PROVE  Tallied
<1> DEFINE verdict == Classify(book, row.number, row.title)
           cause == CASE row.type = "" -> "REFERENCE_BLANK"
                      [] row.type \in NotATypeVerdicts ->
                            "REFERENCE_NOT_A_DOC_TYPE"
                      [] row.type \notin NotATypeVerdicts \cup {""}
                            /\ verdict.type = "" -> "NO_RULE_MATCHED"
                      [] row.type \notin NotATypeVerdicts \cup {""}
                            /\ verdict.type # ""
                            /\ row.type \in verdict.competing ->
                            "COMPETING_RULES"
                      [] OTHER -> "RULE_DISAGREES_WITH_REFERENCE"
           listed == ListFlat(Example(cause, row, verdict.type))
<1>1. report' = Matched \/ report' = Differs(cause, listed)
  BY DEF CompareDocType
<1>2. cause \in {"REFERENCE_BLANK", "REFERENCE_NOT_A_DOC_TYPE",
                 "NO_RULE_MATCHED", "COMPETING_RULES",
                 "RULE_DISAGREES_WITH_REFERENCE"}
  OBVIOUS
<1>3. cause \in Causes
  BY <1>2 DEF Causes
<1>4. listed = Listing(Example(cause, row, verdict.type))
  BY DEF Listing
<1> HIDE DEF cause, verdict, listed
<1>5. CASE report' = Matched
  <2>1. report' = [Matched EXCEPT !.due = report.due + 0]
    BY <1>3, <1>5, SameDue, Zenon
  <2> QED
    BY <2>1, MatchedCounts DEF Tallied
<1>6. CASE report' = Differs(cause, listed)
  <2>1. report' = [Differs(cause, listed) EXCEPT !.due = report.due + 0]
    BY <1>3, <1>6, SameDue, Zenon
  <2>2. /\ CountsCause(cause) /\ IsReport(report')
        /\ report'.listed = IF cause \in OutOfScope THEN report.listed ELSE listed
    BY <1>3, <2>1, DiffersCounts
  <2> QED
    BY <1>3, <1>4, <2>2, Zenon DEF Tallied
<1> QED
  BY <1>1, <1>5, <1>6

LEMMA SowTallied ==
  ASSUME IsReport(report), command = "sow", NEW row, report' = CompareSow(row)
  PROVE  Tallied
<1> DEFINE required == Resolve(book, row.type, "")
           verdict == row.sow = <<"NO">> \/ Opens(row.sow)
           cause == CASE row.sow = << >> -> "REFERENCE_BLANK"
                      [] row.sow # << >> /\ ~verdict ->
                            "REFERENCE_NOT_A_SOW_VALUE"
                      [] verdict /\ row.type = "" -> "DOC_TYPE_ABSENT"
                      [] verdict /\ required.source = "UNMAPPED_DOC_TYPE" ->
                            "DOC_TYPE_NOT_IN_SOW_TABLE"
                      [] OTHER -> SowCause(row.sow, required)
           listed == ListFlat(Example(cause, row, required.sow))
<1>1. report' = Matched \/ report' = Differs(cause, listed)
  BY Zenon DEF CompareSow
<1>2. SowCause(row.sow, required) \in
         {"RULE_STATES_HIERARCHY", "REFERENCE_OVERRIDES_TO_NO",
          "REFERENCE_SPELLING_VARIANT", "RULE_DISAGREES_WITH_REFERENCE"}
  <2> DEFINE bare == WithoutHierarchy(required.sow)
             spelling == CanonicalSow(row.sow) = CanonicalSow(required.sow)
  <2> HIDE DEF bare, spelling
  <2> QED
    BY DEF SowCause
<1> HIDE DEF required
<1>3. cause \in {"REFERENCE_BLANK", "REFERENCE_NOT_A_SOW_VALUE",
                 "DOC_TYPE_ABSENT", "DOC_TYPE_NOT_IN_SOW_TABLE",
                 "RULE_STATES_HIERARCHY", "REFERENCE_OVERRIDES_TO_NO",
                 "REFERENCE_SPELLING_VARIANT", "RULE_DISAGREES_WITH_REFERENCE"}
  BY <1>2
<1>4. cause \in Causes
  BY <1>3 DEF Causes
<1>5. listed = Listing(Example(cause, row, required.sow))
  BY DEF Listing
<1> HIDE DEF cause, listed
<1>6. CASE report' = Matched
  <2>1. report' = [Matched EXCEPT !.due = report.due + 0]
    BY <1>4, <1>6, SameDue, Zenon
  <2> QED
    BY <2>1, MatchedCounts DEF Tallied
<1>7. CASE report' = Differs(cause, listed)
  <2>1. report' = [Differs(cause, listed) EXCEPT !.due = report.due + 0]
    BY <1>4, <1>7, SameDue, Zenon
  <2>2. /\ CountsCause(cause) /\ IsReport(report')
        /\ report'.listed = IF cause \in OutOfScope THEN report.listed ELSE listed
    BY <1>4, <2>1, DiffersCounts
  <2> QED
    BY <1>4, <1>5, <2>2, Zenon DEF Tallied
<1> QED
  BY <1>1, <1>6, <1>7

LEMMA IdbTallied ==
  ASSUME IsReport(report), command = "idb", NEW row, report' = CompareIdb(row)
  PROVE  Tallied
<1> DEFINE calculated == IdbStatus(Resolve(book, row.type, "").sow).status
           cause == CASE row.idb = "" -> "REFERENCE_BLANK"
                      [] row.idb # "" /\ ~IsIdbStatus(row.idb) ->
                            "REFERENCE_NOT_AN_IDB_VALUE"
                      [] IsIdbStatus(row.idb) /\ calculated = "UNMAPPED" ->
                            "UPSTREAM_SOW_UNRESOLVED"
                      [] OTHER -> IdbCause(row, calculated)
           listed == ListPerCause(Example(cause, row, calculated))
           same == cause \notin OutOfScope /\ calculated = row.idb
           agreed == /\ cause \notin OutOfScope
                     /\ RequiresCheck(calculated) = RequiresCheck(row.idb)
           counted == IF same THEN Matched ELSE Differs(cause, listed)
           d == IF agreed THEN 1 ELSE 0
<1>1. report' = [counted EXCEPT !.due = IF agreed THEN @ + 1 ELSE @]
  BY Zenon DEF CompareIdb
<1>2. calculated \in {"NO NEED TO CHECK", "TO BE CHECK", "UNMAPPED"}
  <2>1. \A sow : IdbStatus(sow).status \in
                    {"NO NEED TO CHECK", "TO BE CHECK", "UNMAPPED"}
    <3> TAKE sow
    <3>1. ScopeOf(sow) \in {"out", "in", "unknown"}
      BY DEF ScopeOf
    <3> QED
      BY <3>1 DEF IdbStatus
  <2> QED
    BY <2>1
<1>3. listed = Listing(Example(cause, row, calculated))
  BY DEF Listing
<1> HIDE DEF calculated, listed
<1>4. IdbCause(row, calculated) \in
         {"REFERENCE_SPELLING_VARIANT", "REFERENCE_VALUE_NOT_GENERATABLE",
          "COMPLETION_EVIDENCE_NOT_AVAILABLE", "UPSTREAM_SOW_OVERRIDDEN",
          "RULE_DISAGREES_WITH_REFERENCE"}
  BY DEF IdbCause
<1>5. cause \in {"REFERENCE_BLANK", "REFERENCE_NOT_AN_IDB_VALUE",
                 "UPSTREAM_SOW_UNRESOLVED", "REFERENCE_SPELLING_VARIANT",
                 "REFERENCE_VALUE_NOT_GENERATABLE",
                 "COMPLETION_EVIDENCE_NOT_AVAILABLE",
                 "UPSTREAM_SOW_OVERRIDDEN", "RULE_DISAGREES_WITH_REFERENCE"}
  BY <1>4
<1>6. cause \in Causes
  BY <1>5 DEF Causes
<1>7. cause = "COMPLETION_EVIDENCE_NOT_AVAILABLE" => agreed
  <2> SUFFICES ASSUME cause = "COMPLETION_EVIDENCE_NOT_AVAILABLE" PROVE agreed
    OBVIOUS
  <2>1. calculated = "TO BE CHECK" /\ row.idb \in RecordedOutcomes
    BY DEF IdbCause
  <2>2. RequiresCheck(calculated) /\ RequiresCheck(row.idb)
    BY <2>1 DEF RequiresCheck, RecordedOutcomes
  <2>3. cause \notin OutOfScope
    BY DEF OutOfScope
  <2> QED
    BY <2>2, <2>3 DEF RequiresCheck
<1>8. cause \in OutOfScope \/ cause \in Disputed
         \/ cause = "COMPLETION_EVIDENCE_NOT_AVAILABLE"
  BY <1>5 DEF OutOfScope, Disputed
<1>9. same => agreed
  BY DEF RequiresCheck
<1>10. agreed => cause \notin OutOfScope
  OBVIOUS
<1>11. counted.due = report.due /\ report.due \in Nat
  BY <1>6 DEF Matched, Differs, IsReport
<1> HIDE DEF cause, agreed
<1>12. report' = [counted EXCEPT !.due = report.due + d]
  BY <1>1, <1>11
<1>13. /\ d \in {0, 1} /\ (d = 1 => cause \notin OutOfScope)
       /\ cause \notin OutOfScope /\ d = 0 => cause \in Disputed
  BY <1>7, <1>8, <1>10
<1>14. CASE same
  <2>1. report' = [Matched EXCEPT !.due = report.due + d] /\ d = 1
    BY <1>9, <1>12, <1>14
  <2> QED
    BY <1>13, <2>1, MatchedCounts DEF Tallied
<1>15. CASE ~same
  <2>1. report' = [Differs(cause, listed) EXCEPT !.due = report.due + d]
    BY <1>12, <1>15
  <2> HIDE DEF d
  <2>2. /\ CountsCause(cause) /\ IsReport(report')
        /\ report'.listed = IF cause \in OutOfScope THEN report.listed ELSE listed
    BY <1>6, <1>13, <2>1, DiffersCounts
  <2> QED
    BY <1>3, <1>6, <2>2, Zenon DEF Tallied
<1> QED
  BY <1>14, <1>15

LEMMA CompareTallied == CompareRow /\ IsReport(report) => Tallied
<1> SUFFICES ASSUME CompareRow, IsReport(report) PROVE Tallied
  OBVIOUS
<1>1. PICK row \in ReferenceRows[command] :
         report' = CASE command = "docType" -> CompareDocType(row)
                     [] command = "sow" -> CompareSow(row)
                     [] command = "idb" -> CompareIdb(row)
  BY Zenon DEF CompareRow
<1>2. command \in {"docType", "sow", "idb"}
  BY DEF CompareRow
<1>3. CASE command = "docType"
  <2>1. report' = CompareDocType(row)
    BY <1>1, <1>3
  <2> QED
    BY <1>3, <2>1, DocTypeTallied
<1>4. CASE command = "sow"
  <2>1. report' = CompareSow(row)
    BY <1>1, <1>4
  <2> QED
    BY <1>4, <2>1, SowTallied
<1>5. CASE command = "idb"
  <2>1. report' = CompareIdb(row)
    BY <1>1, <1>5
  <2> QED
    BY <1>5, <2>1, IdbTallied
<1> QED
  BY <1>2, <1>3, <1>4, <1>5

\* As many pairs as there are rows with one of the causes S.
Tally(g, S) == UNION {{c} \X (1..g[c]) : c \in S}

LEMMA TallyFinite ==
  ASSUME NEW C, NEW S \in SUBSET C, IsFiniteSet(S), NEW g \in [C -> Nat]
  PROVE  IsFiniteSet(Tally(g, S))
<1> DEFINE F == [c \in S |-> {c} \X (1..g[c])]
           T == {{c} \X (1..g[c]) : c \in S}
<1>1. F \in Surjection(S, T)
  BY DEF Surjection
<1>2. IsFiniteSet(T)
  BY <1>1, FS_Surjection
<1>3. \A U \in T : IsFiniteSet(U)
  <2> TAKE U \in T
  <2>1. PICK c \in S : U = {c} \X (1..g[c])
    OBVIOUS
  <2>2. IsFiniteSet({c}) /\ g[c] \in Nat
    BY FS_Singleton
  <2>3. IsFiniteSet({c} \X (1..g[c]))
    BY <2>2, CardinalityUpTo, FS_Product
  <2> QED
    BY <2>1, <2>3, Zenon
<1> HIDE DEF T
<1>4. IsFiniteSet(UNION T)
  BY <1>2, <1>3, FS_UNION
<1> QED
  BY <1>4 DEF T, Tally

LEMMA InTally ==
  ASSUME NEW S, NEW g, NEW p
  PROVE  p \in Tally(g, S) <=>
            \E c \in S : \E k \in 1..g[c] : p = <<c, k>>
BY DEF Tally

\* One row more is one pair more, if its cause is among them.
LEMMA TallyOneMore ==
  ASSUME NEW C, NEW S \in SUBSET C, IsFiniteSet(S), NEW g \in [C -> Nat],
         NEW d \in C, NEW h \in [C -> Nat], h[d] = g[d] + 1,
         \A c \in C \ {d} : h[c] = g[c]
  PROVE  Cardinality(Tally(h, S)) =
            IF d \in S THEN Cardinality(Tally(g, S)) + 1
                       ELSE Cardinality(Tally(g, S))
<1> DEFINE new == <<d, g[d] + 1>>
<1>2. CASE d \notin S
  <2>1. \A c \in S : h[c] = g[c]
    BY <1>2
  <2>2. Tally(h, S) = Tally(g, S)
    BY <2>1 DEF Tally
  <2> QED
    BY <1>2, <2>2, Zenon
<1>3. CASE d \in S
  <2>1. new \notin Tally(g, S)
    <3> SUFFICES ASSUME new \in Tally(g, S) PROVE FALSE
      OBVIOUS
    <3>1. PICK c \in S : \E k \in 1..g[c] : new = <<c, k>>
      BY InTally
    <3>2. PICK k \in 1..g[c] : new = <<c, k>>
      BY <3>1
    <3>3. c = d /\ k = g[d] + 1
      BY <3>2
    <3> QED
      BY <3>2, <3>3
  <2>2. \A p : p \in Tally(h, S) <=> p \in Tally(g, S) \cup {new}
    <3> TAKE p
    <3>1. ASSUME p \in Tally(h, S) PROVE p \in Tally(g, S) \cup {new}
      <4>1. PICK c \in S : \E k \in 1..h[c] : p = <<c, k>>
        BY <3>1, InTally
      <4>2. PICK k \in 1..h[c] : p = <<c, k>>
        BY <4>1
      <4>3. k \in 1..g[c] \/ (c = d /\ k = g[d] + 1)
        BY <4>2
      <4> QED
        BY <4>2, <4>3, InTally
    <3>2. ASSUME p \in Tally(g, S) PROVE p \in Tally(h, S)
      <4>1. PICK c \in S : \E k \in 1..g[c] : p = <<c, k>>
        BY <3>2, InTally
      <4>2. PICK k \in 1..g[c] : p = <<c, k>>
        BY <4>1
      <4>3. k \in 1..h[c]
        BY <4>2
      <4> QED
        BY <4>2, <4>3, InTally
    <3>3. new \in Tally(h, S)
      <4>1. g[d] + 1 \in 1..h[d]
        OBVIOUS
      <4> QED
        BY <1>3, <4>1, InTally
    <3> QED
      BY <3>1, <3>2, <3>3
  <2>3. Tally(h, S) = Tally(g, S) \cup {new}
    BY <2>2
  <2>4. Cardinality(Tally(h, S)) = Cardinality(Tally(g, S)) + 1
    BY <2>1, <2>3, TallyFinite, FS_AddElement
  <2> QED
    BY <1>3, <2>4
<1> QED
  BY <1>2, <1>3

\* By cause, the rows of W that f gives it.
ByCause(f, C, W) == [c \in C |-> Cardinality({i \in W : f[i] = c})]

\* Rows sorted by cause are as many as before.
LEMMA ByCauseKeepsAll ==
  ASSUME NEW C, NEW S \in SUBSET C, IsFiniteSet(S),
         NEW V, IsFiniteSet(V), NEW f, \A i \in V : f[i] \in S
  PROVE  /\ ByCause(f, C, V) \in [C -> Nat]
         /\ \A c \in C : ByCause(f, C, V)[c] <= Cardinality(V)
         /\ Cardinality(Tally(ByCause(f, C, V), S)) = Cardinality(V)
<1> DEFINE g(W) == ByCause(f, C, W)
           off == {n \in Nat : \E W \in SUBSET V :
                      Cardinality(W) = n /\ Cardinality(Tally(g(W), S)) # n}
<1>1. \A W \in SUBSET V :
         /\ IsFiniteSet(W) /\ Cardinality(W) \in Nat
         /\ g(W) \in [C -> Nat]
         /\ \A c \in C : g(W)[c] <= Cardinality(W)
  <2> TAKE W \in SUBSET V
  <2>1. IsFiniteSet(W) /\ Cardinality(W) \in Nat
    BY FS_Subset, FS_CardinalityType
  <2>2. \A c \in C : /\ Cardinality({i \in W : f[i] = c}) \in Nat
                     /\ Cardinality({i \in W : f[i] = c}) <= Cardinality(W)
    <3> TAKE c \in C
    <3>1. {i \in W : f[i] = c} \in SUBSET W
      OBVIOUS
    <3> QED
      BY <2>1, <3>1, FS_Subset, FS_CardinalityType
  <2> QED
    BY <2>1, <2>2 DEF ByCause
<1>2. ASSUME off # {} PROVE FALSE
  <2>1. off \in SUBSET Nat
    OBVIOUS
  <2>2. PICK n \in off : \A m \in off : n <= m
    BY <1>2, <2>1, LeastNumber
  <2>3. PICK W \in SUBSET V : Cardinality(W) = n /\ Cardinality(Tally(g(W), S)) # n
    BY <2>2
  <2>4. n \in Nat
    BY <2>2
  <2>5. W # {}
    <3> SUFFICES ASSUME W = {} PROVE FALSE
      OBVIOUS
    <3>1. \A c \in S : g(W)[c] = 0
      BY FS_EmptySet DEF ByCause
    <3>2. Tally(g(W), S) = {}
      <4> SUFFICES ASSUME NEW p \in Tally(g(W), S) PROVE FALSE
        OBVIOUS
      <4> QED
        BY <3>1, InTally
    <3> QED
      BY <2>3, <3>2, FS_EmptySet
  <2>6. PICK x \in W : TRUE
    BY <2>5
  <2> DEFINE U == W \ {x}
             d == f[x]
  <2>7. U \in SUBSET V /\ Cardinality(U) = n - 1 /\ n - 1 \in Nat /\ d \in S
    <3>1. IsFiniteSet(W) /\ Cardinality(U) = Cardinality(W) - 1
      BY <1>1, FS_RemoveElement
    <3>2. Cardinality(U) \in Nat
      BY <1>1
    <3> QED
      BY <2>3, <3>1, <3>2
  <2>8. Cardinality(Tally(g(U), S)) = n - 1
    <3>1. n - 1 \notin off
      BY <2>2, <2>4
    <3> QED
      BY <2>7, <3>1
  <2>9. g(W) = [g(U) EXCEPT ![d] = @ + 1]
    <3>1. \A c \in C \ {d} : {i \in W : f[i] = c} = {i \in U : f[i] = c}
      OBVIOUS
    <3>2. {i \in W : f[i] = d} = {i \in U : f[i] = d} \cup {x}
      OBVIOUS
    <3>3. IsFiniteSet({i \in U : f[i] = d})
      <4>1. IsFiniteSet(U) /\ {i \in U : f[i] = d} \in SUBSET U
        BY <1>1, <2>7
      <4> QED
        BY <4>1, FS_Subset
    <3>4. Cardinality({i \in W : f[i] = d}) = Cardinality({i \in U : f[i] = d}) + 1
      <4>1. x \notin {i \in U : f[i] = d}
        OBVIOUS
      <4> QED
        BY <3>2, <3>3, <4>1, FS_AddElement
    <3>5. \A c \in C : g(W)[c] = IF c = d THEN g(U)[c] + 1 ELSE g(U)[c]
      BY <3>1, <3>4 DEF ByCause
    <3>6. g(W) \in [C -> Nat] /\ g(U) \in [C -> Nat]
      BY <1>1, <2>7
    <3> HIDE DEF g, U, d
    <3> QED
      BY <3>5, <3>6
  <2>10. Cardinality(Tally(g(W), S)) = n
    <3>1. g(U) \in [C -> Nat] /\ d \in C
      BY <1>1, <2>7
    <3> HIDE DEF g, U, d, off
    <3>2. PICK h \in [C -> Nat] : h = g(U)
      BY <3>1
    <3>3. PICK e \in C : e = d
      BY <3>1
    <3>4. PICK k \in [C -> Nat] : k = g(W)
      BY <1>1
    <3>5. k[e] = h[e] + 1 /\ \A c \in C \ {e} : k[c] = h[c]
      BY <2>9, <3>2, <3>3, <3>4
    <3>6. Cardinality(Tally(k, S)) = IF e \in S THEN Cardinality(Tally(h, S)) + 1
                                               ELSE Cardinality(Tally(h, S))
      BY <3>5, TallyOneMore
    <3>7. Cardinality(Tally(k, S)) = Cardinality(Tally(h, S)) + 1
      BY <2>7, <3>3, <3>6
    <3>8. Cardinality(Tally(h, S)) = Cardinality(Tally(g(U), S))
          /\ Cardinality(Tally(k, S)) = Cardinality(Tally(g(W), S))
      BY <3>2, <3>4, Zenon
    <3> QED
      BY <2>4, <2>8, <3>7, <3>8
  <2> QED
    BY <2>3, <2>10
<1>3. Cardinality(V) \notin off /\ Cardinality(V) \in Nat
  BY <1>1, <1>2
<1>4. Cardinality(Tally(g(V), S)) = Cardinality(V)
  BY <1>3
<1> QED
  BY <1>1, <1>4

LEMMA CausesFinite == IsFiniteSet(Causes)
<1> DEFINE list == <<"STALE_HIGHER_REVISION_UNPROCESSED",
             "STALE_DUPLICATE_LATEST_FLAG", "WORKBOOK_MARKS_GROUP_INACTIVE",
             "GENUINE_CONFLICT", "REFERENCE_BLANK", "REFERENCE_NOT_A_DOC_TYPE",
             "NO_RULE_MATCHED", "COMPETING_RULES",
             "RULE_DISAGREES_WITH_REFERENCE", "REFERENCE_NOT_A_SOW_VALUE",
             "DOC_TYPE_ABSENT", "DOC_TYPE_NOT_IN_SOW_TABLE",
             "RULE_STATES_HIERARCHY", "REFERENCE_SPELLING_VARIANT",
             "REFERENCE_OVERRIDES_TO_NO", "REFERENCE_NOT_AN_IDB_VALUE",
             "UPSTREAM_SOW_UNRESOLVED", "COMPLETION_EVIDENCE_NOT_AVAILABLE",
             "REFERENCE_VALUE_NOT_GENERATABLE", "UPSTREAM_SOW_OVERRIDDEN">>
<1>1. list \in Surjection(1..20, Causes)
  BY DEF Surjection, Causes
<1>2. IsFiniteSet(1..20)
  BY CardinalityUpTo
<1> HIDE DEF list
<1> QED
  BY <1>1, <1>2, FS_Surjection

\* The parts of Causes that the report adds up.
LEMMA PartsOfCauses ==
  /\ Causes \in SUBSET Causes /\ IsFiniteSet(Causes)
  /\ Causes \ OutOfScope \in SUBSET Causes /\ IsFiniteSet(Causes \ OutOfScope)
  /\ Disputed \in SUBSET Causes /\ IsFiniteSet(Disputed)
<1>1. Disputed \in SUBSET Causes
  BY DEF Disputed, Causes
<1> QED
  BY <1>1, CausesFinite, FS_Subset

LEMMA CountedIsTally ==
  ASSUME NEW S
  PROVE  /\ Counted(S) = Cardinality(Tally(report.causes, S))
         /\ Counted(S)' = Cardinality(Tally(report'.causes, S))
BY DEF Counted, Tally

\* A report only grows, no cause outgrows the rows, and its counts add up.
CountsInv ==
    /\ IsReport(report)
    /\ command = "latest" /\ exit = "running" => report = EmptyReport
    /\ report.evaluated <= IF command = "latest" THEN MaxRows
                                                 ELSE MaxReferenceRows
    /\ report.accountable <= report.evaluated
    /\ report.exact <= report.evaluated
    /\ report.due <= report.evaluated
    /\ \A c \in Causes : report.causes[c] <= report.evaluated
    /\ report.evaluated = report.exact + Counted(Causes)
    /\ report.accountable = report.exact + Counted(Causes \ OutOfScope)
    /\ command = "idb" =>
          /\ report.exact <= report.due
          /\ report.accountable - report.due <= Counted(Disputed)

LEMMA EmptyCounts ==
  ASSUME report = EmptyReport
  PROVE  /\ IsReport(report)
         /\ report.evaluated = 0 /\ report.accountable = 0
         /\ report.exact = 0 /\ report.due = 0
         /\ \A c \in Causes : report.causes[c] = 0
         /\ \A S \in SUBSET Causes : Counted(S) = 0
<1>1. /\ report.evaluated = 0 /\ report.accountable = 0
      /\ report.exact = 0 /\ report.due = 0
      /\ report.causes = [c \in Causes |-> 0] /\ report.listed = << >>
  BY DEF EmptyReport
<1>2. IsReport(report)
  <2>1. [c \in Causes |-> 0] \in [Causes -> Nat]
    OBVIOUS
  <2>2. IsReport([evaluated |-> 0, accountable |-> 0, exact |-> 0, due |-> 0,
                  causes |-> [c \in Causes |-> 0], listed |-> << >>])
    BY <2>1, ReportOf
  <2> QED
    BY <2>2, Zenon DEF EmptyReport
<1>3. \A S \in SUBSET Causes : Counted(S) = 0
  <2> TAKE S \in SUBSET Causes
  <2>1. Tally(report.causes, S) = {}
    <3> SUFFICES ASSUME NEW p \in Tally(report.causes, S) PROVE FALSE
      OBVIOUS
    <3>1. PICK c \in S : \E k \in 1..report.causes[c] : p = <<c, k>>
      BY InTally
    <3>2. report.causes[c] = 0
      BY <1>1
    <3> QED
      BY <3>1, <3>2
  <2> QED
    BY <2>1, CountedIsTally, FS_EmptySet
<1> QED
  BY <1>1, <1>2, <1>3

LEMMA CountedNat ==
  ASSUME IsReport(report), NEW S \in SUBSET Causes, IsFiniteSet(S)
  PROVE  Counted(S) \in Nat
<1>1. report.causes \in [Causes -> Nat]
  BY DEF IsReport
<1>2. IsFiniteSet(Tally(report.causes, S))
  BY <1>1, TallyFinite
<1> QED
  BY <1>2, FS_CardinalityType, CountedIsTally

\* A row that matched is counted under no cause, another under its own.
LEMMA CountedStep ==
  ASSUME IsReport(report), NEW S \in SUBSET Causes, IsFiniteSet(S)
  PROVE  /\ CountsMatch => Counted(S)' = Counted(S)
         /\ \A cause \in Causes : CountsCause(cause) =>
               Counted(S)' = IF cause \in S THEN Counted(S) + 1 ELSE Counted(S)
<1>1. report.causes \in [Causes -> Nat]
  BY DEF IsReport
<1>2. CountsMatch => Counted(S)' = Counted(S)
  BY CountedIsTally DEF CountsMatch
<1>3. ASSUME NEW cause \in Causes, CountsCause(cause)
      PROVE  Counted(S)' = IF cause \in S THEN Counted(S) + 1 ELSE Counted(S)
  <2>1. report'.causes = [report.causes EXCEPT ![cause] = @ + 1]
    BY <1>3 DEF CountsCause
  <2>3. /\ report'.causes \in [Causes -> Nat]
        /\ report'.causes[cause] = report.causes[cause] + 1
        /\ \A c \in Causes \ {cause} : report'.causes[c] = report.causes[c]
    BY <1>1, <2>1
  <2>2. Cardinality(Tally(report'.causes, S)) =
           IF cause \in S THEN Cardinality(Tally(report.causes, S)) + 1
                          ELSE Cardinality(Tally(report.causes, S))
    BY <1>1, <2>3, TallyOneMore
  <2> QED
    BY <2>2, CountedIsTally
<1> QED
  BY <1>2, <1>3

LEMMA CompareCounts == CountsInv /\ CompareRow => CountsInv'
<1> SUFFICES ASSUME CountsInv, CompareRow PROVE CountsInv'
  OBVIOUS
<1> DEFINE graded == Causes \ OutOfScope
<1>1. Tallied
  BY CompareTallied DEF CountsInv
<1>2. /\ command' = command /\ exit' = exit /\ command # "latest"
      /\ report.evaluated < MaxReferenceRows
  BY DEF CompareRow
<1>3. /\ IsReport(report) /\ IsReport(report')
      /\ report.evaluated \in Nat /\ report.accountable \in Nat
      /\ report.exact \in Nat /\ report.due \in Nat
      /\ report.causes \in [Causes -> Nat]
  BY <1>1 DEF CountsInv, IsReport, Tallied
<1>4. /\ Counted(Causes) \in Nat /\ Counted(graded) \in Nat
      /\ Counted(Disputed) \in Nat
  BY <1>3, PartsOfCauses, CountedNat
<1>5. MaxReferenceRows \in Nat
  BY ReportAssumption
<1>6. CASE CountsMatch
  <2>1. /\ Counted(Causes)' = Counted(Causes)
        /\ Counted(graded)' = Counted(graded)
        /\ Counted(Disputed)' = Counted(Disputed)
    BY <1>3, <1>6, PartsOfCauses, CountedStep
  <2>2. \A c \in Causes : report'.causes[c] <= report'.evaluated
    BY <1>3, <1>6 DEF CountsInv, CountsMatch
  <2> QED
    BY <1>2, <1>3, <1>4, <1>5, <1>6, <2>1, <2>2 DEF CountsInv, CountsMatch
<1>7. ASSUME NEW cause \in Causes, CountsCause(cause) PROVE CountsInv'
  <2>1. /\ Counted(Causes)' = Counted(Causes) + 1
        /\ Counted(graded)' = IF cause \in graded THEN Counted(graded) + 1
                                                  ELSE Counted(graded)
        /\ Counted(Disputed)' = IF cause \in Disputed THEN Counted(Disputed) + 1
                                                      ELSE Counted(Disputed)
    BY <1>3, <1>7, PartsOfCauses, CountedStep
  <2>2. \A c \in Causes : report'.causes[c] <= report'.evaluated
    <3>1. report'.causes = [report.causes EXCEPT ![cause] = @ + 1]
          /\ report'.evaluated = report.evaluated + 1
      BY <1>7 DEF CountsCause
    <3> QED
      BY <1>3, <3>1 DEF CountsInv
  <2>3. cause \in graded <=> cause \notin OutOfScope
    OBVIOUS
  <2> QED
    BY <1>2, <1>3, <1>4, <1>5, <1>7, <2>1, <2>2, <2>3
    DEF CountsInv, CountsCause
<1> QED
  BY <1>1, <1>6, <1>7 DEF Tallied

\* The sheet has at most MaxRows rows, and each became at most one record.
SizeInv ==
    /\ TypeOK
    /\ Len(records) <= rowsRead

LEMMA SizeInvariant == ReportSpec => []SizeInv
<1>1. Init => Len(records) <= rowsRead
  BY DEF Init
<1>2. TypeOK /\ Len(records) <= rowsRead /\ [Next]_vars
         => (Len(records) <= rowsRead)'
  <2> SUFFICES ASSUME TypeOK, Len(records) <= rowsRead, [Next]_vars
               PROVE  Len(records') <= rowsRead'
    OBVIOUS
  <2>1. records \in Seq(Record) /\ rowsRead \in Nat /\ Len(records) \in Nat
        /\ Rows = 1..Len(records)
    BY DEF TypeOK, Rows
  <2>2. CASE ReadRow
    <3>1. rowsRead' = rowsRead + 1
      BY <2>2 DEF ReadRow
    <3>2. \/ records' = records
          \/ \E r : records' = Append(records, r)
      BY <2>2 DEF ReadRow
    <3>3. \A r : Len(Append(records, r)) = Len(records) + 1
      BY <2>1
    <3> QED
      BY <2>1, <3>1, <3>2, <3>3
  <2>3. CASE RankNext
    <3>1. PICK i \in Rows : RankGroup(records[i].doc)
      BY <2>3 DEF RankNext
    <3>2. rowsRead' = rowsRead /\ DOMAIN records' = 1..Len(records)
      BY <2>1, <3>1 DEF RankGroup
    <3>3. \E F : records' = [n \in 1..Len(records) |-> F[n]]
      <4> DEFINE k == records[i].doc
                 G == [j \in Rows |->
                         CASE j \notin Group(k) -> records[j]
                           [] j \in Group(k) /\ Candidates(k) = {} -> DecideNone(j)
                           [] j \in Group(k) /\ Candidates(k) # {} ->
                                 DecideAmong(j, k)]
      <4>1. records' = G
        BY <3>1 DEF RankGroup
      <4> QED
        BY <2>1, <4>1
    <3>4. Len(records') = Len(records)
      BY <2>1, <3>2, <3>3
    <3> QED
      BY <3>2, <3>4
  <2>4. CASE UNCHANGED <<records, rowsRead>>
    BY <2>4
  <2> QED
    BY <2>2, <2>3, <2>4 DEF Next, EndOfSheet, Return, vars
<1>3. Spec => [](Len(records) <= rowsRead)
  BY <1>1, <1>2, RevisionTypeCorrect, PTL DEF Spec
<1>4. TypeOK /\ Len(records) <= rowsRead => SizeInv
  BY DEF SizeInv
<1> QED
  BY <1>3, <1>4, ReportsRunPipeline, RevisionTypeCorrect, PTL

LEMMA PartCounts ==
  ASSUME NEW A, IsFiniteSet(A), NEW R \in SUBSET A, NEW W \in SUBSET R,
         NEW n \in Nat, Cardinality(A) <= n
  PROVE  /\ IsFiniteSet(R) /\ IsFiniteSet(W) /\ IsFiniteSet(R \ W)
         /\ Cardinality(R) \in Nat /\ Cardinality(W) \in Nat
         /\ Cardinality(R \ W) \in Nat
         /\ Cardinality(R) = Cardinality(R \ W) + Cardinality(W)
         /\ Cardinality(R) <= n
<1>1. IsFiniteSet(R) /\ Cardinality(R) <= Cardinality(A)
  BY FS_Subset
<1>2. IsFiniteSet(W)
  BY <1>1, FS_Subset
<1>3. IsFiniteSet(R \ W)
  BY <1>1, FS_Difference
<1>4. Cardinality(R \ W) = Cardinality(R) - Cardinality(R \cap W)
  BY <1>1, FS_Difference
<1>5. R \cap W = W
  OBVIOUS
<1>6. /\ Cardinality(R) \in Nat /\ Cardinality(W) \in Nat
      /\ Cardinality(R \ W) \in Nat /\ Cardinality(A) \in Nat
  BY <1>1, <1>2, <1>3, FS_CardinalityType
<1>7. Cardinality(R) <= n
  BY <1>1, <1>6
<1>9. Cardinality(R \cap W) = Cardinality(W)
  BY <1>5, Zenon
<1>8. Cardinality(R) = Cardinality(R \ W) + Cardinality(W)
  BY <1>4, <1>6, <1>9
<1> QED
  BY <1>1, <1>2, <1>3, <1>6, <1>7, <1>8

LEMMA RowsBounded ==
  SizeInv => /\ IsFiniteSet(Rows) /\ Cardinality(Rows) \in Nat
             /\ Cardinality(Rows) <= MaxRows
<1> SUFFICES ASSUME SizeInv
             PROVE  /\ IsFiniteSet(Rows) /\ Cardinality(Rows) \in Nat
                    /\ Cardinality(Rows) <= MaxRows
  OBVIOUS
<1>1. records \in Seq(Record) /\ rowsRead \in 0..MaxRows
  BY DEF SizeInv, TypeOK
<1>2. Len(records) <= rowsRead
  BY DEF SizeInv
<1>3. Rows = 1..Len(records) /\ Len(records) \in Nat
  BY <1>1 DEF Rows
<1>4. IsFiniteSet(Rows) /\ Cardinality(Rows) = Len(records)
  BY <1>3, CardinalityUpTo
<1>5. MaxRows \in Nat
  BY RevisionAssumption
<1>6. Len(records) <= MaxRows
  BY <1>1, <1>2, <1>3, <1>5
<1> QED
  BY <1>3, <1>4, <1>6

\* The rows phase 1 compares agree or disagree for one of four causes.
LEMMA LatestCounts ==
  SizeInv /\ CountsInv /\ ValidateLatest => CountsInv'
<1> SUFFICES ASSUME SizeInv, CountsInv, ValidateLatest PROVE CountsInv'
  OBVIOUS
<1>1. PICK fs :
         LET wrong == Disagreeing(fs)
             kept == SelectSeq([i \in Rows |-> i],
                               LAMBDA i : i \in Recorded(wrong))
             listed == [k \in DOMAIN kept |-> CauseOf(kept[k], fs)]
         IN  report' =
                [report EXCEPT
                    !.evaluated = Cardinality(Compared(fs)),
                    !.accountable = Cardinality(Compared(fs)),
                    !.exact = Cardinality(Compared(fs) \ wrong),
                    !.causes = [c \in Causes |->
                        Cardinality({i \in wrong : CauseOf(i, fs) = c})],
                    !.listed = listed]
  BY Zenon DEF ValidateLatest
<1> DEFINE kept == SelectSeq([i \in Rows |-> i],
                             LAMBDA i : i \in Recorded(Disagreeing(fs)))
           listed == [k \in DOMAIN kept |-> CauseOf(kept[k], fs)]
<1>2. report' = [report EXCEPT
                    !.evaluated = Cardinality(Compared(fs)),
                    !.accountable = Cardinality(Compared(fs)),
                    !.exact = Cardinality(Compared(fs) \ Disagreeing(fs)),
                    !.causes = [c \in Causes |->
                       Cardinality({i \in Disagreeing(fs) : CauseOf(i, fs) = c})],
                    !.listed = listed]
  BY <1>1, Zenon
<1> HIDE DEF kept, listed
<1> DEFINE graded == Causes \ OutOfScope
<1>a. PICK rows : rows = Compared(fs)
  OBVIOUS
<1>b. PICK wrong : wrong = Disagreeing(fs)
  OBVIOUS
<1>c. PICK f : f = [i \in wrong |-> CauseOf(i, fs)]
  OBVIOUS
<1>d. PICK causes : causes = [c \in Causes |->
                     Cardinality({i \in wrong : CauseOf(i, fs) = c})]
  OBVIOUS
<1> HIDE DEF graded
<1>3. command = "latest" /\ command' = command /\ exit' # "running"
      /\ report = EmptyReport
  <2>1. command = "latest" /\ command' = command /\ report = EmptyReport
    BY DEF ValidateLatest, CountsInv
  <2>2. exit' \in {"0", "1"}
    BY DEF ValidateLatest
  <2> QED
    BY <2>1, <2>2
<1>4. /\ IsFiniteSet(rows) /\ IsFiniteSet(wrong) /\ IsFiniteSet(rows \ wrong)
      /\ Cardinality(rows) \in Nat /\ Cardinality(wrong) \in Nat
      /\ Cardinality(rows \ wrong) \in Nat
      /\ Cardinality(rows) = Cardinality(rows \ wrong) + Cardinality(wrong)
      /\ Cardinality(rows) <= MaxRows
  <2>1. rows \in SUBSET Rows /\ wrong \in SUBSET rows
    BY <1>a, <1>b DEF Compared, Disagreeing
  <2>2. PICK all : all = Rows
    OBVIOUS
  <2>3. /\ IsFiniteSet(all) /\ Cardinality(all) \in Nat
        /\ Cardinality(all) <= MaxRows
    BY <2>2, RowsBounded
  <2>4. MaxRows \in Nat
    BY RevisionAssumption
  <2> QED
    BY <2>1, <2>2, <2>3, <2>4, PartCounts
<1>5. f \in [wrong -> graded] /\ f \in [wrong -> Causes]
  <2>1. \A i : CauseOf(i, fs) \in
          {"STALE_HIGHER_REVISION_UNPROCESSED", "STALE_DUPLICATE_LATEST_FLAG",
           "WORKBOOK_MARKS_GROUP_INACTIVE", "GENUINE_CONFLICT"}
    <3> TAKE i
    <3> DEFINE group == Group(records[i].doc)
               higher == {j \in group : Higher(j, i)}
               labelledL == {j \in group : fs[j] = "L"}
               p == /\ fs[i] = "L" /\ higher # {}
                    /\ \A j \in higher : fs[j] \notin {"L", "NL"}
               q == /\ fs[i] = "L"
                    /\ higher = {} \/ \E j \in higher : fs[j] \in {"L", "NL"}
                    /\ labelledL # {i}
               r == fs[i] = "NL" /\ labelledL = {}
    <3>1. CauseOf(i, fs) = CASE p -> "STALE_HIGHER_REVISION_UNPROCESSED"
                             [] q -> "STALE_DUPLICATE_LATEST_FLAG"
                             [] r -> "WORKBOOK_MARKS_GROUP_INACTIVE"
                             [] OTHER -> "GENUINE_CONFLICT"
      BY Zenon DEF CauseOf
    <3> HIDE DEF p, q, r
    <3> QED
      BY <3>1
  <2>2. \A i : CauseOf(i, fs) \in graded
    BY <2>1 DEF Causes, OutOfScope, graded
  <2>3. graded \subseteq Causes
    BY DEF graded
  <2> QED
    BY <1>c, <2>2, <2>3
<1>6. causes = ByCause(f, Causes, wrong)
  <2>1. \A c : {i \in wrong : CauseOf(i, fs) = c} = {i \in wrong : f[i] = c}
    BY <1>c
  <2> QED
    BY <1>d, <2>1 DEF ByCause
<1>16. /\ IsFiniteSet(wrong)
       /\ \A i \in wrong : f[i] \in graded /\ f[i] \in Causes
  BY <1>4, <1>5
<1>17. /\ Causes \in SUBSET Causes /\ IsFiniteSet(Causes)
       /\ graded \in SUBSET Causes /\ IsFiniteSet(graded)
  BY PartsOfCauses DEF graded
<1>7. /\ causes \in [Causes -> Nat]
      /\ \A c \in Causes : causes[c] <= Cardinality(wrong)
      /\ Cardinality(Tally(causes, Causes)) = Cardinality(wrong)
  <2>1. /\ ByCause(f, Causes, wrong) \in [Causes -> Nat]
        /\ \A c \in Causes : ByCause(f, Causes, wrong)[c] <= Cardinality(wrong)
        /\ Cardinality(Tally(ByCause(f, Causes, wrong), Causes)) = Cardinality(wrong)
    BY <1>16, <1>17, ByCauseKeepsAll
  <2> QED
    BY <1>6, <2>1, Zenon
<1>8. Cardinality(Tally(causes, graded)) = Cardinality(wrong)
  <2>1. PICK G \in SUBSET Causes : G = graded
    BY <1>17
  <2>2. IsFiniteSet(G) /\ \A i \in wrong : f[i] \in G
    BY <1>16, <1>17, <2>1
  <2>3. Cardinality(Tally(ByCause(f, Causes, wrong), G)) = Cardinality(wrong)
    BY <1>16, <2>2, ByCauseKeepsAll
  <2> QED
    BY <1>6, <2>1, <2>3, Zenon
<1>9. report' = [evaluated |-> Cardinality(rows), accountable |-> Cardinality(rows),
                 exact |-> Cardinality(rows \ wrong), due |-> 0,
                 causes |-> causes, listed |-> listed]
  BY <1>2, <1>3, <1>a, <1>b, <1>d DEF EmptyReport
<1>10. IsReport(report')
  <2>1. IsReport([evaluated |-> Cardinality(rows), accountable |-> Cardinality(rows),
                  exact |-> Cardinality(rows \ wrong), due |-> 0,
                  causes |-> causes, listed |-> listed])
    BY <1>4, <1>7, ReportOf
  <2> QED
    BY <1>9, <2>1, Zenon
<1>11. /\ report'.evaluated = Cardinality(rows)
       /\ report'.accountable = Cardinality(rows)
       /\ report'.exact = Cardinality(rows \ wrong) /\ report'.due = 0
       /\ report'.causes = causes
  BY <1>9
<1>12. /\ Counted(Causes)' = Cardinality(wrong)
       /\ Counted(graded)' = Cardinality(wrong)
  BY <1>7, <1>8, <1>11, CountedIsTally
<1>13. MaxRows \in Nat
  BY RevisionAssumption
<1>18. /\ Cardinality(rows) \in Nat /\ Cardinality(wrong) \in Nat
       /\ Cardinality(rows \ wrong) \in Nat
       /\ Cardinality(rows) = Cardinality(rows \ wrong) + Cardinality(wrong)
       /\ Cardinality(rows) <= MaxRows
  BY <1>4
<1>19. PICK n \in Nat, m \in Nat, k \in Nat :
          /\ n = Cardinality(rows) /\ m = Cardinality(wrong)
          /\ k = Cardinality(rows \ wrong)
  BY <1>18
<1>20. /\ report'.evaluated = n /\ report'.accountable = n
       /\ report'.exact = k /\ report'.due = 0
       /\ Counted(Causes)' = m /\ Counted(Causes \ OutOfScope)' = m
       /\ n = k + m /\ n <= MaxRows
  BY <1>11, <1>12, <1>18, <1>19, Zenon DEF graded
<1>14. /\ report'.evaluated <= MaxRows
       /\ report'.accountable <= report'.evaluated
       /\ report'.exact <= report'.evaluated
       /\ report'.due <= report'.evaluated
  <2>1. n = k + m /\ k <= n /\ n <= MaxRows
    BY <1>20
  <2>2. report'.evaluated = n /\ report'.accountable = n /\ report'.exact = k
        /\ report'.due = 0
    BY <1>20
  <2> QED
    BY <1>13, <2>1, <2>2
<1>21. /\ report'.evaluated = report'.exact + Counted(Causes)'
       /\ report'.accountable = report'.exact + Counted(Causes \ OutOfScope)'
  BY <1>20, Zenon
<1>15. \A c \in Causes : report'.causes[c] <= report'.evaluated
  <2> TAKE c \in Causes
  <2>1. PICK q \in Nat : q = causes[c]
    BY <1>7
  <2>2. q <= m
    BY <1>7, <1>19, <2>1
  <2>3. report'.causes[c] = q
    BY <1>11, <2>1
  <2>4. n = k + m /\ report'.evaluated = n
    BY <1>20
  <2>5. m <= n
    BY <2>4
  <2>6. q <= n
    BY <2>2, <2>5
  <2> QED
    BY <2>3, <2>4, <2>6
<1> QED
  BY <1>3, <1>10, <1>14, <1>15, <1>21 DEF CountsInv

LEMMA CountsInvariant == ReportSpec => []CountsInv
<1>1. ReportInit => CountsInv
  <2> SUFFICES ASSUME ReportInit PROVE CountsInv
    OBVIOUS
  <2>1. report = EmptyReport
    BY DEF ReportInit
  <2>2. /\ Counted(Causes) = 0 /\ Counted(Causes \ OutOfScope) = 0
        /\ Counted(Disputed) = 0
    BY <2>1, EmptyCounts, PartsOfCauses
  <2>3. MaxRows \in Nat /\ MaxReferenceRows \in Nat
    BY RevisionAssumption, ReportAssumption
  <2> QED
    BY <2>1, <2>2, <2>3, EmptyCounts DEF CountsInv
<1>2. CountsInv /\ SizeInv /\ [ReportNext]_allVars => CountsInv'
  <2>1. CountsInv /\ UNCHANGED <<command, report>>
           /\ (exit' = "running" => exit = "running") => CountsInv'
    <3> SUFFICES ASSUME CountsInv, UNCHANGED <<command, report>>,
                        exit' = "running" => exit = "running"
                 PROVE  CountsInv'
      OBVIOUS
    <3>1. \A S : Counted(S)' = Counted(S)
      BY DEF Counted
    <3> QED
      BY <3>1 DEF CountsInv, EmptyReport
  <2>2. [ReportNext]_allVars =>
           \/ CompareRow \/ ValidateLatest
           \/ /\ UNCHANGED <<command, report>>
              /\ exit' = "running" => exit = "running"
    BY DEF ReportNext, allVars, RunPipeline, reportVars, CannotStart,
           PrintReport, AutomateRow
  <2> QED
    BY <2>1, <2>2, CompareCounts, LatestCounts
<1> QED
  BY <1>1, <1>2, SizeInvariant, PTL DEF ReportSpec

\* No row is lost between the counts of a report, of any phase and for any
\* number of rows.
THEOREM RowsAreAccountedFor == ReportSpec => []CausesAccountForAll
<1>1. CountsInv => CausesAccountForAll
  BY DEF CountsInv, CausesAccountForAll, Disputed
<1> QED
  BY <1>1, CountsInvariant, PTL

----------------------------------------------------------------------------
(* Examples and types                                                      *)

IsSequence(s) == s \in Seq({s[k] : k \in DOMAIN s})

LEMMA AppendFacts ==
  ASSUME NEW s, IsSequence(s), NEW e
  PROVE  /\ IsSequence(Append(s, e))
         /\ DOMAIN s \subseteq DOMAIN Append(s, e)
         /\ Len(s) + 1 \in DOMAIN Append(s, e)
         /\ \A k \in DOMAIN s : Append(s, e)[k] = s[k]
         /\ Append(s, e)[Len(s) + 1] = e
<1> DEFINE T == {s[k] : k \in DOMAIN s}
           t == Append(s, e)
<1>1. s \in Seq(T)
  BY DEF IsSequence
<1> HIDE DEF T
<1>2. /\ DOMAIN s = 1..Len(s) /\ Len(s) \in Nat
      /\ s \in Seq(T \cup {e}) /\ e \in T \cup {e}
  BY <1>1
<1>3. /\ t \in Seq(T \cup {e}) /\ Len(t) = Len(s) + 1
      /\ DOMAIN t = 1..(Len(s) + 1)
      /\ \A k \in 1..Len(s) : t[k] = s[k]
      /\ t[Len(s) + 1] = e
  BY <1>2
<1> HIDE DEF t
<1>4. IsSequence(t)
  <2>1. t = [k \in 1..Len(t) |-> t[k]] /\ Len(t) \in Nat
    BY <1>2, <1>3
  <2>2. \A k \in 1..Len(t) : t[k] \in {t[j] : j \in DOMAIN t}
    BY <1>3
  <2> QED
    BY <2>1, <2>2 DEF IsSequence
<1> QED
  BY <1>2, <1>3, <1>4 DEF t

\* The examples of phase 2C: a cause is counted only with an example listed.
ExamplesInv ==
    /\ command = "idb" => IsSequence(report.listed)
    /\ EveryCauseHasExample

LEMMA ExamplesStep ==
  CountsInv /\ ExamplesInv /\ CompareRow => ExamplesInv'
<1> SUFFICES ASSUME CountsInv, ExamplesInv, CompareRow PROVE ExamplesInv'
  OBVIOUS
<1>1. CASE command # "idb"
  <2>1. command' # "idb"
    BY <1>1 DEF CompareRow
  <2> QED
    BY <2>1 DEF ExamplesInv, EveryCauseHasExample
<1>2. CASE command = "idb"
  <2>1. Tallied /\ command' = command
    BY CompareTallied DEF CountsInv, CompareRow
  <2>2. IsSequence(report.listed) /\ report.causes \in [Causes -> Nat]
    BY <1>2 DEF ExamplesInv, CountsInv, IsReport
  <2>3. \A c \in Causes \ OutOfScope : report.causes[c] > 0 =>
           \E k \in DOMAIN report.listed : report.listed[k].cause = c
    BY <1>2 DEF ExamplesInv, EveryCauseHasExample
  <2>4. CASE CountsMatch
    <3>1. report'.causes = report.causes /\ report'.listed = report.listed
      BY <2>4 DEF CountsMatch
    <3> QED
      BY <2>2, <2>3, <3>1 DEF ExamplesInv, EveryCauseHasExample
  <2>5. ASSUME NEW cause \in Causes, NEW row, NEW x, CountsCause(cause),
               report'.listed = IF cause \in OutOfScope THEN report.listed
                                ELSE Listing(Example(cause, row, x))
        PROVE  ExamplesInv'
    <3> DEFINE e == Example(cause, row, x)
    <3>1. e.cause = cause
      BY DEF Example
    <3> HIDE DEF e
    <3>2. /\ report'.causes \in [Causes -> Nat]
          /\ \A c \in Causes : report'.causes[c] = IF c = cause
                THEN report.causes[c] + 1 ELSE report.causes[c]
      <4>1. report'.causes = [report.causes EXCEPT ![cause] = @ + 1]
        BY <2>5 DEF CountsCause
      <4> QED
        BY <2>2, <4>1
    <3>3. CASE report'.listed = report.listed
               /\ (cause \in OutOfScope \/ report.causes[cause] > 0)
      <4>1. \A c \in Causes \ OutOfScope : report'.causes[c] > 0 =>
               report.causes[c] > 0
        BY <2>2, <3>2, <3>3
      <4> QED
        BY <2>2, <2>3, <3>3, <4>1 DEF ExamplesInv, EveryCauseHasExample
    <3>4. CASE report'.listed = Append(report.listed, e)
      <4>1. /\ IsSequence(report'.listed)
            /\ \A k \in DOMAIN report.listed :
                  k \in DOMAIN report'.listed /\ report'.listed[k] = report.listed[k]
            /\ Len(report.listed) + 1 \in DOMAIN report'.listed
            /\ report'.listed[Len(report.listed) + 1] = e
        BY <2>2, <3>4, AppendFacts
      <4>2. ASSUME NEW c \in Causes \ OutOfScope, report'.causes[c] > 0
            PROVE  \E k \in DOMAIN report'.listed : report'.listed[k].cause = c
        <5>1. CASE c = cause
          BY <3>1, <4>1, <5>1
        <5>2. CASE c # cause
          <6>1. report.causes[c] > 0
            BY <3>2, <4>2, <5>2
          <6>2. PICK k \in DOMAIN report.listed : report.listed[k].cause = c
            BY <2>3, <6>1
          <6> QED
            BY <4>1, <6>2
        <5> QED
          BY <5>1, <5>2
      <4> QED
        BY <4>1, <4>2 DEF ExamplesInv, EveryCauseHasExample
    <3>5. \/ cause \in OutOfScope /\ report'.listed = report.listed
          \/ report.causes[cause] < MaxPerCause
             /\ report'.listed = Append(report.listed, e)
          \/ ~(report.causes[cause] < MaxPerCause)
             /\ report'.listed = report.listed
      BY <1>2, <2>5, <3>1 DEF Listing, ListPerCause, e
    <3>6. ~(report.causes[cause] < MaxPerCause) => report.causes[cause] > 0
      BY <2>2, ReportAssumption
    <3> QED
      BY <3>3, <3>4, <3>5, <3>6
  <2> QED
    BY <2>1, <2>4, <2>5 DEF Tallied
<1> QED
  BY <1>1, <1>2

\* However the working sheet is filled in, each cause of phase 2C that can be
\* graded has an example in the report.
THEOREM CausesHaveExamples == ReportSpec => []EveryCauseHasExample
<1>1. ReportInit => ExamplesInv
  <2> SUFFICES ASSUME ReportInit PROVE ExamplesInv
    OBVIOUS
  <2>1. report.listed = << >> /\ \A c \in Causes : report.causes[c] = 0
    BY DEF ReportInit, EmptyReport
  <2> QED
    BY <2>1 DEF ExamplesInv, EveryCauseHasExample, IsSequence
<1>2. CountsInv /\ ExamplesInv /\ [ReportNext]_allVars => ExamplesInv'
  <2>1. ExamplesInv /\ UNCHANGED <<command, report>> => ExamplesInv'
    BY DEF ExamplesInv, EveryCauseHasExample
  <2>2. ValidateLatest => ExamplesInv'
    BY DEF ValidateLatest, ExamplesInv, EveryCauseHasExample
  <2>3. [ReportNext]_allVars =>
           CompareRow \/ ValidateLatest \/ UNCHANGED <<command, report>>
    BY DEF ReportNext, allVars, RunPipeline, reportVars, CannotStart,
           PrintReport, AutomateRow
  <2> QED
    BY <2>1, <2>2, <2>3, ExamplesStep
<1>3. ExamplesInv => EveryCauseHasExample
  BY DEF ExamplesInv
<1> QED
  BY <1>1, <1>2, <1>3, CountsInvariant, PTL DEF ReportSpec

\* A command ends once, and phase 1 reads the flags when it does, of rows that
\* no longer change.
RunInv ==
    /\ command \in Commands
    /\ exit \in {"running", "0", "1", "2"}
    /\ flags # << >> =>
          exit # "running" /\ flags \in [Rows -> {"L", "NL", ""}]
    /\ Len(answers) <= MaxReferenceRows
    /\ vendors.built \in BOOLEAN

LEMMA RunInvariant == ReportSpec => []RunInv
<1>1. ReportInit => RunInv
  BY ReportAssumption DEF ReportInit, VendorInit, RunInv
<1>2. RunInv /\ AnswersInv /\ [ReportNext]_allVars => RunInv'
  <2> SUFFICES ASSUME RunInv, AnswersInv, [ReportNext]_allVars PROVE RunInv'
    OBVIOUS
  <2>1. CASE RunPipeline
    <3>1. /\ exit = "running" /\ UNCHANGED reportVars
          /\ vendors' = vendors \/ vendors'.built = TRUE
      <4>1. BuildVendorRows => \E r : vendors' = [built |-> TRUE, rows |-> r]
        BY Zenon DEF BuildVendorRows
      <4>2. BuildVendorRows => vendors'.built = TRUE
        BY <4>1
      <4>3. VendorNext => BuildVendorRows \/ vendors' = vendors
        BY DEF VendorNext
      <4>4. exit = "running" /\ UNCHANGED reportVars /\ VendorNext
        BY <2>1 DEF RunPipeline
      <4> QED
        BY <4>2, <4>3, <4>4
    <3>2. flags' = << >>
      BY <3>1 DEF RunInv, reportVars
    <3> QED
      BY <3>1, <3>2 DEF RunInv, reportVars
  <2>2. CASE ValidateLatest
    <3>1. /\ UNCHANGED <<command, answers, vendors, records>>
          /\ exit' \in {"0", "1"}
      BY <2>2 DEF ValidateLatest, vendorVars
    <3>2. flags' \in [Rows -> {"L", "NL", ""}]
      BY <2>2 DEF ValidateLatest
    <3> QED
      BY <3>1, <3>2 DEF RunInv, Rows
  <2>3. CASE AutomateRow
    <3>1. /\ UNCHANGED <<command, exit, flags, vendors, records>>
          /\ Len(answers) < MaxReferenceRows
          /\ \E a : answers' = Append(answers, a)
      BY <2>3 DEF AutomateRow, vendorVars
    <3>2. Len(answers') <= MaxReferenceRows
      <4>1. Len(answers) \in Nat /\ Len(answers') = Len(answers) + 1
        BY <3>1 DEF AnswersInv
      <4> QED
        BY <3>1, <4>1, ReportAssumption
    <3> QED
      BY <3>1, <3>2 DEF RunInv, Rows
  <2>4. CASE CannotStart \/ CompareRow \/ PrintReport \/ UNCHANGED allVars
    <3>1. /\ UNCHANGED <<command, flags, answers, vendors, records>>
          /\ exit' = exit \/ exit' \in {"0", "1", "2"}
      BY <2>4 DEF CannotStart, CompareRow, PrintReport, allVars, vendorVars
    <3> QED
      BY <3>1 DEF RunInv, Rows
  <2> QED
    BY <2>1, <2>2, <2>3, <2>4 DEF ReportNext
<1> QED
  BY <1>1, <1>2, AnswersInvariant, PTL DEF ReportSpec

\* Types and sizes: no count exceeds the rows that were read.
THEOREM ReportTypeCorrect == ReportSpec => []ReportTypeOK
<1>1. SizeInv /\ AnswersInv /\ CountsInv /\ RunInv => ReportTypeOK
  <2> SUFFICES ASSUME SizeInv, AnswersInv, CountsInv, RunInv PROVE ReportTypeOK
    OBVIOUS
  <2>1. /\ TypeOK /\ command \in Commands /\ book \in Books \cup {NoBook}
        /\ exit \in {"running", "0", "1", "2"}
        /\ flags # << >> => flags \in [Rows -> {"L", "NL", ""}]
        /\ vendors.built \in BOOLEAN
    BY DEF SizeInv, AnswersInv, RunInv
  <2>2. Len(answers) \in 0..MaxReferenceRows
    <3>1. answers \in Seq(Answers)
      BY DEF AnswersInv
    <3>2. Len(answers) \in Nat
      BY <3>1
    <3>3. Len(answers) <= MaxReferenceRows
      BY DEF RunInv
    <3> QED
      BY <3>2, <3>3, ReportAssumption
  <2>3. /\ report.evaluated \in Nat /\ report.accountable \in Nat
        /\ report.exact \in Nat /\ report.due \in Nat
        /\ report.causes \in [Causes -> Nat]
    BY DEF CountsInv, IsReport
  <2>4. report.evaluated \in 0..(MaxRows + MaxReferenceRows)
    BY <2>3, RevisionAssumption, ReportAssumption DEF CountsInv
  <2>5. {report.accountable, report.exact, report.due} \subseteq 0..report.evaluated
    BY <2>3 DEF CountsInv
  <2>6. report.causes \in [Causes -> 0..report.evaluated]
    BY <2>3 DEF CountsInv
  <2> QED
    BY <2>1, <2>2, <2>4, <2>5, <2>6 DEF ReportTypeOK
<1> QED
  BY <1>1, SizeInvariant, AnswersInvariant, CountsInvariant, RunInvariant, PTL

----------------------------------------------------------------------------
(* Causes are earned                                                       *)

Entries(s) == {s[i] : i \in DOMAIN s}

Place(S, i) == Cardinality({j \in S : j <= i})

\* Two places of a sequence of what is left are two entries.
LEMMA PlacesDiffer ==
  ASSUME NEW S \in SUBSET Nat, IsFiniteSet(S), NEW i \in S, NEW j \in S, i < j
  PROVE  Place(S, i) # Place(S, j)
<1> DEFINE I == {k \in S : k <= i}
           J == {k \in S : k <= j}
<1>1. I \subseteq J /\ j \in J /\ j \notin I
  <2>1. i \in Nat /\ j \in Nat /\ \A k \in S : k \in Nat
    OBVIOUS
  <2>2. \A k \in S : k <= i => k <= j
    BY <2>1
  <2>3. j <= j /\ ~(j <= i)
    BY <2>1
  <2> QED
    BY <2>2, <2>3
<1>2. IsFiniteSet(J)
  BY FS_Subset
<1> HIDE DEF I, J
<1>3. I # J
  BY <1>1
<1>4. IsFiniteSet(I) /\ Cardinality(I) <= Cardinality(J)
      /\ (Cardinality(I) = Cardinality(J) => I = J)
  BY <1>1, <1>2, FS_Subset
<1> QED
  BY <1>3, <1>4 DEF Place, I, J

\* Without its HIERARCHY components a rule keeps everything else but
\* separators, and its first entry if it opens with YES.
LEMMA WithoutFacts ==
  ASSUME NEW T, NEW sow \in Seq(T)
  PROVE  LET bare == WithoutHierarchy(sow)
         IN  /\ Entries(bare) \ (Separates \cup {"HIERARCHY"})
                   = Entries(sow) \ (Separates \cup {"HIERARCHY"})
             /\ bare # sow => "HIERARCHY" \in Entries(sow)
             /\ Opens(sow) => bare[1] = sow[1]
<1> DEFINE N == Len(sow)
           gone == {i \in 2..N :
                      \/ /\ i = 2 /\ sow[1] = "HIERARCHY" /\ sow[2] \in Separates
                      \/ /\ sow[i] = "HIERARCHY" /\ sow[i - 1] \in Separates
                         /\ ~(i = 3 /\ sow[1] = "HIERARCHY")
                         /\ i < N => sow[i + 1] \in Separates}
           kept == {i \in DOMAIN sow : i \notin gone /\ i + 1 \notin gone}
           bare == [k \in {Place(kept, i) : i \in kept} |->
                       sow[CHOOSE i \in kept : Place(kept, i) = k]]
<1>1. WithoutHierarchy(sow) = bare
  BY Zenon DEF WithoutHierarchy, Place
<1>2. N \in Nat /\ DOMAIN sow = 1..N
  OBVIOUS
<1>3. \A i \in gone : /\ i \in 2..N
                      /\ \/ i = 2 /\ sow[1] = "HIERARCHY" /\ sow[2] \in Separates
                         \/ sow[i] = "HIERARCHY" /\ sow[i - 1] \in Separates
  OBVIOUS
<1> HIDE DEF N, gone
<1>4. kept \in SUBSET Nat /\ kept \subseteq 1..N /\ IsFiniteSet(kept)
  <2>1. kept \subseteq 1..N
    BY <1>2
  <2>2. IsFiniteSet(1..N)
    BY <1>2, FS_Interval
  <2>3. \A i \in 1..N : i \in Nat
    BY <1>2
  <2> HIDE DEF kept
  <2>4. IsFiniteSet(kept)
    BY <2>1, <2>2, FS_Subset
  <2> QED
    BY <2>1, <2>3, <2>4
<1>5. \A i \in 1..N : i \in kept <=> i \notin gone /\ i + 1 \notin gone
  BY <1>2
<1> HIDE DEF kept
<1>6. \A i \in kept : /\ Place(kept, i) \in DOMAIN bare
                      /\ bare[Place(kept, i)] = sow[i]
  <2> TAKE i \in kept
  <2>1. \A j \in kept : Place(kept, j) = Place(kept, i) => j = i
    <3> SUFFICES ASSUME NEW j \in kept, Place(kept, j) = Place(kept, i), j # i
                 PROVE  FALSE
      OBVIOUS
    <3>1. i < j \/ j < i
      BY <1>4
    <3> QED
      BY <1>4, <3>1, PlacesDiffer
  <2>2. (CHOOSE j \in kept : Place(kept, j) = Place(kept, i)) = i
    BY <2>1
  <2> QED
    BY <2>2
<1>7. \A k \in DOMAIN bare : \E i \in kept : k = Place(kept, i)
  OBVIOUS
<1>8. Entries(bare) = {sow[i] : i \in kept}
  <2> HIDE DEF bare
  <2> QED
    BY <1>6, <1>7 DEF Entries
<1>9. ASSUME NEW i \in 1..N, i \notin kept
      PROVE  sow[i] \in Separates \cup {"HIERARCHY"}
  <2>1. CASE i \in gone
    BY <1>3, <2>1
  <2>2. CASE i + 1 \in gone
    <3>1. i + 1 - 1 = i /\ (i + 1 = 2 => i = 1)
      BY <1>2
    <3> QED
      BY <1>3, <2>2, <3>1
  <2> QED
    BY <1>5, <1>9, <2>1, <2>2
<1>10. Entries(bare) \ (Separates \cup {"HIERARCHY"})
          = Entries(sow) \ (Separates \cup {"HIERARCHY"})
  BY <1>2, <1>4, <1>8, <1>9 DEF Entries
<1>11. ASSUME "HIERARCHY" \notin Entries(sow) PROVE bare = sow
  <2>1. \A i \in 1..N : sow[i] # "HIERARCHY"
    BY <1>2, <1>11 DEF Entries
  <2>2. gone = {}
    <3> SUFFICES ASSUME NEW i \in gone PROVE FALSE
      OBVIOUS
    <3>1. i \in 1..N /\ 1 \in 1..N
      BY <1>2, <1>3
    <3> QED
      BY <1>3, <2>1, <3>1
  <2>3. kept = 1..N
    BY <1>4, <1>5, <2>2
  <2>4. \A i \in 1..N : Place(kept, i) = i
    <3> TAKE i \in 1..N
    <3>1. {j \in kept : j <= i} = 1..i /\ i \in Nat
      BY <1>2, <2>3
    <3>2. Cardinality(1..i) = i
      BY <3>1, CardinalityUpTo
    <3> QED
      BY <3>1, <3>2 DEF Place
  <2>5. DOMAIN bare = 1..N
    BY <2>3, <2>4
  <2>6. \A i \in 1..N : bare[i] = sow[i]
    <3> HIDE DEF bare
    <3> QED
      BY <1>6, <2>3, <2>4
  <2>7. bare = [i \in DOMAIN bare |-> bare[i]] /\ sow = [i \in 1..N |-> sow[i]]
    BY <1>2
  <2> QED
    BY <2>5, <2>6, <2>7
<1>12. ASSUME Opens(sow) PROVE bare[1] = sow[1]
  <2>1. 1 \in 1..N /\ sow[1] \in {"YES", "YEE"}
    <3>1. sow # << >>
      BY <1>12 DEF Opens
    <3> QED
      BY <1>2, <1>12, <3>1 DEF Opens, N
  <2>2. 1 \notin gone /\ 2 \notin gone
    BY <1>3, <2>1 DEF Separates
  <2>3. 1 \in kept
    BY <1>5, <2>1, <2>2
  <2>4. {j \in kept : j <= 1} = {1}
    <3>1. \A j \in kept : j \in 1..N
      BY <1>4
    <3>2. \A j \in kept : j <= 1 => j = 1
      BY <1>2, <3>1
    <3> QED
      BY <2>3, <3>2
  <2>5. Place(kept, 1) = 1
    BY <2>4, FS_Singleton DEF Place
  <2> HIDE DEF bare
  <2> QED
    BY <1>6, <2>3, <2>5
<1> QED
  BY <1>1, <1>10, <1>11, <1>12

\* The examples stay, or the row becomes one more.
Extends(e) == report'.listed = Append(report.listed, e)

LEMMA DocTypeEarns ==
  ASSUME IsReport(report), command = "docType", book # NoBook,
         IsWorkbook(book), KeywordsReadable(book), NEW row,
         report' = CompareDocType(row)
  PROVE  \/ report'.listed = report.listed
         \/ \E e : TypeBlameEarned(e) /\ Extends(e)
<1> DEFINE C == Covering(book, row.number, row.title)
           v == Classify(book, row.number, row.title)
           w == CHOOSE r \in C : \A q \in C : ~Before(q, r)
           graded == row.type \notin NotATypeVerdicts \cup {""}
           cause == CASE row.type = "" -> "REFERENCE_BLANK"
                      [] row.type \in NotATypeVerdicts ->
                            "REFERENCE_NOT_A_DOC_TYPE"
                      [] row.type \notin NotATypeVerdicts \cup {""}
                            /\ v.type = "" -> "NO_RULE_MATCHED"
                      [] row.type \notin NotATypeVerdicts \cup {""}
                            /\ v.type # ""
                            /\ row.type \in v.competing ->
                            "COMPETING_RULES"
                      [] OTHER -> "RULE_DISAGREES_WITH_REFERENCE"
           e == Example(cause, row, v.type)
           matched == graded /\ v.type = row.type
<1>1. report' = IF matched THEN Matched ELSE Differs(cause, ListFlat(e))
  BY Zenon DEF CompareDocType
<1>2. /\ cause \in {"REFERENCE_BLANK", "REFERENCE_NOT_A_DOC_TYPE",
                    "NO_RULE_MATCHED", "COMPETING_RULES",
                    "RULE_DISAGREES_WITH_REFERENCE"}
      /\ ~graded => cause \in OutOfScope
      /\ graded => /\ cause = "NO_RULE_MATCHED" <=> v.type = ""
                   /\ cause = "COMPETING_RULES" <=>
                         v.type # "" /\ row.type \in v.competing
  BY DEF OutOfScope
<1>3. cause \in Causes
  BY <1>2 DEF Causes
<1>4. /\ C \subseteq RuleBook(book)
      /\ C = {} => v.type = "" /\ v.competing = {}
      /\ C # {} => /\ w \in C /\ \A q \in C : ~Before(q, w)
                   /\ v.type = w.type /\ v.competing = {r.type : r \in C}
  BY ClassifyFacts
<1>5. /\ e.cause = cause /\ e.row = row
      /\ ListFlat(e) \in {report.listed, Append(report.listed, e)}
  BY DEF Example, ListFlat
<1>6. graded => row.type # ""
  OBVIOUS
<1> HIDE DEF C, v, w, cause, e, graded
<1>7. CASE matched
  <2>1. report' = [Matched EXCEPT !.due = report.due + 0]
    BY <1>1, <1>3, <1>7, SameDue, Zenon
  <2> QED
    BY <2>1, MatchedCounts DEF CountsMatch
<1>8. CASE ~matched
  <2>1. report' = [Differs(cause, ListFlat(e)) EXCEPT !.due = report.due + 0]
    BY <1>1, <1>3, <1>8, SameDue, Zenon
  <2>2. report'.listed = IF cause \in OutOfScope THEN report.listed
                         ELSE ListFlat(e)
    BY <1>3, <2>1, DiffersCounts
  <2>3. CASE report'.listed = report.listed
    BY <2>3
  <2>4. CASE graded /\ Extends(e)
    <3>1. v.type # row.type
      BY <1>8, <2>4
    <3>2. \A r \in C : r.type # "" /\ r \in RuleRows(book)
                       /\ r.source \in {"REQUIRED", "NOT_REQUIRED"}
                       /\ r.row \in Nat
      BY <1>4, RuleFacts DEF RuleBook, Sources
    <3>3. CASE cause = "COMPETING_RULES"
      <4>1. row.type \in v.competing
        BY <1>2, <2>4, <3>3
      <4>2. w \in C /\ v.type = w.type /\ \A q \in C : ~Before(q, w)
        BY <1>4, <4>1
      <4>3. PICK r \in C : r.type = row.type
        BY <1>4, <4>1
      <4>4. w.type # r.type /\ ~Before(r, w)
        BY <3>1, <4>2, <4>3
      <4>5. ~(w.source = r.source /\ w.row = r.row)
        BY <3>2, <4>2, <4>4, RowTellsRule
      <4>6. Before(w, r)
        <5>1. /\ w.source \in {"REQUIRED", "NOT_REQUIRED"} /\ w.row \in Nat
              /\ r.source \in {"REQUIRED", "NOT_REQUIRED"} /\ r.row \in Nat
          BY <3>2, <4>2, <4>3
        <5> QED
          BY <4>4, <4>5, <5>1 DEF Before
      <4>7. TypeBlameEarned(e)
        BY <1>5, <3>3, <4>2, <4>3, <4>4, <4>6 DEF TypeBlameEarned, C
      <4> QED
        BY <2>4, <4>7
    <3>4. CASE cause = "NO_RULE_MATCHED"
      <4>1. v.type = ""
        BY <1>2, <2>4, <3>4
      <4>2. C = {}
        BY <1>4, <3>2, <4>1
      <4>3. TypeBlameEarned(e)
        BY <1>5, <3>4, <4>2 DEF TypeBlameEarned, C
      <4> QED
        BY <2>4, <4>3
    <3>5. CASE cause = "RULE_DISAGREES_WITH_REFERENCE"
      <4>1. v.type # "" /\ row.type \notin v.competing
        BY <1>2, <2>4, <3>5
      <4>2. C # {} /\ v.competing = {r.type : r \in C}
        BY <1>4, <4>1
      <4>3. \A r \in C : r.type # row.type
        BY <4>1, <4>2
      <4>4. TypeBlameEarned(e)
        BY <1>5, <3>5, <4>2, <4>3 DEF TypeBlameEarned, C
      <4> QED
        BY <2>4, <4>4
    <3>6. cause \in {"NO_RULE_MATCHED", "COMPETING_RULES",
                    "RULE_DISAGREES_WITH_REFERENCE"} \/ cause \in OutOfScope
      BY <1>2 DEF OutOfScope
    <3>7. CASE cause \in OutOfScope
      BY <1>5, <2>2, <3>7
    <3> QED
      BY <3>3, <3>4, <3>5, <3>6, <3>7
  <2> QED
    BY <1>2, <1>5, <2>2, <2>3, <2>4 DEF Extends
<1> QED
  BY <1>7, <1>8

\* What is resolved is a sequence, blank only without a type or a rule, and
\* stated by the type itself or by a rule of the table otherwise.
LEMMA ResolveShape ==
  ASSUME NEW b, IsWorkbook(b), NEW type
  PROVE  LET req == Resolve(b, type, "")
         IN  /\ \E T : req.sow \in Seq(T)
             /\ \/ type \in NullTokens \/ req.sow # << >>
                \/ req.source = "UNMAPPED_DOC_TYPE"
             /\ \/ type \in NullTokens \/ req.sow = <<"NO">>
                \/ req.source = "UNMAPPED_DOC_TYPE"
                \/ \E q \in TableRules(b, Label(type)) : q.sow = req.sow
<1> DEFINE label == Label(type)
           rules == TableRules(b, label)
           req == Resolve(b, type, "")
           Goal == /\ \E T : req.sow \in Seq(T)
                   /\ \/ type \in NullTokens \/ req.sow # << >>
                      \/ req.source = "UNMAPPED_DOC_TYPE"
                   /\ \/ type \in NullTokens \/ req.sow = <<"NO">>
                      \/ req.source = "UNMAPPED_DOC_TYPE"
                      \/ \E q \in rules : q.sow = req.sow
<1> SUFFICES Goal
  OBVIOUS
<1>1. << >> \in Seq({}) /\ <<"NO">> \in Seq({"NO"})
  OBVIOUS
<1>2. CASE label = ""
  <2>1. label \notin SelfStating
    BY <1>2 DEF SelfStating
  <2>2. req.sow = << >>
    BY <1>2, <2>1 DEF Resolve, Requirement
  <2>3. type \in NullTokens
    BY <1>2 DEF Label, NullTokens
  <2> QED
    BY <1>1, <2>2, <2>3
<1>3. CASE label \in SelfStating
  <2>1. label # ""
    BY <1>3 DEF SelfStating
  <2>2. req.sow = <<"NO">>
    BY <1>3, <2>1 DEF Resolve, Requirement
  <2>3. <<"NO">> # << >>
    OBVIOUS
  <2> HIDE DEF req
  <2> QED
    BY <1>1, <2>2, <2>3
<1>4. CASE label \notin SelfStating \cup {""} /\ rules # {}
  <2>1. req.sow = (CHOOSE r \in rules : TRUE).sow
    BY <1>4 DEF Resolve, Requirement
  <2>2. PICK q \in rules : req.sow = q.sow
    BY <1>4, <2>1
  <2>3. q \in b.table /\ q.sow # << >>
    BY DEF TableRules
  <2>4. q \in SowRow
    BY <2>3 DEF IsWorkbook
  <2>5. q.sow \in Seq(STRING)
    BY <2>4 DEF SowRow
  <2> HIDE DEF req, rules, label
  <2> QED
    BY <2>2, <2>3, <2>5
<1>5. CASE label \notin SelfStating \cup {""} /\ rules = {}
  <2>1. req = Requirement(<< >>, "UNMAPPED_DOC_TYPE")
    BY <1>5 DEF Resolve
  <2> HIDE DEF req
  <2>2. req.sow = << >> /\ req.source = "UNMAPPED_DOC_TYPE"
    BY <2>1 DEF Requirement
  <2> QED
    BY <1>1, <2>2
<1> QED
  BY <1>2, <1>3, <1>4, <1>5

\* Two values with the same canonical form have the same scope; with the same
\* components and not a bare YES they have the same canonical form.
LEMMA CanonicalFacts ==
  ASSUME NEW r, NEW s, Opens(r) \/ r = <<"NO">>
  PROVE  /\ CanonicalSow(r) = CanonicalSow(s) =>
               /\ CanonicalSow(r).parts = CanonicalSow(s).parts
               /\ ScopeOf(r) = ScopeOf(s)
         /\ /\ CanonicalSow(r).parts = CanonicalSow(s).parts
            /\ CanonicalSow(r).parts # {}
            => CanonicalSow(r) = CanonicalSow(s)
<1> DEFINE P(x) == CanonicalSow(x).parts
           X(x) == CanonicalSow(x).text
<1>1. \A x : CanonicalSow(x) = [text |-> X(x), parts |-> P(x)]
  <2> TAKE x
  <2>1. \E t, p : CanonicalSow(x) = [text |-> t, parts |-> p]
    BY Zenon DEF CanonicalSow
  <2> QED
    BY <2>1
<1>2. \A x : P(x) # {} => X(x) = <<"YES", "-">>
  <2> TAKE x
  <2>1. CASE Opens(x) /\ Len(x) > 1
    <3>1. \E p : CanonicalSow(x) = [text |-> <<"YES", "-">>, parts |-> p]
      BY <2>1, Zenon DEF CanonicalSow
    <3> QED
      BY <3>1
  <2>2. CASE ~(Opens(x) /\ Len(x) > 1)
    <3>1. \E t : CanonicalSow(x) = [text |-> t, parts |-> {}]
      BY <2>2, Zenon DEF CanonicalSow
    <3> QED
      BY <3>1
  <2> QED
    BY <2>1, <2>2
<1>3. \A x : /\ Opens(x) => X(x) \in {<<"YES", "-">>, <<"YES">>}
             /\ ~Opens(x) => X(x) = x
  <2> TAKE x
  <2>1. CASE Opens(x) /\ Len(x) > 1
    <3>1. \E p : CanonicalSow(x) = [text |-> <<"YES", "-">>, parts |-> p]
      BY <2>1, Zenon DEF CanonicalSow
    <3> QED
      BY <2>1, <3>1
  <2>2. CASE ~(Opens(x) /\ Len(x) > 1)
    <3>1. CanonicalSow(x) = [text |-> IF Opens(x) THEN <<"YES">> ELSE x,
                             parts |-> {}]
      BY <2>2, Zenon DEF CanonicalSow
    <3>2. X(x) = IF Opens(x) THEN <<"YES">> ELSE x
      BY <3>1
    <3> QED
      BY <2>2, <3>2
  <2> QED
    BY <2>1, <2>2
<1>4. Opens(<<"YES">>) /\ Opens(<<"YES", "-">>) /\ ~Opens(<<"NO">>)
  BY DEF Opens
<1> HIDE DEF P, X
<1>5. ASSUME CanonicalSow(r) = CanonicalSow(s) PROVE ScopeOf(r) = ScopeOf(s)
  <2>1. X(r) = X(s)
    BY <1>5 DEF X
  <2>2. Opens(r) <=> Opens(s)
    BY <1>3, <1>4, <2>1
  <2>3. CASE Opens(r)
    <3>1. r # <<"NO">> /\ s # <<"NO">>
      BY <1>4, <2>2, <2>3
    <3> QED
      BY <2>2, <2>3, <3>1 DEF ScopeOf
  <2>4. CASE ~Opens(r)
    <3>1. r = s
      BY <1>3, <2>1, <2>2, <2>4
    <3> QED
      BY <3>1
  <2> QED
    BY <2>3, <2>4
<1>6. ASSUME CanonicalSow(r).parts = CanonicalSow(s).parts,
             CanonicalSow(r).parts # {}
      PROVE  CanonicalSow(r) = CanonicalSow(s)
  <2>1. P(r) = P(s) /\ P(r) # {}
    BY <1>6 DEF P
  <2>2. X(r) = X(s)
    BY <1>2, <2>1
  <2> QED
    BY <1>1, <2>1, <2>2
<1> QED
  BY <1>5, <1>6

LEMMA SowEarns ==
  ASSUME IsReport(report), command = "sow", book # NoBook, IsWorkbook(book),
         NEW row, report' = CompareSow(row)
  PROVE  \/ report'.listed = report.listed
         \/ \E e : SowBlameEarned(e) /\ Extends(e)
<1> DEFINE required == Resolve(book, row.type, "")
           verdict == row.sow = <<"NO">> \/ Opens(row.sow)
           blame == SowCause(row.sow, required)
           cause == CASE row.sow = << >> -> "REFERENCE_BLANK"
                      [] row.sow # << >> /\ ~verdict ->
                            "REFERENCE_NOT_A_SOW_VALUE"
                      [] verdict /\ row.type = "" -> "DOC_TYPE_ABSENT"
                      [] verdict /\ required.source = "UNMAPPED_DOC_TYPE" ->
                            "DOC_TYPE_NOT_IN_SOW_TABLE"
                      [] OTHER -> blame
           e == Example(cause, row, required.sow)
           matched == cause \notin OutOfScope /\ required.sow = row.sow
           bare == WithoutHierarchy(required.sow)
           hierarchy == /\ required.source # "NOT_SOW_VERDICT"
                        /\ bare # required.sow
                        /\ row.sow = bare
           spelling == CanonicalSow(row.sow) = CanonicalSow(required.sow)
<1>1. report' = IF matched THEN Matched ELSE Differs(cause, ListFlat(e))
  BY Zenon DEF CompareSow
<1>2. blame = CASE hierarchy -> "RULE_STATES_HIERARCHY"
                [] ~hierarchy /\ row.sow = <<"NO">> ->
                      "REFERENCE_OVERRIDES_TO_NO"
                [] ~hierarchy /\ row.sow # <<"NO">> /\ spelling ->
                      "REFERENCE_SPELLING_VARIANT"
                [] OTHER -> "RULE_DISAGREES_WITH_REFERENCE"
  BY Zenon DEF SowCause
<1> HIDE DEF blame, required, hierarchy, spelling
<1>3. /\ blame = "RULE_STATES_HIERARCHY" => hierarchy
      /\ blame = "REFERENCE_SPELLING_VARIANT" => spelling
      /\ blame = "REFERENCE_OVERRIDES_TO_NO" => row.sow = <<"NO">>
      /\ blame = "RULE_DISAGREES_WITH_REFERENCE" =>
            ~spelling /\ row.sow # <<"NO">>
      /\ blame \in {"RULE_STATES_HIERARCHY", "REFERENCE_OVERRIDES_TO_NO",
                    "REFERENCE_SPELLING_VARIANT",
                    "RULE_DISAGREES_WITH_REFERENCE"}
  BY <1>2
<1>4. /\ cause \in {"REFERENCE_BLANK", "REFERENCE_NOT_A_SOW_VALUE",
                    "DOC_TYPE_ABSENT", "DOC_TYPE_NOT_IN_SOW_TABLE", blame}
      /\ cause \notin OutOfScope =>
            /\ cause = blame /\ verdict
            /\ required.source # "UNMAPPED_DOC_TYPE"
  BY DEF OutOfScope
<1>5. cause \in Causes
  BY <1>3, <1>4 DEF Causes
<1>6. /\ e.cause = cause /\ e.row = row /\ e.calculated = required.sow
      /\ ListFlat(e) \in {report.listed, Append(report.listed, e)}
  BY DEF Example, ListFlat
<1>7. /\ \E T : required.sow \in Seq(T)
      /\ \/ row.type \in NullTokens \/ required.sow # << >>
         \/ required.source = "UNMAPPED_DOC_TYPE"
      /\ \/ row.type \in NullTokens \/ required.sow = <<"NO">>
         \/ required.source = "UNMAPPED_DOC_TYPE"
         \/ \E q \in TableRules(book, Label(row.type)) : q.sow = required.sow
  BY ResolveShape DEF required
<1> HIDE DEF cause, e, bare, verdict
<1>8. CASE matched
  <2>1. report' = [Matched EXCEPT !.due = report.due + 0]
    BY <1>1, <1>5, <1>8, SameDue, Zenon
  <2> QED
    BY <2>1, MatchedCounts DEF CountsMatch
<1>9. CASE ~matched
  <2>1. report' = [Differs(cause, ListFlat(e)) EXCEPT !.due = report.due + 0]
    BY <1>1, <1>5, <1>9, SameDue, Zenon
  <2>2. report'.listed = IF cause \in OutOfScope THEN report.listed
                         ELSE ListFlat(e)
    BY <1>5, <2>1, DiffersCounts
  <2>3. CASE report'.listed = report.listed
    BY <2>3
  <2>4. CASE cause \notin OutOfScope /\ Extends(e)
    <3> DEFINE pieces(sow) == Entries(sow) \ Separates
               parts(sow) == CanonicalSow(sow).parts
    <3>1. cause = blame /\ verdict /\ required.source # "UNMAPPED_DOC_TYPE"
      BY <1>4, <2>4
    <3>2. ASSUME cause = "RULE_STATES_HIERARCHY"
          PROVE  /\ "HIERARCHY" \in pieces(required.sow)
                 /\ pieces(row.sow) \ {"HIERARCHY"}
                       = pieces(required.sow) \ {"HIERARCHY"}
      <4>1. bare # required.sow /\ row.sow = bare
        BY <1>3, <3>1, <3>2 DEF hierarchy
      <4>2. PICK T : required.sow \in Seq(T)
        BY <1>7
      <4>3. /\ Entries(bare) \ (Separates \cup {"HIERARCHY"})
                  = Entries(required.sow) \ (Separates \cup {"HIERARCHY"})
            /\ bare # required.sow => "HIERARCHY" \in Entries(required.sow)
        BY <4>2, WithoutFacts DEF bare
      <4> QED
        BY <4>1, <4>3 DEF Separates
    <3>3. ASSUME cause = "REFERENCE_SPELLING_VARIANT"
          PROVE  /\ parts(row.sow) = parts(required.sow)
                 /\ ScopeOf(row.sow) = ScopeOf(required.sow)
      <4>1. CanonicalSow(row.sow) = CanonicalSow(required.sow)
        BY <1>3, <3>1, <3>3 DEF spelling
      <4> QED
        BY <3>1, <4>1, CanonicalFacts DEF verdict
    <3>4. ASSUME cause = "RULE_DISAGREES_WITH_REFERENCE"
          PROVE  \/ row.type \in NullTokens
                 \/ /\ required.sow # << >>
                    /\ \/ parts(row.sow) # parts(required.sow)
                       \/ parts(row.sow) = {}
      <4>1. CanonicalSow(row.sow) # CanonicalSow(required.sow)
        BY <1>3, <3>1, <3>4 DEF spelling
      <4>2. \/ parts(row.sow) # parts(required.sow)
            \/ parts(row.sow) = {}
        BY <3>1, <4>1, CanonicalFacts DEF verdict
      <4> QED
        BY <1>7, <3>1, <4>2
    <3>5. ASSUME cause = "REFERENCE_OVERRIDES_TO_NO"
          PROVE  \/ ScopeOf(required.sow) = "in"
                 \/ row.type \in NullTokens
                 \/ \E q \in TableRules(book, Label(row.type)) :
                       ScopeOf(q.sow) = "unknown"
      <4>1. required.sow # <<"NO">>
        BY <1>3, <1>9, <2>4, <3>1, <3>5
      <4>2. ScopeOf(required.sow) \in {"in", "unknown"}
        BY <4>1 DEF ScopeOf
      <4> QED
        BY <1>7, <3>1, <4>1, <4>2
    <3>6. SowBlameEarned(e)
      BY <1>6, <3>2, <3>3, <3>4, <3>5 DEF SowBlameEarned, Entries
    <3> QED
      BY <2>4, <3>6
  <2> QED
    BY <1>6, <2>2, <2>3, <2>4 DEF Extends
<1> QED
  BY <1>8, <1>9

\* A "NO" beside a rule that is in scope is an override in phase 2B too.
LEMMA OverrideIsOne ==
  ASSUME NEW required, NEW T, required.sow \in Seq(T), Opens(required.sow)
  PROVE  SowCause(<<"NO">>, required) = "REFERENCE_OVERRIDES_TO_NO"
<1> DEFINE bare == WithoutHierarchy(required.sow)
           hierarchy == /\ required.source # "NOT_SOW_VERDICT"
                        /\ bare # required.sow
                        /\ <<"NO">> = bare
           spelling == CanonicalSow(<<"NO">>) = CanonicalSow(required.sow)
<1>1. bare[1] = required.sow[1]
  BY WithoutFacts
<1>2. required.sow[1] \in {"YES", "YEE"}
  BY DEF Opens
<1> HIDE DEF bare
<1>3. <<"NO">> # bare
  BY <1>1, <1>2
<1>4. ~hierarchy
  BY <1>3
<1>5. SowCause(<<"NO">>, required) =
         CASE hierarchy -> "RULE_STATES_HIERARCHY"
           [] ~hierarchy /\ <<"NO">> = <<"NO">> -> "REFERENCE_OVERRIDES_TO_NO"
           [] ~hierarchy /\ <<"NO">> # <<"NO">> /\ spelling ->
                 "REFERENCE_SPELLING_VARIANT"
           [] OTHER -> "RULE_DISAGREES_WITH_REFERENCE"
  BY Zenon DEF SowCause, bare
<1> HIDE DEF hierarchy, spelling
<1> QED
  BY <1>4, <1>5

LEMMA IdbEarns ==
  ASSUME IsReport(report), command = "idb", book # NoBook, IsWorkbook(book),
         NEW row, report' = CompareIdb(row)
  PROVE  \/ report'.listed = report.listed
         \/ \E e : IdbBlameEarned(e) /\ Extends(e)
<1> DEFINE required == Resolve(book, row.type, "")
           calculated == IdbStatus(required.sow).status
           cause == CASE row.idb = "" -> "REFERENCE_BLANK"
                      [] row.idb # "" /\ ~IsIdbStatus(row.idb) ->
                            "REFERENCE_NOT_AN_IDB_VALUE"
                      [] IsIdbStatus(row.idb) /\ calculated = "UNMAPPED" ->
                            "UPSTREAM_SOW_UNRESOLVED"
                      [] OTHER -> IdbCause(row, calculated)
           e == Example(cause, row, calculated)
           listed == ListPerCause(e)
           matched == cause \notin OutOfScope /\ calculated = row.idb
           agreed == /\ cause \notin OutOfScope
                     /\ RequiresCheck(calculated) = RequiresCheck(row.idb)
           counted == IF matched THEN Matched ELSE Differs(cause, listed)
<1>1. report' = [counted EXCEPT !.due = IF agreed THEN @ + 1 ELSE @]
  BY Zenon DEF CompareIdb
<1>2. report'.listed = counted.listed
  <2>1. report = [evaluated |-> report.evaluated,
                  accountable |-> report.accountable, exact |-> report.exact,
                  due |-> report.due, causes |-> report.causes,
                  listed |-> report.listed]
    BY DEF IsReport
  <2>2. \E a, b, x, d, c, l :
           counted = [evaluated |-> a, accountable |-> b, exact |-> x,
                      due |-> d, causes |-> c, listed |-> l]
    <3> HIDE DEF matched, cause, listed
    <3>1. CASE matched
      BY <2>1, <3>1 DEF Matched
    <3>2. CASE ~matched
      BY <2>1, <3>2 DEF Differs
    <3> QED
      BY <3>1, <3>2
  <2> HIDE DEF counted, agreed
  <2> QED
    BY <1>1, <2>2
<1>3. counted.listed \in {report.listed, listed}
      /\ (cause \in OutOfScope \/ matched => counted.listed = report.listed)
  <2> HIDE DEF matched, cause, listed
  <2>1. CASE matched
    BY <2>1 DEF Matched, IsReport
  <2>2. CASE ~matched
    BY <2>2 DEF Differs, IsReport
  <2> QED
    BY <2>1, <2>2
<1>4. /\ calculated \in {"NO NEED TO CHECK", "TO BE CHECK", "UNMAPPED"}
      /\ calculated = "TO BE CHECK" => Opens(required.sow)
  <2>1. \A sow : /\ IdbStatus(sow).status \in
                       {"NO NEED TO CHECK", "TO BE CHECK", "UNMAPPED"}
                 /\ IdbStatus(sow).status = "TO BE CHECK" => Opens(sow)
    <3> TAKE sow
    <3>1. /\ ScopeOf(sow) \in {"out", "in", "unknown"}
          /\ ScopeOf(sow) = "in" => Opens(sow)
      BY DEF ScopeOf
    <3> QED
      BY <3>1 DEF IdbStatus
  <2> QED
    BY <2>1
<1>5. \E T : required.sow \in Seq(T)
  BY ResolveShape
<1>6. /\ e.cause = cause /\ e.row = row /\ e.calculated = calculated
      /\ listed \in {report.listed, Append(report.listed, e)}
  BY DEF Example, ListPerCause
<1>7. cause \notin OutOfScope =>
         /\ cause = IdbCause(row, calculated) /\ calculated # "UNMAPPED"
         /\ IsIdbStatus(row.idb)
  BY DEF OutOfScope
<1> HIDE DEF required, calculated, cause, e, listed, counted
<1>8. CASE counted.listed = report.listed
  BY <1>2, <1>8
<1>9. CASE cause \notin OutOfScope /\ calculated # row.idb
           /\ counted.listed = Append(report.listed, e)
  <2>1. cause = IdbCause(row, calculated) /\ IsIdbStatus(row.idb)
        /\ calculated \in {"NO NEED TO CHECK", "TO BE CHECK"}
    BY <1>4, <1>7, <1>9
  <2>2. cause = "COMPLETION_EVIDENCE_NOT_AVAILABLE" =>
           RequiresCheck(row.idb) /\ RequiresCheck(calculated)
    BY <2>1 DEF IdbCause, RequiresCheck, RecordedOutcomes
  <2>3. cause = "UPSTREAM_SOW_OVERRIDDEN" =>
           /\ ScopeOf(required.sow) = "in"
           /\ SowCause(row.sow, required) = "REFERENCE_OVERRIDES_TO_NO"
    <3>1. ASSUME cause = "UPSTREAM_SOW_OVERRIDDEN"
          PROVE  row.sow = <<"NO">> /\ Opens(required.sow)
      BY <1>4, <2>1, <3>1 DEF IdbCause
    <3>2. Opens(required.sow) => ScopeOf(required.sow) = "in"
      BY DEF ScopeOf, Opens
    <3> QED
      BY <1>5, <3>1, <3>2, OverrideIsOne
  <2>4. cause = "RULE_DISAGREES_WITH_REFERENCE" =>
           RequiresCheck(row.idb) # RequiresCheck(calculated)
    <3> SUFFICES ASSUME cause = "RULE_DISAGREES_WITH_REFERENCE"
                 PROVE  RequiresCheck(row.idb) # RequiresCheck(calculated)
      OBVIOUS
    <3>1. /\ row.idb \notin Variants /\ row.idb \notin NotGeneratable
          /\ ~(calculated = "TO BE CHECK" /\ row.idb \in RecordedOutcomes)
      BY <2>1 DEF IdbCause
    <3>2. row.idb \in RecordedOutcomes \cup {"TO BE CHECK", "NO NEED TO CHECK"}
      BY <2>1, <3>1 DEF IsIdbStatus
    <3> QED
      BY <1>9, <2>1, <3>1, <3>2 DEF RequiresCheck, RecordedOutcomes
  <2>5. IdbBlameEarned(e)
    BY <1>6, <2>2, <2>3, <2>4 DEF IdbBlameEarned, required
  <2> QED
    BY <1>2, <1>9, <2>5 DEF Extends
<1> QED
  BY <1>3, <1>6, <1>8, <1>9

\* The examples of the reports that compare row by row, each earned.
BlameInv ==
    /\ command # "latest" => IsSequence(report.listed)
    /\ BlameIsEarned

Earned(e) ==
    CASE command = "docType" -> TypeBlameEarned(e)
      [] command = "sow" -> SowBlameEarned(e)
      [] OTHER -> IdbBlameEarned(e)

LEMMA BlameStep ==
  CountsInv /\ AnswersInv /\ BlameInv /\ CompareRow => BlameInv'
<1> SUFFICES ASSUME CountsInv, AnswersInv, BlameInv, CompareRow
             PROVE  BlameInv'
  OBVIOUS
<1>1. /\ command \in {"docType", "sow", "idb"} /\ book # NoBook
      /\ UNCHANGED <<command, book>> /\ Readable
  BY DEF CompareRow
<1>2. IsWorkbook(book)
  BY <1>1, ReportAssumption DEF AnswersInv
<1>3. IsReport(report)
  BY DEF CountsInv
<1>4. PICK row \in ReferenceRows[command] :
         report' = CASE command = "docType" -> CompareDocType(row)
                     [] command = "sow" -> CompareSow(row)
                     [] command = "idb" -> CompareIdb(row)
  BY Zenon DEF CompareRow
<1>5. \/ report'.listed = report.listed
      \/ \E e : Earned(e) /\ Extends(e)
  <2>1. CASE command = "docType"
    <3>1. report' = CompareDocType(row)
      BY <1>4, <2>1
    <3>2. KeywordsReadable(book)
      BY <1>1, <2>1 DEF Readable
    <3> QED
      BY <1>1, <1>2, <1>3, <2>1, <3>1, <3>2, DocTypeEarns DEF Earned
  <2>2. CASE command = "sow"
    <3>1. report' = CompareSow(row)
      BY <1>4, <2>2
    <3> QED
      BY <1>1, <1>2, <1>3, <2>2, <3>1, SowEarns DEF Earned
  <2>3. CASE command = "idb"
    <3>1. report' = CompareIdb(row)
      BY <1>4, <2>3
    <3> QED
      BY <1>1, <1>2, <1>3, <2>3, <3>1, IdbEarns DEF Earned
  <2> QED
    BY <1>1, <2>1, <2>2, <2>3
<1>6. /\ IsSequence(report.listed)
      /\ \A k \in DOMAIN report.listed : Earned(report.listed[k])
  BY <1>1 DEF BlameInv, BlameIsEarned, Earned
<1>7. /\ IsSequence(report'.listed)
      /\ \A k \in DOMAIN report'.listed : Earned(report'.listed[k])
  <2>1. CASE report'.listed = report.listed
    BY <1>6, <2>1
  <2>2. ASSUME NEW e, Earned(e), Extends(e)
        PROVE  /\ IsSequence(report'.listed)
               /\ \A k \in DOMAIN report'.listed : Earned(report'.listed[k])
    <3> DEFINE s == report.listed
               t == report'.listed
    <3>1. /\ IsSequence(t) /\ \A k \in DOMAIN s : t[k] = s[k]
          /\ t[Len(s) + 1] = e
      BY <1>6, <2>2, AppendFacts DEF Extends
    <3>2. \A k \in DOMAIN t : k \in DOMAIN s \/ k = Len(s) + 1
      <4>1. s \in Seq({s[k] : k \in DOMAIN s})
        BY <1>6 DEF IsSequence
      <4>2. DOMAIN s = 1..Len(s) /\ Len(s) \in Nat
        BY <4>1
      <4>3. t = Append(s, e) /\ DOMAIN t = 1..(Len(s) + 1)
        BY <2>2, <4>1 DEF Extends
      <4> QED
        BY <4>2, <4>3
    <3> QED
      BY <1>6, <2>2, <3>1, <3>2
  <2> QED
    BY <1>5, <2>1, <2>2
<1>8. \A e : Earned(e)' <=> Earned(e)
  BY <1>1 DEF Earned, TypeBlameEarned, SowBlameEarned, IdbBlameEarned
<1> QED
  BY <1>1, <1>7, <1>8 DEF BlameInv, BlameIsEarned, Earned

\* Whatever the reference and the rules workbook hold, an example of phases 2A
\* to 2C is listed under a cause only if what BlameIsEarned says of that cause is
\* true of it (compare_doc_types, and _classify in sow.py and idb.py).
THEOREM BlamesAreEarned == ReportSpec => []BlameIsEarned
<1>1. ReportInit => BlameInv
  <2> SUFFICES ASSUME ReportInit PROVE BlameInv
    OBVIOUS
  <2>1. report.listed = << >>
    BY DEF ReportInit, EmptyReport
  <2> QED
    BY <2>1 DEF BlameInv, BlameIsEarned, IsSequence
<1>2. CountsInv /\ AnswersInv /\ BlameInv /\ [ReportNext]_allVars => BlameInv'
  <2>1. BlameInv /\ UNCHANGED <<command, book, report>> => BlameInv'
    <3> SUFFICES ASSUME BlameInv, UNCHANGED <<command, book, report>>
                 PROVE  BlameInv'
      OBVIOUS
    <3>1. \A e : Earned(e)' <=> Earned(e)
      BY DEF Earned, TypeBlameEarned, SowBlameEarned, IdbBlameEarned
    <3> QED
      BY <3>1 DEF BlameInv, BlameIsEarned, Earned
  <2>2. ValidateLatest => BlameInv'
    BY DEF ValidateLatest, BlameInv, BlameIsEarned
  <2>3. [ReportNext]_allVars =>
           CompareRow \/ ValidateLatest \/ UNCHANGED <<command, book, report>>
    BY DEF ReportNext, allVars, RunPipeline, reportVars, CannotStart,
           PrintReport, AutomateRow
  <2> QED
    BY <2>1, <2>2, <2>3, BlameStep
<1>3. BlameInv => BlameIsEarned
  BY DEF BlameInv
<1> QED
  BY <1>1, <1>2, <1>3, CountsInvariant, AnswersInvariant, PTL DEF ReportSpec
=============================================================================
