--------------------------- MODULE LatestRevision ---------------------------
(***************************************************************************)
(* How the engine finds the latest revision of each document: the rows of  *)
(* the QatarEnergy-TN sheet become document records one by one             *)
(* (services/mdr_pipeline.py), then determine_latest                       *)
(* (engine/revision/ranking.py) goes through the documents in the order of *)
(* their first rows and decides every record of one document at a time.    *)
(***************************************************************************)
EXTENDS Integers, Sequences

CONSTANTS
    Numbers,        \* contents a DOCUMENT NO. cell can have, upper-cased:
                    \* sequences of characters
    NullNumbers,    \* those that mean "no value"
    Separators,     \* characters other than A-Z and 0-9
    RevCells,       \* contents a REV cell can have, after clean()
    MaxRows         \* bound: rows of the sheet

\* What parse_revision tells apart.  "number" covers both 3 and 3.0, the
\* fraction is dropped first; "letter" covers both cases, 0 is A.
RevCell == [form : {"null", "other"}]
           \cup [form : {"number"}, digits : Nat \ {0}, value : Nat]
           \cup [form : {"letter"}, value : 0..25]

ASSUME RevisionAssumption ==
    /\ NullNumbers \subseteq Numbers
    /\ << >> \notin Numbers \ NullNumbers
    /\ RevCells \subseteq RevCell
    /\ MaxRows \in Nat

VARIABLES
    stage,          \* "assemble", then "rank", then "done"
    rowsRead,       \* rows of the sheet the pipeline went through
    records,        \* EngineResult.documents
    ranked          \* keys of the groups determine_latest is done with

vars == <<stage, rowsRead, records, ranked>>

\* RevisionBand: a higher band is later in the life of a document.
Unparseable == -1
Numeric     == 0
Alphabetic  == 1
AsBuilt     == 2

\* normalise_identity: the key is what is left without the separators, also
\* when that is nothing.
Canonical(n) == SelectSeq(n, LAMBDA c : c \notin Separators)

Keys == {Canonical(n) : n \in Numbers}
Statuses == {"LATEST", "OLD", "AS_BUILT", "EXCEPTION"}
\* The kinds of exception_reason.
Whys == {"", "unparseable", "withdrawn", "asBuilt", "noneEligible",
         "ambiguous", "notEligible"}
Record == [number : Numbers, doc : Keys, raw : RevCells,
           band : {Unparseable, Numeric, Alphabetic, AsBuilt},
           rank : Nat, eligible : BOOLEAN, status : Statuses,
           latest : BOOLEAN, exception : BOOLEAN, why : Whys]

Init ==
    /\ stage = "assemble"
    /\ rowsRead = 0
    /\ records = << >>
    /\ ranked = {}

----------------------------------------------------------------------------
(* Assembly: parse_revision, is_withdrawn and _build_documents             *)

\* Mutant: every letter belongs to the sequence.
ParseLettersAlike(cell) ==
    CASE cell.form = "number" /\ cell.digits <= 3 ->
            [band |-> Numeric, rank |-> cell.value]
      [] cell.form = "letter" -> [band |-> Alphabetic, rank |-> cell.value]
      [] OTHER -> [band |-> Unparseable, rank |-> 0]

\* Z is the as-built marker and not a position in the sequence.
ParseRevision(cell) ==
    CASE cell.form = "number" /\ cell.digits <= 3 ->
            [band |-> Numeric, rank |-> cell.value]
      [] cell.form = "letter" /\ cell.value = 25 ->
            [band |-> AsBuilt, rank |-> 0]
      [] cell.form = "letter" /\ cell.value # 25 ->
            [band |-> Alphabetic, rank |-> cell.value]
      [] OTHER -> [band |-> Unparseable, rank |-> 0]

Document(number, cell, withdrawn) ==
    LET rev == ParseRevision(cell)
        why == CASE rev.band = Unparseable -> "unparseable"
                 [] rev.band # Unparseable /\ withdrawn -> "withdrawn"
                 [] rev.band = AsBuilt /\ ~withdrawn -> "asBuilt"
                 [] OTHER -> ""
    IN  [number |-> number, doc |-> Canonical(number), raw |-> cell,
         band |-> rev.band, rank |-> rev.rank,
         eligible |-> rev.band \in {Numeric, Alphabetic} /\ ~withdrawn,
         status |-> "EXCEPTION", latest |-> FALSE,
         exception |-> why \in {"unparseable", "withdrawn"}, why |-> why]

ReadRow ==
    /\ stage = "assemble"
    /\ rowsRead < MaxRows
    /\ rowsRead' = rowsRead + 1
    /\ \/ /\ NullNumbers # {}
          /\ UNCHANGED records
       \/ \E number \in Numbers \ NullNumbers, cell \in RevCells,
             withdrawn \in BOOLEAN :
             records' = Append(records, Document(number, cell, withdrawn))
    /\ UNCHANGED <<stage, ranked>>

\* The sheet may end after any row.
EndOfSheet ==
    /\ stage = "assemble"
    /\ stage' = "rank"
    /\ UNCHANGED <<rowsRead, records, ranked>>

----------------------------------------------------------------------------
(* Ranking: group_by_identity and determine_latest                         *)

Rows == DOMAIN records

\* Mutant: rows that already have a reason are decided with every document.
GroupLoose(k) == {i \in Rows : records[i].doc = k \/ records[i].why # ""}

Group(k) == {i \in Rows : records[i].doc = k}

Candidates(k) == {i \in Group(k) : records[i].eligible}

\* (band, ordinal), compared as Python compares tuples.
Higher(i, j) ==
    \/ records[i].band > records[j].band
    \/ records[i].band = records[j].band /\ records[i].rank > records[j].rank

Winners(k) == {i \in Candidates(k) : \A j \in Candidates(k) : ~Higher(j, i)}

Decide(i, status, latest, exception, why) ==
    [records[i] EXCEPT !.status = status, !.latest = latest,
                       !.exception = exception, !.why = why]

\* No row of the document is eligible.
DecideNone(i) ==
    LET unexplained == records[i].why = ""
    IN  Decide(i, "EXCEPTION", FALSE, records[i].exception \/ unexplained,
               IF unexplained THEN "noneEligible" ELSE records[i].why)

\* Mutant: an ambiguous top revision is listed without saying why.
DecideAmongSilent(i, k) ==
    LET r == records[i]
    IN  IF i \in Winners(k)
        THEN Decide(i, IF Winners(k) = {i} THEN "LATEST" ELSE "EXCEPTION",
                    Winners(k) = {i}, Winners(k) # {i}, r.why)
        ELSE Decide(i, IF r.eligible THEN "OLD" ELSE "EXCEPTION", FALSE,
                    ~r.eligible, r.why)

DecideAmong(i, k) ==
    LET r == records[i]
        winner == i \in Winners(k)
    IN  CASE winner /\ Winners(k) = {i} ->
                Decide(i, "LATEST", TRUE, r.exception, r.why)
          [] winner /\ Winners(k) # {i} ->
                Decide(i, "EXCEPTION", FALSE, TRUE, "ambiguous")
          [] ~winner /\ r.eligible ->
                Decide(i, "OLD", FALSE, r.exception, r.why)
          [] ~winner /\ ~r.eligible /\ r.band = AsBuilt ->
                Decide(i, "AS_BUILT", FALSE, r.exception, r.why)
          [] OTHER ->
                Decide(i, "EXCEPTION", FALSE, TRUE,
                       IF r.why = "" THEN "notEligible" ELSE r.why)

RankGroup(k) ==
    /\ records' = [i \in Rows |->
          CASE i \notin Group(k) -> records[i]
            [] i \in Group(k) /\ Candidates(k) = {} -> DecideNone(i)
            [] i \in Group(k) /\ Candidates(k) # {} -> DecideAmong(i, k)]
    /\ ranked' = ranked \cup {k}
    /\ UNCHANGED <<stage, rowsRead>>

\* The groups come in the order in which their keys were first met.
RankNext ==
    /\ stage = "rank"
    /\ \E i \in Rows :
          /\ records[i].doc \notin ranked
          /\ \A j \in 1..(i - 1) : records[j].doc \in ranked
          /\ RankGroup(records[i].doc)

Return ==
    /\ stage = "rank"
    /\ \A i \in Rows : records[i].doc \in ranked
    /\ stage' = "done"
    /\ UNCHANGED <<rowsRead, records, ranked>>

----------------------------------------------------------------------------

Next == ReadRow \/ EndOfSheet \/ RankNext \/ Return

Spec == Init /\ [][Next]_vars

----------------------------------------------------------------------------
(* Properties                                                              *)

TypeOK ==
    /\ stage \in {"assemble", "rank", "done"}
    /\ rowsRead \in 0..MaxRows
    /\ records \in Seq(Record)
    /\ ranked \subseteq Keys

\* The revision rules of docs/business-rules/revision-rules.md, stated on the
\* REV cells: 0-999, then A-Y; anything else has no place in the sequence.
InSequence(c) ==
    \/ c.form = "number" /\ c.digits <= 3
    \/ c.form = "letter" /\ c.value # 25

Supersedes(c, d) ==
    \/ c.form = "letter" /\ d.form = "number"
    \/ c.form = d.form /\ c.value > d.value

Contender(i) ==
    InSequence(records[i].raw) /\ records[i].why # "withdrawn"

\* A row is the latest of its document exactly when it alone is the greatest
\* of the contenders: never an as-built, unparseable or withdrawn row,
\* never one of two that share the top revision, and never none although one
\* stands out (revision-rules.md, Latest determination and Ambiguity).
LatestStandsOut ==
    \A i \in Rows :
       /\ records[i].latest <=>
             /\ records[i].doc \in ranked
             /\ Contender(i)
             /\ \A j \in Group(records[i].doc) \ {i} :
                   Contender(j) => Supersedes(records[i].raw, records[j].raw)
       /\ records[i].latest <=> records[i].status = "LATEST"

\* The list of exceptions, the statuses and the reasons agree: a row that is
\* LATEST or OLD is on no list, one that is on it says why, and a decided
\* EXCEPTION says why even where it is not listed (revision-rules.md, Every
\* decision carries a reason).
ExceptionsExplained ==
    \A i \in Rows :
       /\ records[i].status \in {"LATEST", "OLD"} =>
             ~records[i].exception /\ records[i].why = ""
       /\ records[i].exception => records[i].why # ""
       /\ records[i].doc \in ranked /\ records[i].status = "EXCEPTION" =>
             records[i].why # ""

\* What was decided for a document stands: no later document touches it, and
\* no row is decided before the whole sheet was read.
DecisionsStand ==
    [][\A i \in Rows :
          records'[i] # records[i] =>
             /\ stage # "assemble"
             /\ records[i].doc \notin ranked]_vars

\* Where one segment of a document number ends and the next begins.
Breaks(n) ==
    {Len(Canonical(SubSeq(n, 1, i))) :
        i \in {j \in DOMAIN n : n[j] \in Separators}}
      \ {0, Len(Canonical(n))}

\* Two numbers with other segments are other documents ("we never drop or
\* invent number segments, because doing so would merge genuinely distinct
\* documents", normalisation.py): none supersedes a row of the other.
SegmentsKeepApart ==
    \A i \in Rows :
       records[i].status = "OLD" =>
          \E j \in Rows :
             /\ Canonical(records[j].number) = Canonical(records[i].number)
             /\ Breaks(records[j].number) = Breaks(records[i].number)
             /\ Supersedes(records[j].raw, records[i].raw)
=============================================================================
