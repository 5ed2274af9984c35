-------------------------- MODULE ReferenceReports --------------------------
(***************************************************************************)
(* One run of the engine and of the reports that grade it against columns  *)
(* a person filled in: scripts/validate_phase.py with the comparisons of   *)
(* engine/validation, and the automation run of                            *)
(* services/automation_service.py.  The phase 1 report is a gate, the      *)
(* other three describe.  Phase 1 is the pipeline of LatestRevision and    *)
(* VendorMatching, the others apply ScopeChain row by row.                 *)
(***************************************************************************)
EXTENDS VendorMatching, ScopeChain

CONSTANTS
    Commands,       \* bound: the commands that are run, of AllCommands
    Books,          \* rules workbooks a run can find, NoBook among them
    ReferenceRows,  \* by command, the rows the working sheet can have
    GradedCells,    \* bound: REV cells of the sheets graded in phase 1
    MaxReferenceRows,   \* bound: rows of the working sheet
    MaxRecorded,    \* examples kept by the reports of phases 1, 2A and 2B
    MaxPerCause     \* examples kept of each cause by the report of phase 2C

AllCommands == {"latest", "docType", "sow", "idb", "automate"}

ASSUME ReportAssumption ==
    /\ Commands \subseteq AllCommands
    /\ \A b \in Books \ {NoBook} : IsWorkbook(b) /\ RequiredOnly(b) # NoBook
    /\ MaxReferenceRows \in Nat
    /\ MaxRecorded \in Nat \ {0}
    /\ MaxPerCause \in Nat \ {0}

VARIABLES
    command,        \* --phase, or the automation run
    book,           \* the rules workbook
    exit,           \* "running", then the exit code
    flags,          \* phase 1: LATEST/ NOT LATEST of every record
    report,         \* the report so far
    answers         \* AutomationRun.rows

reportVars == <<command, book, exit, flags, report, answers>>
allVars == <<stage, rowsRead, records, ranked, vendors, command, book, exit,
             flags, report, answers>>

Causes == {"STALE_HIGHER_REVISION_UNPROCESSED", "STALE_DUPLICATE_LATEST_FLAG",
           "WORKBOOK_MARKS_GROUP_INACTIVE", "GENUINE_CONFLICT",
           "REFERENCE_BLANK", "REFERENCE_NOT_A_DOC_TYPE", "NO_RULE_MATCHED",
           "COMPETING_RULES", "RULE_DISAGREES_WITH_REFERENCE",
           "REFERENCE_NOT_A_SOW_VALUE", "DOC_TYPE_ABSENT",
           "DOC_TYPE_NOT_IN_SOW_TABLE", "RULE_STATES_HIERARCHY",
           "REFERENCE_SPELLING_VARIANT", "REFERENCE_OVERRIDES_TO_NO",
           "REFERENCE_NOT_AN_IDB_VALUE", "UPSTREAM_SOW_UNRESOLVED",
           "COMPLETION_EVIDENCE_NOT_AVAILABLE",
           "REFERENCE_VALUE_NOT_GENERATABLE", "UPSTREAM_SOW_OVERRIDDEN"}

\* OUT_OF_SCOPE_CAUSES of the three reports: there is nothing to grade.
OutOfScope == {"REFERENCE_BLANK", "REFERENCE_NOT_A_DOC_TYPE",
               "REFERENCE_NOT_A_SOW_VALUE", "DOC_TYPE_ABSENT",
               "DOC_TYPE_NOT_IN_SOW_TABLE", "REFERENCE_NOT_AN_IDB_VALUE",
               "UPSTREAM_SOW_UNRESOLVED"}

EmptyReport ==
    [evaluated |-> 0,       \* rows that were compared
     accountable |-> 0,     \* those both sides have a value for
     exact |-> 0,           \* those with the same value
     due |-> 0,             \* 2C: agreements about whether a check is due
     causes |-> [c \in Causes |-> 0],   \* the other rows, by cause
     listed |-> << >>]      \* examples

\* Phase 1 classifies with the default rules workbook and grades nothing that
\* comes of it: one that can be read is as good as none.
PhaseOneBooks == {b \in Books \ {NoBook} : ~KeywordsReadable(b)}

ReportInit ==
    /\ VendorInit
    /\ command \in Commands
    /\ book \in IF command = "latest" THEN {NoBook} \cup PhaseOneBooks
                                      ELSE Books
    /\ exit = "running"
    /\ flags = << >>
    /\ report = EmptyReport
    /\ answers = << >>

----------------------------------------------------------------------------
(* Which rules a command reads                                             *)

Readable ==
    /\ command \in {"latest", "docType", "automate"} => KeywordsReadable(book)
    /\ command \in {"sow", "idb", "automate"} => TableReadable(book)

----------------------------------------------------------------------------
(* Phase 1: the pipeline, then validate_latest                             *)

RunPipeline ==
    /\ command = "latest"
    /\ exit = "running"
    /\ book # NoBook => Readable
    /\ VendorNext
    /\ UNCHANGED reportVars

\* The rows that have a decision to grade and a flag to grade it against.
Compared(fs) == {i \in Rows : /\ records[i].status \in {"LATEST", "OLD"}
                              /\ fs[i] \in {"L", "NL"}}

Disagreeing(fs) ==
    {i \in Compared(fs) : (records[i].status = "LATEST") # (fs[i] = "L")}

CauseOf(i, fs) ==
    LET group == Group(records[i].doc)
        higher == {j \in group : Higher(j, i)}
        labelledL == {j \in group : fs[j] = "L"}
    IN  CASE /\ fs[i] = "L"
             /\ higher # {}
             /\ \A j \in higher : fs[j] \notin {"L", "NL"} ->
                "STALE_HIGHER_REVISION_UNPROCESSED"
          [] /\ fs[i] = "L"
             /\ \/ higher = {}
                \/ \E j \in higher : fs[j] \in {"L", "NL"}
             /\ labelledL # {i} ->
                "STALE_DUPLICATE_LATEST_FLAG"
          [] fs[i] = "NL" /\ labelledL = {} ->
                "WORKBOOK_MARKS_GROUP_INACTIVE"
          [] OTHER -> "GENUINE_CONFLICT"

\* The first MaxRecorded of the rows S.
Recorded(S) == {i \in S : Cardinality({j \in S : j < i}) < MaxRecorded}

\* The workbook's own column is read with the rows and used only here.
ValidateLatest ==
    /\ command = "latest"
    /\ exit = "running"
    /\ vendors.built
    /\ \A i \in Rows : records[i].raw \in GradedCells
    /\ \E fs \in [Rows -> {"L", "NL", ""}] :
          LET wrong == Disagreeing(fs)
              kept == SelectSeq([i \in Rows |-> i],
                                LAMBDA i : i \in Recorded(wrong))
              listed == [k \in DOMAIN kept |-> CauseOf(kept[k], fs)]
          IN  /\ flags' = fs
              /\ report' =
                    [report EXCEPT
                        !.evaluated = Cardinality(Compared(fs)),
                        !.accountable = Cardinality(Compared(fs)),
                        !.exact = Cardinality(Compared(fs) \ wrong),
                        !.causes = [c \in Causes |->
                            Cardinality({i \in wrong : CauseOf(i, fs) = c})],
                        !.listed = listed]
              /\ exit' = IF \E k \in DOMAIN listed :
                               listed[k] = "GENUINE_CONFLICT"
                         THEN "1" ELSE "0"
    /\ UNCHANGED <<command, book, answers>>
    /\ UNCHANGED vendorVars

----------------------------------------------------------------------------
(* Counting a row                                                          *)

\* Mutant: the examples of all causes share one cap.
ListPerCauseFlat(example) ==
    IF Len(report.listed) < MaxPerCause
    THEN Append(report.listed, example) ELSE report.listed

\* 2C: the examples of a cause are capped apart from the others, by the number
\* of its rows so far.
ListPerCause(example) ==
    IF report.causes[example.cause] < MaxPerCause
    THEN Append(report.listed, example) ELSE report.listed

\* 2A and 2B: one cap for all of them.
ListFlat(example) ==
    IF Len(report.listed) < MaxRecorded
    THEN Append(report.listed, example) ELSE report.listed

\* Mutant: the match of the row before is counted again.
MatchedAgain == [report EXCEPT !.evaluated = @ + 1, !.accountable = @ + 1,
                               !.exact = 2 * @ + 1]

Matched == [report EXCEPT !.evaluated = @ + 1, !.accountable = @ + 1,
                          !.exact = @ + 1]

\* Mutant: a row that is not listed any more is not counted either.
DiffersListed(cause, listed) ==
    LET counted == cause \in OutOfScope \/ listed # report.listed
    IN  [report EXCEPT !.evaluated = @ + 1,
                       !.accountable = IF cause \in OutOfScope THEN @ ELSE @ + 1,
                       !.causes[cause] = IF counted THEN @ + 1 ELSE @,
                       !.listed = IF cause \in OutOfScope THEN @ ELSE listed]

\* A row that does not match, with the examples listed after it.
Differs(cause, listed) ==
    [report EXCEPT !.evaluated = @ + 1,
                   !.accountable = IF cause \in OutOfScope THEN @ ELSE @ + 1,
                   !.causes[cause] = @ + 1,
                   !.listed = IF cause \in OutOfScope THEN @ ELSE listed]

Example(cause, row, calculated) ==
    [cause |-> cause, row |-> row, calculated |-> calculated]

----------------------------------------------------------------------------
(* Phase 2A: compare_doc_types                                             *)

NotATypeVerdicts == {"OLD REV NOT SOW", "NOT SOW", "OTHER", "NO"}

CompareDocType(row) ==
    LET verdict == Classify(book, row.number, row.title)
        cause == CASE row.type = "" -> "REFERENCE_BLANK"
                   [] row.type \in NotATypeVerdicts ->
                         "REFERENCE_NOT_A_DOC_TYPE"
                   [] row.type \notin NotATypeVerdicts \cup {""}
                         /\ verdict.type = "" -> "NO_RULE_MATCHED"
                   [] row.type \notin NotATypeVerdicts \cup {""}
                         /\ verdict.type # ""
                         /\ row.type \in verdict.competing ->
                         "COMPETING_RULES"
                   [] OTHER -> "RULE_DISAGREES_WITH_REFERENCE"
    IN  IF row.type \notin NotATypeVerdicts \cup {""} /\ verdict.type = row.type
        THEN Matched
        ELSE Differs(cause, ListFlat(Example(cause, row, verdict.type)))

----------------------------------------------------------------------------
(* Phase 2B: compare_sow                                                   *)

Separates == {"-", "/"}

\* The components of a SOW value, whatever their order and spelling.
CanonicalSow(sow) ==
    LET typos == [c \in {"MLT", "MT"} |-> "MTL"]
        spelled(c) == IF c \in DOMAIN typos THEN typos[c] ELSE c
        parts == {spelled(sow[i]) : i \in 2..Len(sow)} \ (Separates \cup {" "})
    IN  IF Opens(sow) /\ Len(sow) > 1
        THEN [text |-> <<"YES", "-">>, parts |-> parts]
        ELSE [text |-> IF Opens(sow) THEN <<"YES">> ELSE sow, parts |-> {}]

\* The rule without its HIERARCHY components: each goes with the separator
\* before it, and one that opens the text with the separator behind it.
WithoutHierarchy(sow) ==
    LET gone == {i \in 2..Len(sow) :
                    \/ /\ i = 2 /\ sow[1] = "HIERARCHY" /\ sow[2] \in Separates
                    \/ /\ sow[i] = "HIERARCHY" /\ sow[i - 1] \in Separates
                       /\ ~(i = 3 /\ sow[1] = "HIERARCHY")
                       /\ i < Len(sow) => sow[i + 1] \in Separates}
        kept == {i \in DOMAIN sow : i \notin gone /\ i + 1 \notin gone}
        place(i) == Cardinality({j \in kept : j <= i})
    IN  [k \in {place(i) : i \in kept} |-> sow[CHOOSE i \in kept : place(i) = k]]

SowCause(reference, required) ==
    LET bare == WithoutHierarchy(required.sow)
        hierarchy == /\ required.source # "NOT_SOW_VERDICT"
                     /\ bare # required.sow
                     /\ reference = bare
        spelling == CanonicalSow(reference) = CanonicalSow(required.sow)
    IN  CASE hierarchy -> "RULE_STATES_HIERARCHY"
          [] ~hierarchy /\ reference = <<"NO">> ->
                "REFERENCE_OVERRIDES_TO_NO"
          [] ~hierarchy /\ reference # <<"NO">> /\ spelling ->
                "REFERENCE_SPELLING_VARIANT"
          [] OTHER -> "RULE_DISAGREES_WITH_REFERENCE"

\* The type is the reference's own, and no sheet has classified it.
CompareSow(row) ==
    LET required == Resolve(book, row.type, "")
        verdict == row.sow = <<"NO">> \/ Opens(row.sow)
        cause == CASE row.sow = << >> -> "REFERENCE_BLANK"
                   [] row.sow # << >> /\ ~verdict -> "REFERENCE_NOT_A_SOW_VALUE"
                   [] verdict /\ row.type = "" -> "DOC_TYPE_ABSENT"
                   [] verdict /\ required.source = "UNMAPPED_DOC_TYPE" ->
                         "DOC_TYPE_NOT_IN_SOW_TABLE"
                   [] OTHER -> SowCause(row.sow, required)
    IN  IF cause \notin OutOfScope /\ required.sow = row.sow
        THEN Matched
        ELSE Differs(cause, ListFlat(Example(cause, row, required.sow)))

----------------------------------------------------------------------------
(* Phase 2C: compare_idb                                                   *)

NotGeneratable == {"GENERAL SPECIFICATION", "REFERENCE", "TAG NOT IN FMTL"}
RecordedOutcomes == {"COMPLETED", "COMPLETED (REV UPDATED)", "PENDING",
                     "CANCELLED"}
Variants == {"COMPLETE", "REF"}

IsIdbStatus(value) ==
    value \in NotGeneratable \cup RecordedOutcomes \cup Variants
              \cup {"TO BE CHECK", "NO NEED TO CHECK"}

RequiresCheck(value) == value # "NO NEED TO CHECK"

\* Mutant: the scope column of the reference is not consulted.
IdbCauseAlone(row, calculated) ==
    CASE row.idb \in Variants -> "REFERENCE_SPELLING_VARIANT"
      [] row.idb \in NotGeneratable -> "REFERENCE_VALUE_NOT_GENERATABLE"
      [] calculated = "TO BE CHECK" -> "COMPLETION_EVIDENCE_NOT_AVAILABLE"
      [] OTHER -> "RULE_DISAGREES_WITH_REFERENCE"

IdbCause(row, calculated) ==
    CASE row.idb \in Variants -> "REFERENCE_SPELLING_VARIANT"
      [] row.idb \in NotGeneratable -> "REFERENCE_VALUE_NOT_GENERATABLE"
      [] calculated = "TO BE CHECK" /\ row.idb \in RecordedOutcomes ->
            "COMPLETION_EVIDENCE_NOT_AVAILABLE"
      [] calculated = "TO BE CHECK" /\ row.idb = "NO NEED TO CHECK"
            /\ row.sow = <<"NO">> -> "UPSTREAM_SOW_OVERRIDDEN"
      [] OTHER -> "RULE_DISAGREES_WITH_REFERENCE"

CompareIdb(row) ==
    LET calculated == IdbStatus(Resolve(book, row.type, "").sow).status
        cause == CASE row.idb = "" -> "REFERENCE_BLANK"
                   [] row.idb # "" /\ ~IsIdbStatus(row.idb) ->
                         "REFERENCE_NOT_AN_IDB_VALUE"
                   [] IsIdbStatus(row.idb) /\ calculated = "UNMAPPED" ->
                         "UPSTREAM_SOW_UNRESOLVED"
                   [] OTHER -> IdbCause(row, calculated)
        counted == IF cause \notin OutOfScope /\ calculated = row.idb
                   THEN Matched
                   ELSE Differs(cause,
                                ListPerCause(Example(cause, row, calculated)))
        agreed == /\ cause \notin OutOfScope
                  /\ RequiresCheck(calculated) = RequiresCheck(row.idb)
    IN  [counted EXCEPT !.due = IF agreed THEN @ + 1 ELSE @]

----------------------------------------------------------------------------
(* The commands                                                            *)

\* A missing workbook ends with 2, the one that is graded or the reference
\* as well; SheetNotFoundError is not caught and ends the interpreter with 1.
CannotStart ==
    /\ exit = "running"
    /\ stage = "assemble" /\ rowsRead = 0
    /\ report = EmptyReport /\ answers = << >>
    /\ \/ command # "automate" /\ exit' = "2"
       \/ book # NoBook /\ ~Readable /\ exit' = "1"
    /\ UNCHANGED <<command, book, flags, report, answers>>
    /\ UNCHANGED vendorVars

CompareRow ==
    /\ command \in {"docType", "sow", "idb"}
    /\ exit = "running"
    /\ book # NoBook /\ Readable
    /\ report.evaluated < MaxReferenceRows
    /\ \E row \in ReferenceRows[command] :
          report' = CASE command = "docType" -> CompareDocType(row)
                      [] command = "sow" -> CompareSow(row)
                      [] command = "idb" -> CompareIdb(row)
    /\ UNCHANGED <<command, book, exit, flags, answers>>
    /\ UNCHANGED vendorVars

\* The sheet may end after any row; these reports do not gate.
PrintReport ==
    /\ command \in {"docType", "sow", "idb"}
    /\ exit = "running"
    /\ book # NoBook /\ Readable
    /\ exit' = "0"
    /\ UNCHANGED <<command, book, flags, report, answers>>
    /\ UNCHANGED vendorVars

\* An automation run goes on without a rules workbook.
AutomateRow ==
    /\ command = "automate"
    /\ exit = "running"
    /\ book # NoBook => Readable
    /\ Len(answers) < MaxReferenceRows
    /\ \E row \in ReferenceRows["automate"] :
          answers' = Append(answers, AutomationRow(book, row.number, row.title))
    /\ UNCHANGED <<command, book, exit, flags, report>>
    /\ UNCHANGED vendorVars

ReportNext ==
    \/ RunPipeline \/ ValidateLatest
    \/ CannotStart \/ CompareRow \/ PrintReport
    \/ AutomateRow

ReportSpec == ReportInit /\ [][ReportNext]_allVars

----------------------------------------------------------------------------
(* Properties                                                              *)

ReportTypeOK ==
    /\ TypeOK
    /\ command \in Commands
    /\ book \in Books \cup {NoBook}
    /\ exit \in {"running", "0", "1", "2"}
    /\ flags # << >> => flags \in [Rows -> {"L", "NL", ""}]
    /\ report.evaluated \in 0..(MaxRows + MaxReferenceRows)
    /\ {report.accountable, report.exact, report.due} \subseteq 0..report.evaluated
    /\ report.causes \in [Causes -> 0..report.evaluated]
    /\ Len(answers) \in 0..MaxReferenceRows
    /\ vendors.built \in BOOLEAN

\* The rows with one of the causes S: a pair for each of them.
Counted(S) == Cardinality(UNION {{c} \X (1..report.causes[c]) : c \in S})

\* What the automation writes, the rules workbook states.  NO NEED TO CHECK:
\* out of scope is stated.  Blank, "a person has to check": the table states
\* the type in scope.  UNMAPPED: no keyword covers the document, or one does
\* whose type is stated nowhere - as long as the workbook has both keyword
\* sheets.  Without a workbook everything is UNMAPPED (automation_service.py:
\* rather than a crash or a fabricated NO).
ScopeNeverGuessed ==
    \A i \in DOMAIN answers :
       LET a == answers[i]
           covering == Covering(book, a.number, a.title)
       IN  /\ a.idb = "NO NEED TO CHECK" =>
                book # NoBook /\ StatedOut(book, a.number, a.title)
           /\ a.idb = "" => book # NoBook /\ StatedIn(book, a.number, a.title)
           /\ (/\ a.idb = "UNMAPPED"
               /\ book # NoBook
               /\ Sources \subseteq DOMAIN book.sheets
               /\ covering # {}) =>
                   \E r \in covering :
                      /\ Label(r.type) \notin SelfStating
                      /\ \A q \in TableRules(book, Label(r.type)) :
                            ScopeOf(q.sow) = "unknown"
                      /\ r.source = "REQUIRED" \/ InTable(book, r.type)
                           \/ Label(r.type) = ""

\* A document that a keyword of the required sheet covers gets the answers it
\* would get if the not-required sheet were empty: no keyword added there can
\* take a document out of scope (rules.py, Precedence).
RequiredSheetDecides ==
    \A i \in DOMAIN answers :
       LET a == answers[i]
       IN  (/\ book # NoBook
            /\ "REQUIRED" \in DOMAIN book.sheets
            /\ \E r \in Covering(book, a.number, a.title) :
                  r.source = "REQUIRED")
           => a = AutomationRow(RequiredOnly(book), a.number, a.title)

\* What an operator reads from the counts of a run: a blank cell is a check
\* somebody has to make and never a rule gap, and a row without DOC IS
\* REQUIRED SOW is among the gaps (automation_service.py, idb_cell and
\* summary).
BlanksAreManual ==
    LET counts == Summary(answers)
    IN  /\ counts.written + counts.manual = counts.rows
        /\ counts.unresolved <= counts.unmapped
        /\ counts.unmapped + counts.manual <= counts.rows
        /\ book = NoBook => counts.unmapped = counts.rows

\* No row is lost between the counts of a report: what was evaluated matched
\* or has a cause, what was accountable matched or has a cause that can be
\* graded, also when the examples are full.  In phase 2C an exact match
\* agrees about the check, and what disagrees about it has one of four causes.
CausesAccountForAll ==
    /\ report.evaluated = report.exact + Counted(Causes)
    /\ report.accountable = report.exact + Counted(Causes \ OutOfScope)
    /\ command = "idb" =>
          /\ report.exact <= report.due
          /\ report.accountable - report.due <=
                Counted({"RULE_DISAGREES_WITH_REFERENCE",
                         "UPSTREAM_SOW_OVERRIDDEN",
                         "REFERENCE_SPELLING_VARIANT",
                         "REFERENCE_VALUE_NOT_GENERATABLE"})

\* However many rows of one cause come first, each cause of phase 2C that
\* can be graded has an example to look at (idb.py, compare_idb).
EveryCauseHasExample ==
    command = "idb" =>
       \A c \in Causes \ OutOfScope :
          report.causes[c] > 0 =>
             \E k \in DOMAIN report.listed : report.listed[k].cause = c

\* 2A: a gap in the rules is a document no keyword covers, precedence is
\* blamed if a keyword for the reference's type was beaten, and the rules if
\* keywords cover the document and none is for the reference's type.
TypeBlameEarned(e) ==
    LET covering == Covering(book, e.row.number, e.row.title)
        named == {r \in covering : r.type = e.row.type}
    IN  /\ e.cause = "NO_RULE_MATCHED" => covering = {}
        /\ e.cause = "COMPETING_RULES" =>
              \E r \in named, q \in covering : Before(q, r) /\ q.type # r.type
        /\ e.cause = "RULE_DISAGREES_WITH_REFERENCE" =>
              covering # {} /\ named = {}

\* 2B: HIERARCHY is the one component the reference may miss; a spelling
\* variant has all components and the same scope; a reference that overrides
\* to NO overrides a rule in scope, or no type, or a rule that states no scope;
\* and the rules are blamed over two values with different components, or a
\* bare YES, or no type.
SowBlameEarned(e) ==
    LET parts(sow) == CanonicalSow(sow).parts
        pieces(sow) == {sow[i] : i \in DOMAIN sow} \ Separates
    IN  /\ e.cause = "RULE_STATES_HIERARCHY" =>
              /\ "HIERARCHY" \in pieces(e.calculated)
              /\ pieces(e.row.sow) \ {"HIERARCHY"}
                    = pieces(e.calculated) \ {"HIERARCHY"}
        /\ e.cause = "REFERENCE_SPELLING_VARIANT" =>
              /\ parts(e.row.sow) = parts(e.calculated)
              /\ ScopeOf(e.row.sow) = ScopeOf(e.calculated)
        /\ e.cause = "REFERENCE_OVERRIDES_TO_NO" =>
              \/ ScopeOf(e.calculated) = "in"
              \/ e.row.type \in NullTokens
              \/ \E q \in TableRules(book, Label(e.row.type)) :
                    ScopeOf(q.sow) = "unknown"
        /\ e.cause = "RULE_DISAGREES_WITH_REFERENCE" =>
              \/ e.row.type \in NullTokens
              \/ /\ e.calculated # << >>
                 /\ \/ parts(e.row.sow) # parts(e.calculated)
                    \/ parts(e.row.sow) = {}

\* 2C: a missing completion source explains a check that is due on both sides,
\* an override is one in 2B as well, of a rule in scope, and the rules are
\* blamed if only one side has a check due.  A spelling variant or a value
\* nobody could generate says nothing about whether a check is due.
IdbBlameEarned(e) ==
    LET required == Resolve(book, e.row.type, "")
    IN  /\ e.cause = "COMPLETION_EVIDENCE_NOT_AVAILABLE" =>
              RequiresCheck(e.row.idb) /\ RequiresCheck(e.calculated)
        /\ e.cause = "UPSTREAM_SOW_OVERRIDDEN" =>
              /\ ScopeOf(required.sow) = "in"
              /\ SowCause(e.row.sow, required) = "REFERENCE_OVERRIDES_TO_NO"
        /\ e.cause = "RULE_DISAGREES_WITH_REFERENCE" =>
              RequiresCheck(e.row.idb) # RequiresCheck(e.calculated)

\* What can be relied on when an example is listed under a cause.  It is less
\* than the comments on Cause say in three places: sow.py:65 promises a rule in
\* scope, but a placeholder as the type or a rule like CANCELLED will do;
\* sow.py:68 promises two values with different components, but a placeholder
\* or a bare YES will do; and a row whose sides disagree about the check is
\* listed as a spelling variant or as not generatable, although idb.py:84 makes
\* the disagreement a cause of its own.
BlameIsEarned ==
    \A k \in IF command = "latest" THEN {} ELSE DOMAIN report.listed :
       LET e == report.listed[k]
       IN  CASE command = "docType" -> TypeBlameEarned(e)
             [] command = "sow" -> SowBlameEarned(e)
             [] OTHER -> IdbBlameEarned(e)

\* The gate passes only if no row is a genuine conflict (validate_phase.py:
\* "Fails (exit 1) on a genuine conflict, which is what makes it a gate").
GateCatchesConflict ==
    command = "latest" /\ exit = "0" =>
       \A i \in Disagreeing(flags) : CauseOf(i, flags) # "GENUINE_CONFLICT"
=============================================================================
