----------------------------- MODULE ScopeChain -----------------------------
(***************************************************************************)
(* How the rules workbook turns a document into four cells: the keyword    *)
(* rules give its DOC TYPE (engine/classification), the DOC TYPE and the   *)
(* sheet it came from give DOC IS REQUIRED SOW (engine/sow), and that      *)
(* gives DOC IDB COMPLETED STATUS (engine/idb) and the cell written        *)
(* (services/automation_service.py).  The chain has no state; the modules  *)
(* that run it are ReferenceReports and, for what is stored,               *)
(* SubmissionWorkflow.                                                     *)
(*                                                                         *)
(* Every text is upper-cased with its whitespace collapsed.  A document    *)
(* number, title or keyword is a sequence of pieces, cut fine enough for   *)
(* containment to be equality of pieces; a SOW value is a sequence of      *)
(* components and the separators between them; a DOC TYPE is a string.     *)
(***************************************************************************)
EXTENDS Integers, Sequences, FiniteSets

CONSTANTS
    NoBook,         \* there is no rules workbook
    Digits          \* the pieces that are one digit

\* NULL_TOKENS: cells that mean "no value".
NullTokens == {"", "-", "--", "N/A", "NA", "#N/A", "NONE", "NIL"}

Sources == {"REQUIRED", "NOT_REQUIRED"}

----------------------------------------------------------------------------
(* Keywords                                                                *)

\* A run of two or more X in a document number keyword stands for digits.
Placeholder(seg, i) ==
    /\ seg[i] = "X"
    /\ \E j \in {i - 1, i + 1} \cap DOMAIN seg : seg[j] = "X"

OccursAt(seg, text, p, runs) ==
    /\ p + Len(seg) <= Len(text) + 1
    /\ \A i \in DOMAIN seg :
          IF runs /\ Placeholder(seg, i) THEN text[p + i - 1] \in Digits
                                         ELSE text[p + i - 1] = seg[i]

\* An alternative is the sequence of its segments between the asterisks:
\* they follow one another in the text, with anything between them.
Found(alt, text, runs) ==
    \E at \in [DOMAIN alt -> 1..(Len(text) + 1)] :
       \A k \in DOMAIN alt :
          /\ OccursAt(alt[k], text, at[k], runs)
          /\ k > 1 => at[k - 1] + Len(alt[k - 1]) <= at[k]

NotApplicable == {<< <<"KEYWORD NOT APPLICABLE">> >>}

\* parse_keyword: a cell is the set of its alternatives ("A or B"); one of
\* asterisks only is no pattern.
Patterns(cell) ==
    IF cell = NotApplicable THEN {}
    ELSE {alt \in cell : \E k \in DOMAIN alt : alt[k] # << >>}

----------------------------------------------------------------------------
(* The rules workbook: keyword sheets by source, and the DOCUMENT TYPE     *)
(* table                                                                   *)

KeywordRow == [row : Nat, number : SUBSET Seq(Seq(STRING)),
               title : SUBSET Seq(Seq(STRING)), type : STRING]
SowRow == [row : Nat, name : STRING, dokar : STRING, sow : Seq(STRING)]

\* A workbook has some of the keyword sheets, and the table unless that sheet
\* is missing; every row of a sheet is read once, with its number.
IsWorkbook(book) ==
    LET rowsApart(S) == \A r, q \in S : r.row = q.row => r = q
    IN  /\ book = [sheets |-> book.sheets, table |-> book.table,
                   tabled |-> book.tabled]
        /\ book.tabled \in BOOLEAN
        /\ ~book.tabled => book.table = {}
        /\ DOMAIN book.sheets \subseteq Sources
        /\ book.sheets \in [DOMAIN book.sheets -> SUBSET KeywordRow]
        /\ book.table \subseteq SowRow
        /\ \A s \in DOMAIN book.sheets : rowsApart(book.sheets[s])
        /\ rowsApart(book.table)

\* find_sheet: the exact name, else the first sheet whose name contains it,
\* and NOT REQUIRED-KEY DOC.WORDS contains REQUIRED-KEY DOC.WORDS.
SheetOf(book, source) ==
    IF source \in DOMAIN book.sheets THEN source ELSE "NOT_REQUIRED"

\* Otherwise a sheet is missing and reading ends in SheetNotFoundError.
KeywordsReadable(book) == "NOT_REQUIRED" \in DOMAIN book.sheets
TableReadable(book) == book.tabled

RuleRows(book) ==
    UNION {{[source |-> s, row |-> r.row, number |-> r.number,
             title |-> r.title, type |-> r.type] :
                r \in book.sheets[SheetOf(book, s)]} : s \in Sources}

RuleBook(book) ==
    {r \in RuleRows(book) :
        r.type # "" /\ Patterns(r.number) \cup Patterns(r.title) # {}}

\* Mutant: the sheets come in the order of their names.
BeforeByName(r, q) ==
    \/ r.source = "NOT_REQUIRED" /\ q.source = "REQUIRED"
    \/ r.source = q.source /\ r.row < q.row

\* Precedence: the required sheet, then the order of the rows.
Before(r, q) ==
    \/ r.source = "REQUIRED" /\ q.source = "NOT_REQUIRED"
    \/ r.source = q.source /\ r.row < q.row

Stated(text) == IF text \in {<<t>> : t \in NullTokens} THEN << >> ELSE text

Fires(rule, number, title) ==
    \/ /\ Stated(number) # << >>
       /\ \E alt \in Patterns(rule.number) : Found(alt, number, TRUE)
    \/ /\ Stated(title) # << >>
       /\ \E alt \in Patterns(rule.title) : Found(alt, title, FALSE)

Unclassified == [type |-> "", source |-> "", competing |-> {}]

Classify(book, number, title) ==
    LET firing == {r \in RuleBook(book) : Fires(r, number, title)}
        winner == CHOOSE r \in firing : \A q \in firing : ~Before(q, r)
    IN  IF firing = {} THEN Unclassified
        ELSE [type |-> winner.type, source |-> winner.source,
              competing |-> {r.type : r \in firing}]

----------------------------------------------------------------------------
(* DOC IS REQUIRED SOW                                                     *)

Label(text) == IF text \in NullTokens THEN "" ELSE text

SelfStating == {"OLD REV NOT SOW", "NOT SOW"}

\* SowRuleBook.lookup: the rules a label names, codes before type names, and
\* of those the first row.
TableRules(book, label) ==
    LET usable == {r \in book.table :
                      r.sow # << >> /\ (r.dokar # "" \/ r.name # "")}
        coded == {r \in usable : r.dokar # "" /\ r.dokar = label}
        named == {r \in usable : r.name # "" /\ r.name = label}
        found == IF coded # {} THEN coded ELSE named
    IN  {r \in found : \A q \in found : r.row <= q.row}

Requirement(sow, source) == [sow |-> sow, source |-> source]

\* Mutant: the sheet that decided the type is asked before the table.
ResolveBySheet(book, type, source) ==
    LET label == Label(type)
        rules == TableRules(book, label)
    IN  CASE label = "" -> Requirement(<< >>, "NO_DOC_TYPE")
          [] label # "" /\ source = "NOT_REQUIRED" ->
                Requirement(<<"NO">>, "NOT_REQUIRED_KEYWORDS")
          [] label # "" /\ source # "NOT_REQUIRED" /\ rules # {} ->
                Requirement((CHOOSE r \in rules : TRUE).sow,
                            "DOCUMENT_TYPE_TABLE")
          [] OTHER -> Requirement(<< >>, "UNMAPPED_DOC_TYPE")

\* SowResolver.resolve: the first of four statements about the type.
Resolve(book, type, source) ==
    LET label == Label(type)
        rules == TableRules(book, label)
    IN  CASE label = "" -> Requirement(<< >>, "NO_DOC_TYPE")
          [] label \in SelfStating ->
                Requirement(<<"NO">>, "NOT_SOW_VERDICT")
          [] label \notin SelfStating \cup {""} /\ rules # {} ->
                Requirement((CHOOSE r \in rules : TRUE).sow,
                            "DOCUMENT_TYPE_TABLE")
          [] label \notin SelfStating \cup {""} /\ rules = {}
                /\ source = "NOT_REQUIRED" ->
                Requirement(<<"NO">>, "NOT_REQUIRED_KEYWORDS")
          [] OTHER -> Requirement(<< >>, "UNMAPPED_DOC_TYPE")

----------------------------------------------------------------------------
(* DOC IDB COMPLETED STATUS and the row of answers                         *)

\* "YES-..." and the one "YEE-..." of the working sheet.
Opens(sow) == sow # << >> /\ sow[1] \in {"YES", "YEE"}

ScopeOf(sow) ==
    CASE sow = <<"NO">> -> "out"
      [] Opens(sow) -> "in"
      [] OTHER -> "unknown"

\* No completion source exists, so an outcome is never recorded.
IdbStatus(sow) ==
    CASE ScopeOf(sow) = "out" ->
            [status |-> "NO NEED TO CHECK", source |-> "SOW_NOT_REQUIRED"]
      [] ScopeOf(sow) = "in" ->
            [status |-> "TO BE CHECK", source |-> "NO_COMPLETION_SOURCE"]
      [] ScopeOf(sow) = "unknown" ->
            [status |-> "UNMAPPED",
             source |-> IF sow = << >> THEN "UNRESOLVED_SOW"
                                       ELSE "SOW_NOT_A_VERDICT"]

\* Mutant: whatever calls for a person is left blank.
IdbCellOpen(status) ==
    IF status.source # "SOW_NOT_REQUIRED" THEN "" ELSE status.status

\* A check that is due is left blank: a person has to go and look.
IdbCell(status) ==
    IF status.source = "NO_COMPLETION_SOURCE" THEN "" ELSE status.status

\* build_automation_rows for one document; without a rules workbook nothing
\* is classified and nothing resolved.
AutomationRow(book, number, title) ==
    LET verdict == IF book = NoBook THEN Unclassified
                                    ELSE Classify(book, number, title)
        required == IF book = NoBook THEN Requirement(<< >>, "")
                    ELSE Resolve(book, verdict.type, verdict.source)
        status == IdbStatus(required.sow)
    IN  [number |-> number, title |-> title, type |-> verdict.type,
         sow |-> required.sow, sowSource |-> required.source,
         idb |-> IdbCell(status), idbSource |-> status.source]

\* AutomationRun.summary: the counts over the answers, a sequence.
Summary(answers) ==
    LET rows == DOMAIN answers
    IN  [rows |-> Len(answers),
         typed |-> Cardinality({i \in rows : answers[i].type # ""}),
         unresolved |-> Cardinality({i \in rows : answers[i].sow = << >>}),
         unmapped |-> Cardinality({i \in rows : answers[i].idb = "UNMAPPED"}),
         manual |-> Cardinality({i \in rows :
                       /\ answers[i].idb = ""
                       /\ answers[i].idbSource = "NO_COMPLETION_SOURCE"}),
         written |-> Cardinality({i \in rows : answers[i].idb # ""})]

----------------------------------------------------------------------------
(* What the rules workbook states of a document, without the chain         *)

Covering(book, number, title) ==
    {r \in RuleBook(book) : Fires(r, number, title)}

InTable(book, type) == TableRules(book, Label(type)) # {}

\* Out of scope is stated: by the type itself, by the table, or - where the
\* table is silent - by the not-required sheet alone covering the document.
StatedOut(book, number, title) ==
    \E r \in Covering(book, number, title) :
       \/ Label(r.type) \in SelfStating
       \/ \E q \in TableRules(book, Label(r.type)) : q.sow = <<"NO">>
       \/ /\ ~InTable(book, r.type)
          /\ \A q \in Covering(book, number, title) :
                q.source = "NOT_REQUIRED"

\* In scope is stated by the table only.
StatedIn(book, number, title) ==
    \E r \in Covering(book, number, title) :
       \E q \in TableRules(book, Label(r.type)) : Opens(q.sow)

\* What is left of a workbook without its not-required keywords.
RequiredOnly(book) == [book EXCEPT !.sheets["NOT_REQUIRED"] = {}]
=============================================================================
