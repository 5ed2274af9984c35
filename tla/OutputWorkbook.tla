--------------------------- MODULE OutputWorkbook ---------------------------
(***************************************************************************)
(* infrastructure/excel/output_workbook.py: the copy of the employee's     *)
(* workbook that a download hands out, with the sheets "QatarEnergy-TN     *)
(* Automated" and "Latest Revisions" added.                                *)
(*                                                                         *)
(* write() is one pass over a workbook in memory; each step below is one   *)
(* of the methods it calls, in its order.  openpyxl moves the cells of a   *)
(* sheet when columns are inserted and nothing else, so merged ranges,     *)
(* formats, filter, pane and widths are moved by hand.  The file that was  *)
(* written may itself be uploaded again (Rerun).                           *)
(*                                                                         *)
(* A sheet is a grid of texts and styles with ranges on it.  A text is a   *)
(* caption, a data cell named by the place it had in the upload, or an     *)
(* answer of the automation named by its row.                              *)
(***************************************************************************)
EXTENDS Integers, FiniteSets, Sequences

CONSTANTS
    AUTOMATION_COLUMNS,     \* the automation captions, in their order
    CHECK_STATUS,           \* the one no engine feeds
    INSERT_BEFORE,          \* spellings of the anchor caption, in order
    QE_SHEET,               \* names of the source sheet, in order
    Contains,               \* <<name, part>>: a sheet name contains another
    QE_EXPECTED,            \* captions that tell the header row
    AUTOMATED_SHEET,        \* names of the two added sheets
    LATEST_REVISIONS_SHEET,
    Uploads,                \* the workbooks an employee can upload
    Filled,                 \* which captions of a row get a value
    MaxRuns                 \* bound: times the output is uploaded again

Captions == {AUTOMATION_COLUMNS[i] : i \in DOMAIN AUTOMATION_COLUMNS}

VARIABLES
    step,           \* the method that runs next
    upload,         \* the stored workbook, a sequence of sheets
    answers,        \* by_row: what is written into which rows
    latest,         \* the source rows marked as latest revisions
    book,           \* the workbook in memory
    header,         \* header_row
    columns,        \* caption -> column of the automated sheet
    reused,         \* captions the sheet already had
    at,             \* where columns were inserted ...
    count,          \* ... and how many
    written,        \* rows_written
    saved,          \* the workbook at the destination, <<>> before
    runs            \* how many workbooks were written

placement == <<header, columns, reused, at, count>>
given     == <<upload, answers, latest>>
vars      == <<step, given, book, placement, written, saved, runs>>

----------------------------------------------------------------------------
(* Sheets.                                                                 *)

Text(s, r, c) == [text |-> s, row |-> r, col |-> c]
Caption(s) == Text(s, 0, 0)
Empty == Caption("")
Answer(caption, r) == Text(caption, r, 0)

Ranges == [c1 : Nat, c2 : Nat, r1 : Nat, r2 : Nat]
NoRange == [c1 |-> 0, c2 |-> 0, r1 |-> 0, r2 |-> 0]
Covers(g, r, c) == g.r1 <= r /\ r <= g.r2 /\ g.c1 <= c /\ c <= g.c2

\* The widths of the file have names; a new column has a width of its own.
Widths == STRING \cup {"ours"}

Grid(rows, cols) == (1..rows) \X (1..cols)

IsSheet(s) ==
    /\ s = [name |-> s.name, rows |-> s.rows, cols |-> s.cols,
            cell |-> s.cell, style |-> s.style, merges |-> s.merges,
            formats |-> s.formats, filter |-> s.filter, pane |-> s.pane,
            dims |-> s.dims]
    /\ {s.rows, s.cols, s.pane} \subseteq Nat
    /\ s.cell = [p \in Grid(s.rows, s.cols) |-> s.cell[p]]
    /\ s.style = [p \in Grid(s.rows, s.cols) |-> s.style[p]]
    /\ s.merges \cup s.formats \cup {s.filter} \subseteq Ranges
    /\ s.dims \subseteq [min : Nat, max : Nat, width : Widths]

\* An entry of column_dimensions is kept under its first column.
KeyedByColumn(s) == \A d, e \in s.dims : d.min = e.min => d = e

\* The first, the last and the nth element of a set of numbers.
First(S) == CHOOSE n \in S : \A k \in S : n <= k
Last(S) == CHOOSE n \in S : \A k \in S : k <= n
Nth(S, n) == CHOOSE q \in S : Cardinality({k \in S : k <= q}) = n

Width(s, c) ==
    LET D == {d \in s.dims : d.min <= c /\ c <= d.max}
    IN IF D = {} THEN "default" ELSE (CHOOSE d \in D : TRUE).width

Named(b, name) == {i \in DOMAIN b : b[i].name = name}

\* The sheets with other names, in their order.
Without(b, name) ==
    LET others == DOMAIN b \ Named(b, name)
    IN [n \in 1..Cardinality(others) |-> b[Nth(others, n)]]

\* find_sheet: any candidate exactly, then the first sheet containing one.
FindSheet(b) ==
    LET exact == {k \in DOMAIN QE_SHEET : Named(b, QE_SHEET[k]) # {}}
        within(k) == {i \in DOMAIN b : <<b[i].name, QE_SHEET[k]>> \in Contains}
        partly == {k \in DOMAIN QE_SHEET : within(k) # {}}
    IN IF exact # {} THEN Last(Named(b, QE_SHEET[First(exact)]))
                     ELSE First(within(First(partly)))

\* detect_header_row: the first row with the most expected captions, among
\* the top 15.
DetectHeaderRow(s) ==
    LET scanned == 1..s.rows \cap 1..15
        score(r) ==
            Cardinality({e \in QE_EXPECTED :
                            \E c \in 1..s.cols : s.cell[<<r, c>>] = Caption(e)})
    IN First({r \in scanned : \A q \in scanned : score(q) <= score(r)})

Having(s, caption) ==
    {c \in 1..s.cols : s.cell[<<header, c>>] = Caption(caption)}

Chosen(b) == b[FindSheet(b)]

\* A workbook that was extracted: a sheet can be found and has a header row.
\* The sheet is the employee's, not one that an earlier run added.
IsUpload(b) ==
    /\ b \in Seq({b[i] : i \in DOMAIN b})
    /\ \A i \in DOMAIN b : IsSheet(b[i]) /\ KeyedByColumn(b[i])
    /\ \E i \in DOMAIN b, k \in DOMAIN QE_SHEET :
          b[i].name = QE_SHEET[k] \/ <<b[i].name, QE_SHEET[k]>> \in Contains
    /\ Chosen(b).rows > 0
    /\ Chosen(b).name \notin {AUTOMATED_SHEET, LATEST_REVISIONS_SHEET}

ASSUME OutputAssumption ==
    /\ AUTOMATION_COLUMNS \in Seq(STRING)
    /\ \A i, j \in DOMAIN AUTOMATION_COLUMNS :
          AUTOMATION_COLUMNS[i] = AUTOMATION_COLUMNS[j] => i = j
    /\ CHECK_STATUS \in Captions
    /\ \A F \in Filled : F \subseteq Captions \ {CHECK_STATUS}
    /\ INSERT_BEFORE \in Seq(STRING)
    /\ QE_SHEET \in Seq(STRING \ {AUTOMATED_SHEET, LATEST_REVISIONS_SHEET})
    /\ IsFiniteSet(QE_EXPECTED)
    /\ \A k \in Captions \cup QE_EXPECTED : Caption(k) # Empty
    /\ AUTOMATED_SHEET # LATEST_REVISIONS_SHEET
    /\ \E k \in DOMAIN QE_SHEET : <<AUTOMATED_SHEET, QE_SHEET[k]>> \in Contains
    /\ \A k \in DOMAIN QE_SHEET :
          <<LATEST_REVISIONS_SHEET, QE_SHEET[k]>> \notin Contains
    /\ \A b \in Uploads : IsUpload(b)
    /\ MaxRuns \in Nat \ {0}

----------------------------------------------------------------------------
(* Inserting columns.                                                      *)

\* Mutant: a range across the insertion is not stretched.
ShiftRangeMoves(g, p, n) ==
    IF g.c1 >= p THEN [g EXCEPT !.c1 = @ + n, !.c2 = @ + n] ELSE g

\* _shift_range: a range is moved, stretched or left alone.
ShiftRange(g, p, n) ==
    IF g.c1 >= p THEN [g EXCEPT !.c1 = @ + n, !.c2 = @ + n]
    ELSE IF g.c2 >= p THEN [g EXCEPT !.c2 = @ + n]
    ELSE g

ShiftRanges(G, p, n) == {ShiftRange(g, p, n) : g \in G}

\* A column dimension may stand for several columns; the code gives it one.
ShiftDim(d, p, n) ==
    IF d.min >= p THEN [d EXCEPT !.min = d.min + n, !.max = d.min + n] ELSE d

\* A sheet with n columns put in at p, cols columns wide.
Inserting(s, p, n, cols) ==
    LET moved(f, bare) ==
            [q \in Grid(s.rows, cols) |->
                IF q[2] < p THEN f[q]
                ELSE IF q[2] < p + n THEN bare
                ELSE f[<<q[1], q[2] - n>>]]
    IN [s EXCEPT !.cols = cols,
                 !.cell = moved(@, Empty),
                 !.style = moved(@, "none"),
                 !.merges = ShiftRanges(@, p, n),
                 !.formats = ShiftRanges(@, p, n),
                 !.filter = IF @ = NoRange THEN @ ELSE ShiftRange(@, p, n),
                 !.pane = IF @ >= p THEN @ + n ELSE @,
                 !.dims = {ShiftDim(d, p, n) : d \in @}]

\* Mutant: the sheet does not know that it is wider now.
InsertColumnsNarrow(s, p, n) ==
    IF n = 0 THEN s ELSE
       [Inserting(s, p, n, s.cols + n) EXCEPT !.cols = s.cols]

InsertColumns(s, p, n) == IF n = 0 THEN s ELSE Inserting(s, p, n, s.cols + n)

----------------------------------------------------------------------------
(* write(), method by method.  The sheet worked on is the last one.        *)

\* read_table: document rows lie below the header row.
DataRows(s) == (DetectHeaderRow(s) + 1)..s.rows

Source == Chosen(upload)
Target == book[Len(book)]
SetTarget(s) == book' = [book EXCEPT ![Len(book)] = s]
Ours == {columns[k] : k \in Captions}
KeyOf(c) == CHOOSE k \in Captions : columns[k] = c

Init ==
    /\ step = "open"
    /\ upload \in Uploads
    /\ answers \in UNION {[D -> Filled] : D \in SUBSET DataRows(Source)}
    /\ latest \in SUBSET DOMAIN answers
    /\ book = <<>>
    /\ header = 0
    /\ columns = [k \in Captions |-> 0]
    /\ reused = {}
    /\ at = 0
    /\ count = 0
    /\ written = 0
    /\ saved = <<>>
    /\ runs = 0

Copying(others) ==
    /\ step = "open"
    /\ header' = DetectHeaderRow(Source)
    /\ book' = Append(others, [Source EXCEPT !.name = AUTOMATED_SHEET])
    /\ step' = "resolve"
    /\ UNCHANGED <<given, columns, reused, at, count, written, saved, runs>>

\* Mutant: the sheet of an earlier run stays.
CopySheetBeside == Copying(upload)

\* The workbook is opened, its sheet found and its header row detected;
\* _copy_sheet then appends the copy that will carry the answers.
CopySheet == Copying(Without(upload, AUTOMATED_SHEET))

Anchors(s) == {i \in DOMAIN INSERT_BEFORE : Having(s, INSERT_BEFORE[i]) # {}}

\* ResolveIn(old, n, p, where): n columns go in at p for the captions that are
\* not old; an old caption is then looked up in the sheet where.
ResolveIn(old, n, p, where) ==
    LET place(k) == Cardinality({i \in DOMAIN AUTOMATION_COLUMNS :
                        /\ AUTOMATION_COLUMNS[i] \notin old
                        /\ \E j \in DOMAIN AUTOMATION_COLUMNS :
                              i < j /\ AUTOMATION_COLUMNS[j] = k})
    IN /\ step = "resolve"
       /\ reused' = old
       /\ at' = p
       /\ count' = n
       /\ SetTarget(InsertColumns(Target, p, n))
       /\ columns' = [k \in Captions |->
                         IF k \in old THEN First(Having(where, k))
                                      ELSE p + place(k)]
       /\ step' = "dress"
       /\ UNCHANGED <<given, header, written, saved, runs>>

Reusable == {k \in Captions : Having(Target, k) # {}}
Missing == Cardinality(Captions \ Reusable)
InsertionPoint ==
    IF Anchors(Target) = {} THEN Target.cols + 1
    ELSE First(Having(Target, INSERT_BEFORE[First(Anchors(Target))]))

\* Mutant: columns in use are looked up before the insertion only.
ResolveColumnsOnce == ResolveIn(Reusable, Missing, InsertionPoint, Target)

\* Captions the sheet has are kept where they are; columns for the others go in
\* before the anchor, as one block, and the first ones are looked up again.
ResolveColumns ==
    ResolveIn(Reusable, Missing, InsertionPoint,
              InsertColumns(Target, InsertionPoint, Missing))

DressLike(neighbour) ==
    LET s == Target
        dressed(r, c) ==
            /\ neighbour >= 1
            /\ r < header /\ c \in at..(at + count - 1)
            /\ s.style[<<r, neighbour>>] # "none"
    IN /\ step = "dress"
       /\ SetTarget([s EXCEPT !.style =
              [p \in Grid(s.rows, s.cols) |->
                  IF dressed(p[1], p[2]) THEN s.style[<<p[1], neighbour>>]
                                         ELSE s.style[p]]])
       /\ step' = "headers"
       /\ UNCHANGED <<given, placement, written, saved, runs>>

\* Mutant: the template is taken where the block is, not beside it.
DressTitleRowsBare == DressLike(at)

\* _dress_title_rows: the cells above the captions look like the column the
\* block displaced, or like the last one if it displaced none.
DressTitleRows ==
    DressLike(IF at + count <= Target.cols THEN at + count ELSE at - 1)

\* _write_headers: new captions wear the style of the nearest caption that is
\* not ours, on their left if there is one, in green.
Green(style) == IF style = "none" THEN "green" ELSE "green " \o style

WriteHeaders ==
    LET s == Target
        new == Captions \ reused
        place == {columns[k] : k \in new}
        others == {c \in 1..s.cols \ Ours : s.cell[<<header, c>>] # Empty}
        left == {c \in others : \A p \in place : c < p}
        right == {c \in others : \A p \in place : c > p}
        style == IF left # {} THEN Green(s.style[<<header, Last(left)>>])
                 ELSE IF right # {} THEN Green(s.style[<<header, First(right)>>])
                 ELSE "green"
    IN /\ step = "headers"
       /\ SetTarget([s EXCEPT
              !.cell = [p \in Grid(s.rows, s.cols) |->
                  IF p[1] = header /\ p[2] \in Ours THEN Caption(KeyOf(p[2]))
                                                    ELSE s.cell[p]],
              !.style = [p \in Grid(s.rows, s.cols) |->
                  IF p[1] = header /\ p[2] \in place THEN style
                                                     ELSE s.style[p]],
              !.dims = @ \cup {[min |-> c, max |-> c, width |-> "ours"] :
                                   c \in place}])
       /\ step' = "rows"
       /\ UNCHANGED <<given, placement, written, saved, runs>>

\* _write_rows: every row but those of the title and the header gets its
\* values; CHECK STATUS gets none.  All five cells wear the style of the first
\* styled data cell of the sheet that is not ours.
WriteRows ==
    LET s == Target
        rows == {r \in DOMAIN answers : r > header}
        styled == {p \in Grid(s.rows, s.cols) :
                      /\ p[1] \in (header + 1)..(header + 20)
                      /\ p[2] \notin Ours
                      /\ s.style[p] # "none"}
        top == First({p[1] : p \in styled})
        left == First({p[2] : p \in {q \in styled : q[1] = top}})
        value(r, c) ==
            IF KeyOf(c) = CHECK_STATUS THEN s.cell[<<r, c>>]
            ELSE IF KeyOf(c) \in answers[r] THEN Answer(KeyOf(c), r) ELSE Empty
        answered(p) == p[1] \in rows /\ p[2] \in Ours
    IN /\ step = "rows"
       /\ SetTarget([s EXCEPT
              !.cell = [p \in Grid(s.rows, s.cols) |->
                  IF answered(p) THEN value(p[1], p[2]) ELSE s.cell[p]],
              !.style = [p \in Grid(s.rows, s.cols) |->
                  IF answered(p) /\ styled # {} THEN s.style[<<top, left>>]
                                              ELSE s.style[p]]])
       /\ written' = Cardinality(rows)
       /\ step' = "latest"
       /\ UNCHANGED <<given, placement, saved, runs>>

\* Mutant: the filter keeps its extent.
RemapDataRangeNot(g, end) == g

\* _remap_data_range: a filter over the data is cut to the rows that are left.
RemapDataRange(g, end) ==
    IF g.r2 <= header THEN g
    ELSE IF g.r1 > end \/ end <= header THEN NoRange
    ELSE [g EXCEPT !.r1 = IF g.r1 > header THEN g.r1 ELSE header + 1,
                   !.r2 = end]

Extracting(others) ==
    LET s == Target
        kept == {r \in latest : header < r /\ r <= s.rows}
        from(r) == IF r <= header THEN r
                   ELSE Nth(kept, r - header)
        end == header + Cardinality(kept)
        take(f) == [p \in Grid(end, s.cols) |-> f[<<from(p[1]), p[2]>>]]
    IN /\ step = "latest"
       /\ book' = Append(others,
              [s EXCEPT
                 !.name = LATEST_REVISIONS_SHEET,
                 !.rows = end,
                 !.cell = take(@),
                 !.style = take(@),
                 !.merges = {g \in @ : g.r2 <= header},
                 !.formats = {},
                 !.filter = IF @ = NoRange THEN @ ELSE RemapDataRange(@, end),
                 !.dims = {[d EXCEPT !.max = d.min] : d \in @}])
       /\ step' = "save"
       /\ UNCHANGED <<given, placement, written, saved, runs>>

\* Mutant: the sheet of an earlier run stays.
WriteLatestRevisionsBeside == Extracting(book)

\* _write_latest_revisions: title and header rows as they are, then the rows
\* marked latest in their order; conditional formats are not carried over.
WriteLatestRevisions == Extracting(Without(book, LATEST_REVISIONS_SHEET))

Save ==
    /\ step = "save"
    /\ saved' = book
    /\ runs' = runs + 1
    /\ step' = "saved"
    /\ UNCHANGED <<given, book, placement, written>>

\* The employee uploads the workbook that was handed out.
Rerun ==
    /\ step = "saved"
    /\ runs < MaxRuns
    /\ upload' = saved
    /\ step' = "open"
    /\ UNCHANGED <<answers, latest, book, placement, written, saved, runs>>

Next ==
    \/ CopySheet
    \/ ResolveColumns
    \/ DressTitleRows
    \/ WriteHeaders
    \/ WriteRows
    \/ WriteLatestRevisions
    \/ Save
    \/ Rerun

Spec == Init /\ [][Next]_vars

----------------------------------------------------------------------------
\* Where a column of the source sheet is in the automated one.
Image(c) == IF c < at THEN c ELSE c + count

Inserted == at..(at + count - 1)

\* The automated sheet while it is worked on, and when it was written.
Working == step \in {"dress", "headers", "rows", "latest"}
Written == step = "saved"
Automated == saved[Len(saved) - 1]
LatestRevisions == saved[Len(saved)]

TypeOK ==
    /\ step \in {"open", "resolve", "dress", "headers", "rows", "latest",
                 "save", "saved"}
    /\ \A b \in {upload, book, saved} : \A i \in DOMAIN b : IsSheet(b[i])
    /\ DOMAIN answers \subseteq DataRows(Source)
    /\ latest \subseteq DOMAIN answers
    /\ columns \in [Captions -> Nat]
    /\ reused \subseteq Captions
    /\ {header, at, count, written} \subseteq Nat
    /\ runs \in 0..MaxRuns

\* The cells a range covers in the source sheet, where they are now; a range
\* from left of the block to right of it covers the block too.
Cells(g, s) == {p \in Grid(s.rows, s.cols) : Covers(g, p[1], p[2])}
ImageCells(g, s) ==
    {<<p[1], Image(p[2])>> : p \in Cells(g, s)} \cup
    {p \in (1..s.rows) \X Inserted :
        /\ g.r1 <= p[1] /\ p[1] <= g.r2
        /\ g.c1 < at /\ at <= g.c2}

\* Everything a sheet says about ranges of cells is true of the same cells
\* after the insertion: merged ranges, formats and validations, the filter,
\* the frozen columns, and the widths of columns
\* (output_workbook.py:248, _insert_columns, "carrying the sheet with them") -
\* these as long as no entry of the file covers several columns: the code
\* would leave such an entry in place or cut it to one column.
RangesFollowCells ==
    Working =>
        LET s == Source
            d == Target
            all(G) == {Cells(g, d) : g \in G}
            moved(G) == {ImageCells(g, s) : g \in G}
        IN /\ all(d.merges) = moved(s.merges)
           /\ all(d.formats) = moved(s.formats)
           /\ Cells(d.filter, d) = ImageCells(s.filter, s)
           /\ \A c \in 1..s.cols : c < s.pane <=> Image(c) < d.pane
           /\ (\A e \in s.dims : e.min = e.max) =>
                 \A c \in 1..s.cols : Width(d, Image(c)) = Width(s, c)

\* The employee's sheets are all there, as they were and in their order, and
\* the two added sheets are the last ones, each there once
\* (API_CONTRACT.md:472, "every original sheet is present, in its original
\* order").  Sheets with the two names are replaced, whoever made them.
EmployeeSheetsStay ==
    LET own(b) == Without(Without(b, AUTOMATED_SHEET), LATEST_REVISIONS_SHEET)
    IN Written =>
        /\ Len(saved) = Len(own(upload)) + 2
        /\ \A i \in DOMAIN own(upload) : saved[i] = own(upload)[i]
        /\ Automated.name = AUTOMATED_SHEET
        /\ LatestRevisions.name = LATEST_REVISIONS_SHEET

\* Whoever reads the result by its captions, as read_automation_columns does,
\* finds the header where it was, each row's answers on that row and nowhere
\* else, CHECK STATUS untouched, and every other cell of the source sheet
\* (output_workbook.py, _write_rows, "rather than shifting its neighbours'
\* answers onto it").
AnswersReadBack ==
    Written =>
        LET s == Source
            d == Automated
            index(k) == First(Having(d, k))
            theirs(r, k) ==
                IF k \in reused THEN s.cell[<<r, First(Having(s, k))>>]
                                ELSE Empty
        IN /\ DetectHeaderRow(d) = header
           /\ \A k \in Captions :
                 Having(d, k) # {} /\ index(k) = columns[k]
           /\ \A r \in (header + 1)..d.rows, k \in Captions :
                 d.cell[<<r, index(k)>>] =
                    IF k = CHECK_STATUS \/ r \notin DOMAIN answers
                    THEN theirs(r, k)
                    ELSE IF k \in answers[r] THEN Answer(k, r) ELSE Empty
           /\ \A r \in 1..s.rows, c \in 1..s.cols :
                 Image(c) \notin Ours =>
                    d.cell[<<r, Image(c)>>] = s.cell[<<r, c>>]

\* "Latest Revisions" is the automated sheet without the rows that are not
\* latest: the rows above the data, then the latest rows in their order, each
\* once; a filter over the data ends with the data
\* (output_workbook.py:667, _write_latest_revisions).
LatestIsExtract ==
    Written =>
        LET d == Automated
            l == LatestRevisions
            place(r) == header + Cardinality({q \in latest : q <= r})
        IN /\ l.rows = header + Cardinality(latest) /\ l.cols = d.cols
           /\ \A c \in 1..d.cols :
                 /\ \A r \in 1..header : l.cell[<<r, c>>] = d.cell[<<r, c>>]
                 /\ \A r \in latest : l.cell[<<place(r), c>>] = d.cell[<<r, c>>]
           /\ l.filter # NoRange /\ d.filter.r2 > header =>
                 l.filter.r2 = l.rows

\* A band of one style across the insertion point, in the rows above the
\* captions, runs on across the block
\* (output_workbook.py:527, "so the band above the header runs unbroken").
BandUnbroken ==
    Written /\ count > 0 /\ at > 1 =>
        LET d == Automated
            beyond == IF at + count <= d.cols THEN at + count ELSE at - 1
        IN \A r \in 1..(header - 1) :
              d.style[<<r, at - 1>>] = d.style[<<r, beyond>>] =>
                 \A c \in Inserted : d.style[<<r, c>>] = d.style[<<r, at - 1>>]

\* Automating the output again gives the same output
\* (output_workbook.py:441, "A re-run over an already-automated workbook
\* replaces the sheet rather than accumulating").
RerunChangesNothing == [][runs > 0 => saved' = saved]_vars
============================================================================
