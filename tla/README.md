# Formal model of the MDR automation backend

TLA+ modules, TLC configurations and TLAPS proofs for this repository
(`backend/`, `frontend/`). Paths below are relative to the repository root;
`app/` stands for `backend/app/`.

## 1. The system

An employee uploads an MDR workbook and walks it through three HTTP calls.

| Part | State it keeps | Operations | Interacts through |
|---|---|---|---|
| Workflow service (`app/services/workflow_service.py`, routes in `app/api/routes/mdr_v1.py`) | none of its own | upload, extract, automate, summary, download, `_mark_failed` | one `session_scope` transaction per step, a second one for FAILED |
| PostgreSQL (`app/infrastructure/persistence`) | `mdr_submissions`, `mdr_document_rows`, `mdr_processing_summaries`, `rule_sets`, `plants` | repositories' add, update, mark, register | READ COMMITTED, unique constraints, row locks, a pool of 5 + 10 connections |
| Upload storage (`app/infrastructure/storage/local.py`) | one file per submission | put (exclusive create), delete, resolve, exists | written before the row, read again by every step |
| Rules directory (`app/services/rule_set_service.py`, `app/core/config.py`) | the rules workbook(s) | select for a plant, fingerprint, load | opened four times during one automate |
| Engine (`app/services/mdr_pipeline.py`, `app/engine`) | none | identity, revision parsing, latest revision, DOC TYPE, SOW, IDB, vendor matching | called by extract and automate |
| Excel readers and writer (`app/infrastructure/excel`) | none | find header, read rows; copy workbook, insert columns, `Latest Revisions` | called by engine and download |
| Front end (`frontend/src/pages/AutomatePage.tsx`) | the screen | run automation, retry, retry summary | HTTP |
| Validation reports (`scripts/validate_phase.py`, `app/engine/validation`) | counts, causes, examples | grade one run against columns a person filled in | engine |
| CLI, artifact writer, migrations | files | batch run, CSV and JSON | none at run time |

Extract, automate, summary and download are `def` routes: each request runs on
a worker thread, so any number of them overlap. Upload is `async def` and calls
the service directly, so one process runs one upload at a time. Nothing takes a
lock explicitly; the status is read without `FOR UPDATE`. What keeps requests
apart is the unique constraints, the row locks of UPDATE statements, and the
status check.

### What is hard, and what makes each part correct

* **Overlapping requests on one submission.** The status has the rows, header,
  summary and rule set it claims; a summary describes the rows beside it; late
  commits do not set a status back; who reads in several statements while others
  commit does not see half a result.
* **Failure handling.** A failed step rolls back and records FAILED in a second
  transaction that may fail itself, load a stale status, or run although the
  first one never got as far as the status check.
* **Two stores.** A submission row never refers to a missing or partial file.
* **Read-then-write.** The plant's next number and the digest lookup of
  `rule_sets` are separate statements from the INSERT that uses them.
* **Files read more than once.** The rules workbook and the stored workbook may
  change between readings.
* **Waiting.** Row locks, unique keys and pooled connections: every request is
  answered.
* **The screen.** Nothing cancels a run or a retry of the front end; an answer
  sets the screen whatever it has become. What the screen claims must be true
  of the backend, and a retry must not start a second step on a submission.
* **A workbook edited by hand.** openpyxl moves cells when columns are inserted,
  and nothing else: merged ranges, formats, filter, frozen pane and widths are
  moved by the writer, and its output may be uploaded again.
* **Order of precedence.** Revisions, keyword rules, scope statements, matching
  tiers and causes of a mismatch each take the first of several that fit;
  an order that is wrong in one place gives a plausible, wrong answer.
* **Capped lists.** The reports count everything and keep some of it.

The list of hazards with their lines is in `PROJECT.json`.

## 2. Modules

| Module | Role |
|---|---|
| `SubmissionLifecycle` | What the workflow promises about a submission: status, stored rows, summary. |
| `SubmissionLifecycle_proofs` | Its invariant and the finality of AUTOMATED and FAILED. |
| `SubmissionWorkflow` | The core: extract, automate, summary, download and `_mark_failed` as interleaved transactions. |
| `MCWorkflow` | Its small instances. |
| `SubmissionWorkflow_proofs` | Its safety invariants and `NeverSetBack`, for all instances. |
| `WorkflowSerial_proofs` | What holds when each submission has one extract or automate in flight: the refinement of `SubmissionLifecycle` and two invariants. |
| `WorkbookUpload` | The upload protocol between file storage and database. |
| `MCUpload`, `WorkbookUpload_proofs` | Its instances and proofs. |
| `LatestRevision` | From sheet rows to the latest revision of each document: parsing, candidacy, ranking. |
| `MCRevision`, `LatestRevision_proofs` | Its instances and proofs. |
| `VendorMatching` | Extends `LatestRevision`: the vendor rows resolved against the ranked documents. |
| `ScopeChain` | Keywords to DOC TYPE, DOC TYPE to DOC IS REQUIRED SOW, that to DOC IDB COMPLETED STATUS. Operators only. |
| `ReferenceReports` | Composes the three: one engine run or one automation run, and the four reports that grade them. |
| `MCReports`, `ReferenceReports_proofs` | Its instances; the proofs about it, `VendorMatching` and `ScopeChain`. |
| `OutputWorkbook` | The workbook a download hands out, method by method. |
| `MCOutput`, `OutputWorkbook_proofs` | Its instances and proofs. |
| `AutomatePage` | The screen of the front end against the backend (an instance of `SubmissionLifecycle`). |
| `MCPage`, `AutomatePage_proofs` | Its instances and proofs. |

`SubmissionLifecycle` sits in the middle: `SubmissionWorkflow` implements it when
each submission has at most one extract or automate in flight (`Serial`; any
number of summaries and downloads may run beside it), and `AutomatePage` uses it
as its backend and shows that an upload, extract or automate the page has at the
backend is alone on its submission (`StepsWorkAlone`; summary retries and
downloads may share one). As long as that page is the only client, each module
shows what the other one assumes.

### SubmissionWorkflow

*State.* `status, reason, header, source` are columns of `mdr_submissions`;
`stored` and `verdict` are `mdr_document_rows` (which source rows exist, and
from which rules content their automation columns come); `summaries` and
`ruleSets` are the two tables; `file` and `rulesFile` are the disk. `pc, op,
target, work, reply` belong to a request thread. The database variables hold
*committed* data only. What a transaction has written is determined by its `pc`
and `work`, and is published by `PublishExtract` or `PublishAutomate` in one
step. The locks it holds are state functions (`HoldsInserted`, `HoldsRows`,
`HoldsRuleSet`, `HoldsSummary`, `HoldsSubmission`): an INSERT waits for an
uncommitted row with the same key and then fails or succeeds, an UPDATE waits
for the row lock.

*Steps.* One action per statement that reads or writes shared state. A download
reads the submission (`Begin`), its summary (`ReadCounts`) and its rows
(`ReadRows`) in three, and keeps in `work` what the first ones returned:

    load -> engine -> insert -> markExtracted -> commitExtract
                  \-> scope -> match -> update -> fingerprint -> digest
                        -> register -> summarise -> markAutomated
                        -> commitAutomate
    load -> readSummary
    load -> readCounts -> readRows -> verify -> export
    (any exception) -> fail -> markFailed

`Begin` with its siblings `NotFound`, `WrongStatus`, `RulesUnavailable` and
`WorkbookMissing` is `_require`, `_require_status`, `_plant_rules` and
`_stored_workbook` in the order of the code: the first four are `WorkflowError`s
and change nothing, the last raises. `Raise` is the split the `except` clauses
make. `MarkFailed` keeps a detail of the ORM: the UPDATE contains only columns
that differ from what was *loaded*, so a submission loaded as FAILED has only
its reason rewritten.

*Data.* A workbook content is a member of `Books`; `RowsOf`, `HeaderOf` and
`Processable` say what the engine finds in it. A digest of a content is the
content itself (no collisions). A verdict is the content of the rules workbook
it was computed from. Reasons are the kinds of exception, not their texts. The
populated counters that a download compares are abstracted to "may disagree
only if the verdicts are not those the summary counted" (`VerdictsAsCounted`).
On which sheet a content has its documents is left open, so `Export` may refuse
another content with the same header row (`_check_written`); rows outside the
sheet cannot occur, because rows above the header were refused before.

*Environment* (`Disturbances`): a database error while loading or later, a
COMMIT whose acknowledgement is lost, FAILED that cannot be recorded, a server
restart, replacement or removal of the stored workbook or of the rules
workbook - at any time, or only while no request is in flight (`...Idle`).

### WorkbookUpload

File states `none`, `partial`, `whole`; `row` says that the submission row is
committed; `number` is the `MDR #n` it drew. The order is that of
`upload_workbook`: `Check`, `Lookup`, `Create`/`Write` (put), `ReadNumber` and
`Insert` (`SubmissionRepository.add`, inside the try), `Commit` (outside it).
`Processes` bounds how many uploads overlap.

### LatestRevision

`ReadRow` is one round of the loop in `_build_documents`: an empty document
number is skipped, otherwise `Document` appends a record with its identity key,
band, ordinal, candidacy and first reason. `RankNext` is one round of
`determine_latest`'s loop over the groups, in the order in which their keys were
first met; `DecideNone` and `DecideAmong` are its two halves. A document number is
a sequence of characters, because the key depends on them; a REV cell is its form
and value; withdrawal is a Boolean. Section 5 has the properties.

### VendorMatching, ScopeChain, ReferenceReports

`BuildVendorRows` is the last step of the pipeline. `Hits` is the index of
document numbers under the key of a tier (as written, canonical, canonical
without VEN); `MatchVendorRow` takes the first tier, and in it the first field,
that has a document, and refuses to choose between several.

`ScopeChain` follows a document through the rules workbook. A text is a sequence
of pieces, cut fine enough for "contains" to be equality of pieces; a keyword
cell is the set of its alternatives, each a sequence of segments between the
asterisks. `SheetOf` keeps the fallback of `find_sheet`: with the required
keyword sheet missing, the sheet NOT REQUIRED-KEY DOC.WORDS answers to its name,
because it contains it. `AutomationRow` is the row written for one document.

`ReferenceReports` runs one of five commands: `latest` is the pipeline, then
`ValidateLatest`; `docType`, `sow` and `idb` compare one reference row per
`CompareRow`; `automate` answers one document per `AutomateRow`. `CannotStart`
is a missing workbook (exit 2) or sheet (`SheetNotFoundError`, not caught, exit
1); `Readable` says which sheets a command reads. Phase 1 classifies with the
default rules workbook, which must be readable if it is there; nothing that
comes of it is graded, so one that can be read is as good as none
(`PhaseOneBooks`). The column LATEST/NOT LATEST is read with the rows but looked
at only by `ValidateLatest`, so its values are chosen there.

The properties are stated against the rules workbook, not against the chain:
`StatedOut` and `StatedIn` say when the workbook itself states that a document
is out of or in scope. `BlameIsEarned` says what each cause can be relied on to say
of its examples (`TypeBlameEarned`, `SowBlameEarned`, `IdbBlameEarned`). The
comments on `Cause` promise more in three places, and there it states what the
code does:

* REFERENCE_OVERRIDES_TO_NO, "The rule says the document is in scope"
  (`sow.py:65`), is also given when the DOC TYPE is a placeholder (`-`) or its rule
  states no scope (CANCELLED), because only the reference is compared with `NO`.
* RULE_DISAGREES_WITH_REFERENCE, both sides stating real, different components
  (`sow.py:68`), is also given when the DOC TYPE is a placeholder, or the
  reference a bare `YES`, which has no components.
* A disagreement about whether a check is due, the one `idb.py:84` gives
  RULE_DISAGREES_WITH_REFERENCE, is listed as a spelling variant or as not
  generatable when the reference has such a value.

A rule may also have a HIERARCHY left that stands behind a space, where
`_HIERARCHY_COMPONENT` does not look.

### OutputWorkbook

One action per method of `write()`: `CopySheet`, `ResolveColumns`,
`DressTitleRows`, `WriteHeaders`, `WriteRows`, `WriteLatestRevisions`, `Save`;
`Rerun` uploads the result again. The sheet that is found is `Chosen`: by its exact
name, else the first that contains it, which after a first run may be the added
one. A sheet is a grid of texts and one of styles,
with merged ranges, formats (conditional formats and validations are treated
alike), a filter, a frozen column and column dimensions. `InsertColumns` moves
the cells as openpyxl does and everything else as `_insert_columns` does. A
data cell is named by the place it had in the upload and an answer by its row,
so that a cell that ends up anywhere else is seen.

### AutomatePage

*State.* `plants`, `screen` and `card` are the React state (`UploadScreen`, the
download button); `file`, `call` and `answer` are the closure and the pending
await of each call of `runAutomation`; `read` holds what each summary retry and
each download captured; `atServer` are requests the backend has not handled,
each with the run or read it is from (`From`). `card` names the download the
button waits for. `status`, `stored`, `summarised` are the backend.

*Steps.* `StartRun` up to the first await, `Continue` and `Catch` for an await
that resolves or rejects, `RetrySummary`/`RetryAnswered`,
`Download`/`DownloadAnswered`, the other buttons, and `Reload`, which forgets the
page's calls but not their requests. `Serve` handles a request whether or not the
page still waits; `Lose` and `LoseRead` are a connection that breaks before or
after the request arrived. A summary can be retried several times, and a card
that was left and shown again starts another download: such reads overlap on one
submission, and `StepsWorkAlone` says that nothing else does.

## 3. Runs

| Run | Instance | Checks |
|---|---|---|
| `WorkflowConcurrent` | 1 submission, 3 requests, a normal and an empty workbook, pool of 2; all database errors and restarts; the stored file may be replaced between requests | `TypeOK`, `StatusIsBacked`, `UploadedIsBare`, `SummaryNeverHollow`, `DownloadFindsResultWhole` |
| `WorkflowRules` | 1 submission, 2 requests, two workbooks with different rows, two rules contents replaced at any time | `SummaryDescribesRows`, `NeverSetBack`, `DownloadFindsResultWhole` |
| `WorkflowSerial` | 2 submissions, 2 requests, one extract or automate in flight per submission, files change between requests | `LifecycleSpec` (refinement), `RecordedRulesRan`, `AcknowledgedResultStands`, `ReasonOnlyWhenFailed` |
| `WorkflowLive` | 2 submissions, 2 requests, no disturbance | `EveryRequestAnswered` |
| `Uploads` | 3 uploads, 2 plants and an unknown one, 3 processes, every failure | `TypeOK`, `RowHasFile`, `NumbersDense`, `UploadEnds` |
| `Page` | 2 workbooks and a letter, 2 runs, 2 summary retries or downloads in flight, broken connections, reloads | `TypeOK`, `CompleteIsAutomated`, `RailIsTruthful`, `StepsWorkAlone`, `WaitsEnd` |
| `Output` | every arrangement of captions in four columns, a title row or none, two data rows, ranges over any columns, other sheets before and behind; the source sheet under its own name, or only found by a name that contains it, so that the second run reads the sheet the first one added; written twice | `TypeOK`, `RangesFollowCells`, `EmployeeSheetsStay`, `AnswersReadBack`, `LatestIsExtract`, `BandUnbroken`, `RerunChangesNothing` |
| `Reports` | every sheet of up to 3 rows (two documents, a number of separators only, an empty number; 9, 10, a number too long, A, B, Z, nothing; withdrawn or not), 6 vendor rows, 4 rules workbooks (three with a sheet missing) or none, up to 2 reference rows or documents | `ReportTypeOK`, `LatestStandsOut`, `ExceptionsExplained`, `DecisionsStand`, `VendorsNeverGuess`, `ScopeNeverGuessed`, `RequiredSheetDecides`, `BlanksAreManual`, `CausesAccountForAll`, `EveryCauseHasExample`, `BlameIsEarned` |

*Why the bounds are enough.* Two requests suffice for every race on one row or
key; the third in `WorkflowConcurrent` lets a read overlap two writers, fills
the pool, and lets one request fail while another waits. Two submissions are
needed where submissions meet (the rule set, the pool); otherwise they share
nothing. Two contents of the rules workbook make every pair of readings able to
differ. `MCRowsOf` gives contents equal rows, different rows and no rows, so
every comparison of the code goes both ways. Three uploads let two race for the
number after a third. No variable grows without bound except `summaries`, which
the unique constraint bounds, and the numbers of uploads (`Numbers`, at most
one per upload).

`Page`: a run that is overtaken by another one needs two runs; two reads let a
late failure follow a success and let a retry and a download share a submission.
The backend's rows are left out (`MCRows` is empty: the page never looks at them,
and `ResultsMatchStatus` is proved for every set). `Output`: four columns give the anchor a column
before, on and after each kind of range, and captions the employee already has
in front of and behind the anchor; `MaxRuns` is 2 because `RerunChangesNothing`
compares two outputs. `Reports`: three rows let two share the top revision above
a third one, and let the rows of one document enclose a row of another; two
reference rows suffice to fill a list with one example and have another come
after it - the caps `MaxRecorded` (1000 in phase 1, 2000 in 2A and 2B) and `MaxPerCause` (250) are
scaled to 1. The sheets graded in phase 1 have only the revisions in
`GradedCells` (9 and 10), because grading looks at the decisions and their order,
not at the cells.

*Fairness.* `WorkflowLive`: strong fairness of each request's own steps. A
request that waits for a lock is enabled only when the lock is free; PostgreSQL
queues waiters in order, so no waiter is overtaken for ever, which is what
strong fairness says. Without a strong assumption a request could be overtaken
at a lock for ever and the property would not hold. New requests
(`Send`), disturbances and uploads are not fair: nobody has to send anything.
`Uploads`: weak fairness of each upload's own steps once a process took it; no
fairness for `Arrive` or for failures. `Page`: weak fairness of `Continue` and
`Catch` of each run and of the two continuations of each read, because the event
loop runs the continuation of a promise that is settled, and of the service of
each sender's requests, which is `EveryRequestAnswered`; `WaitsEnd` holds with a
connection that breaks at any time, but not with one that hangs. Buttons, retries
and reloads are not fair.

*Deadlock* is not checked in `Output` and `Reports`: the program ends there.

### Disagreements the runs show

| Run | Statement in the repository | What happens |
|---|---|---|
| `ViolRuleSetRace` | `rule_sets.py:57` "Return the rule set for this fingerprint, registering it if new" | Two submissions automated at the same time under a new rules workbook: the slower one hits the unique digest and is marked FAILED. |
| `ViolNumbersMerge` | `normalisation.py:8` "We never drop or invent number segments, because doing so would merge genuinely distinct documents" | Separators are deleted, so P-1-11 and P-11-1 share a key and are ranked as one document: the latest row of one becomes OLD. |
| `ViolLateSummary` | `AutomatePage.tsx:5` "Each processing transition is driven by the real request's outcome" | A summary retried on the complete screen answers after the next workbook was started: the rail disappears under the old result while the new run goes on, and another run can be started beside it. |
| `ViolGate` | `validate_phase.py:5` "Fails (exit 1) on a genuine conflict, which is what makes it a gate" | The gate looks at the recorded disagreements, which end at the cap: a conflict after as many stale labels passes. |

Relatives of these that were met while modelling and are no run of their own:

* FAILED is called terminal (`API_CONTRACT.md:102`, `lifecycle.py:22`), but with
  two extracts in flight EXTRACTED of one overwrites FAILED of the other, whose
  reason stays. A repeated call that gets no connection, or whose commit was
  not acknowledged, marks an AUTOMATED submission FAILED and its summary survives.
* The docstring of `upload_workbook` (`workflow_service.py:353`) says that the file
  is removed if the row cannot be written; a COMMIT that fails happens after the
  try, and the file stays.
* Overlapping repeat calls do test the unique constraints. For a workbook without
  document rows no constraint stops a late extract, so `NeverSetBack` needs
  workbooks with rows.
* `RecordedRulesRan` needs a rules workbook that is stable while an automate runs:
  it is opened four times, and when it is replaced in between, the summary points
  at a rule set that did not run, although `rule_set_service.py:140` speaks of "not a
  second reading of the file that might disagree". The run replaces it between
  requests only. `SummaryDescribesRows` holds with rules that change at any moment.
* A download checks the digest of the stored workbook and then opens the file
  again. Nothing closes the window between the two: a file swapped in there is
  handed out when its sheet and header row agree with what extraction recorded.
  The program itself never rewrites a stored file, so no property is stated.
* A width entry of the source sheet that covers several columns is left in place
  or cut to one when columns go in before it (`RangesFollowCells` excludes it).
* Sheets with the names of the two added sheets are replaced whoever made them;
  values in an automation column the employee already had stay on rows that get
  no answer; the filter of Latest Revisions starts one row below its captions.
  `API_CONTRACT.md` and `DATA_FLOW.md` speak of one added sheet.
* With the required keyword sheet missing, the not-required one is read twice and
  its rules count as required.
* `SowRequirement.is_required` is false for CANCELLED and YEE-..., which the IDB
  step treats as unknown and in scope. The report of phase 2B holds a DOC TYPE "-"
  against the rules, that of phase 2C calls the same row unresolved.
* The mismatch totals printed by 2A and 2B are lengths of capped lists.
* A sheet of the rules workbook that is missing ends `validate_phase.py` with exit code 1, the
  code of a failed gate.

## 4. Proofs

Every safety invariant and every action property of a passing run but
`RecordedRulesRan` is proved for all values of the constants, and so is the
refinement `LifecycleSpec`.
What a theorem assumes stands in its statement, under a name.

### The workflow

`SubmissionWorkflow_proofs`, for every number of requests and submissions, every
pool size and every choice of disturbances:

* `WorkflowTypeCorrect` and `UploadsStayBare` follow from `BasicInv`: types,
  `RequestInv` (where a request is says what it was asked and what it has read:
  an extract at `commitExtract` has a processable book in hand; past
  `fingerprint` the recorded digest is of a rules workbook that was there) and
  `SubmissionInv` (UPLOADED is bare, header and rows come together).
  `UploadedIsBare` alone is not inductive: `MarkFailed` and the two publishing
  steps act on what the request holds.
* `SummariesNeverHollow` from `SummaryInv`: who found AUTOMATED finds a summary,
  because AUTOMATED is published with one (`markAutomated` comes after
  `summarise`) and no step removes a summary. No assumption.
* `SummariesDescribeRows` and `StatusesAreBacked` from `Coherent`, under
  `WorkbooksStay`: no stored workbook is replaced *while a request runs*; between
  requests it may be. `Coherent` adds: what each
  request has in hand agrees with what is stored (`CoherentRequest`); two
  requests are never both past the same exclusive step (`Exclusive`: the locks
  and unique keys exclude each other); a stored summary describes the stored
  rows and nobody can still overwrite them (`Described`). The assumption is
  needed: automate compares only the set of source rows of its second reading
  with what is stored. The program itself never writes to a stored file after the
  upload (`put` creates exclusively).
* `AutomatedNeverSetBack` (`NeverSetBack`), also under `WorkbooksHaveRows`: two
  extractions of one submission insert the same rows, so the unique index stops
  the second one before it reaches the status. Without rows nothing stops it.
* `DownloadsFindResults` (`DownloadFindsResultWhole`) from `DownloadInv`, under
  `WorkbooksStay`: `Coherent`, and `DownloadRequest` says that a download between
  its reads has a summarised target, the header row that target still has, and
  from `readRows` on the counts of one of its summaries. `DownloadSettled` is the
  fact about everybody else: no step takes header or summary from a submission.
  So the rows read later agree with the summary read earlier, because rows and
  summaries agree at every moment (`Described`).

`WorkflowSerial_proofs`, for clients that have one extract or automate in flight
per submission (`Serial`), as `AutomatePage` is proved to be one:

* `ReasonsOnlyWhenFailed` from `SerialInv`: no two extracts or automates in flight
  have one target, so each finds the status as it loaded it (`SerialRequest`).
* `AcknowledgedResultsStand` from `EffectiveInv`, under `FailuresInTime`: a
  connection for every request, no error while loading, and no COMMIT whose
  acknowledgement is lost. Each of the three is needed: in all of them `_mark_failed`
  runs for a submission that is AUTOMATED already.
* `WorkflowImplementsLifecycle` (`LifecycleSpec`) under the same conditions. The
  mapping keeps `status` and `stored` and reads `summarised` off the summaries. A step is abstract exactly if it is an upload, one of
  the two publishing steps or a `MarkFailed`; `EffectiveRequest` makes the
  abstract guards true (who fails finds UPLOADED or EXTRACTED); all other steps
  leave the three alone. `FinishedSubmissionsStay` and `SubmissionsMatchStatus`
  carry the theorems of the lifecycle over.

`SubmissionLifecycle_proofs`: `ResultsMatchStatus`, `FinishedStays`.

`WorkbookUpload_proofs`: `UploadTypeCorrect`; `RowsHaveFiles` from `FileFirst`
(whoever is past `Write` has a whole file, and nobody removes the file of a
committed row); `SubmissionNumbersDense` from `NumberInv` (a number that was
drawn is one more than a committed one; no committed row and no other
uncommitted row has the key of an uncommitted row).

### The page

`AutomatePage_proofs` (for every number of workbooks, runs and reads):
`PageTypeCorrect`, `CompleteScreensAreTrue`, `RailsAreTrue`, `StepsAreSerial`
from `PageInv`. None of the three is inductive: what the screen claims rests on
what each run knows, and that on what the backend still owes. `Owed` is the
heart: a request that is not handled finds its submission in the one status in
which it was sent, and the run it is from still awaits it or is over. With
`OneAtATime` (a run has one request at the backend) it gives `StepsAreSerial`
(lemma `OnlyReadsShare`): a step finds its submission before AUTOMATED and a read
finds it there, so the two never meet, and two steps are of one run. `Awaiting` says
what the request a run awaits implies about the submission, `Untouched` that a
run not called yet left no trace, `ReadHasResult` that what a retry or
download captured stays true however late it answers. `ServedStatus` and `ServeForward` are the
facts about the backend: handling a request moves one submission, forward.

### The engine and the reports

`LatestRevision_proofs`: section 5. `ReferenceReports_proofs` extends it:
`ReportsRunPipeline` says that every step of a report is a step of the pipeline or
leaves it alone, so that all its theorems hold of reports
(`ReportsDecideOnce`). `ReportAssumption` says of the rules workbooks that sheets
have a row at most once and that the two kinds of sheet go by their names
(`IsWorkbook`), as `openpyxl` returns them.

* `VendorsAreNotGuessed` from `VendorInv`. The ladder of keys is a CHOOSE of the
  first rung, so the proof needs that a non-empty set of numbers has a least one
  (`LeastNumber`, from the well-foundedness of Nat) and that the rung it picks has
  nothing below it (`FirstRung`); `MatchGuessesNot` is the step for one row.
* `ScopesAreStated` and `RequiredSheetHasTheWord`. `AnswersInv` says that each
  answer is `AutomationRow` of its document, so both are lemmas about the chain:
  `FirstRule` (of the rules that cover a document one comes before all others,
  also when `find_sheet` gave the same sheet twice), `ResolveFacts` (each scope
  goes back to the table, a self-stating type or the sheet), `CellFacts`, and for
  the second theorem `RequiredDecides` (the winner is the same in the workbook
  without its not-required keywords).
* `BlanksAreCounted`: the cells and the counters of the summary count the same
  rows.
* `RowsAreAccountedFor` from `CountsInv`. A sum over causes would be a recursion;
  `Counted` is the number of pairs of a cause and a number up to its count, and
  the proof goes by one more pair (`TallyOneMore`). Phase 1 counts all rows in one
  step: there the pairs and the rows are in bijection (`ByCauseKeepsAll`).
* `CausesHaveExamples` from `ExamplesInv` and the counts: in phase 2C the cap of a
  cause is compared with its count, so a counted cause has an example.
* `BlamesAreEarned` from `BlameInv` (each listed example satisfies the property
  of its report; what that does and does not promise is said in section 2). 2A: the winner and the rule of the reference's type are two
  rules, and `Before` is total on rules of different rows (`RowTellsRule`). 2B:
  `WithoutFacts` says that taking HIERARCHY out leaves everything but separators,
  and the first entry of a value in scope; `CanonicalFacts` that two values with
  the same components, and any at all, have one canonical form. 2C: `OverrideIsOne`
  shows from `WithoutFacts` that phase 2B calls the same row an override.
* `ReportTypeCorrect`: no count exceeds the rows read, for any sheet and cap.

### The output workbook

`OutputWorkbook_proofs`, for every upload that was extracted (`IsUpload`: a sheet
can be found, has rows and is not one of the two added ones), every list of
captions and every number of runs.

`OutputInv` has four parts. `UploadInv` says what an upload is and stays in a
re-run, `CountInv` and `SheetsInv` are types, and `PassInv` is the heart: at each
step the workbook is a *function* of the upload - `Copy`, `Widened`, `Banded`,
`Captioned`, `Made`, `ExtractOf` of the source sheet, behind the sheets that are not
replaced (`Own`). With it each property is a lemma about these functions:

* `RangesAreCarried`: `RangeFollows` says that `ShiftRange` covers exactly the
  images of the cells a range covered, wherever it lies, and `WidthIs` the same of
  column dimensions, for all numbers.
* `BandsRunOn` (`BandStays`): above the captions the inserted cells have the style of
  the column beside them (`Neighbour`), and no later method changes it.
* `ResultsReadBack` (`MadeReadsBack`): the captions are found where the columns
  went (`ColumnsPlaced`), each answer is on its row, and all other cells are those
  of the source, moved.
* `LatestRowsAreExtracted` (`Extracts`): the rows kept are those of `Nth`, which
  counts through a set of numbers in order (`NthHasRank`, `NthOfRank`,
  `NthRises`).
* `SheetsStay` from `WithoutKeeps`: what `Without` leaves are all other sheets, in
  order.
* `SecondRunsChangeNothing` (`RerunChangesNothing`) from `OutputInv` and
  `AgainInv`: what was saved is what is due (`Due`) of the present upload. A
  re-run keeps `Due`, because the sheet found the second time is the source as it
  was, or the sheet the first run added (`SourceAgain`), and `Made` of a sheet
  that was made is that sheet (`MadeAgain`): all captions are there, so no
  column goes in, no cell is dressed, and every answer lands on itself.

### Only model-checked

`RecordedRulesRan` (see section 3).

Liveness: `EveryRequestAnswered`, `UploadEnds` and `WaitsEnd`. Strong and weak
fairness are defined by ENABLED, which the prover does not handle. They stay with
TLC on the instances of section 3.

What the recursive texts of the program compute (parsing of cells, keys of
characters) is in the models only as far as it can be written without recursion;
nothing about recursion is claimed.

## 5. The latest revision

`LatestStandsOut` says what the employee relies on: a row is LATEST exactly when
it is a contender and supersedes every other contender of its document. It is
stated on the REV cells, with the order of `docs/business-rules/revision-rules.md`
(`InSequence`, `Supersedes`), not with the bands and ordinals the code compares,
so it covers parsing, candidacy, grouping and ranking together, and the choice of
nobody where two rows share the top. `ExceptionsExplained` relates the three
fields that report a row's fate. `DecisionsStand` is an action property: no row is
decided before its sheet was read, or touched by a later group.

All three and `TypeOK` are proved for every set of document numbers, separators
and REV cells and every length of the sheet (`RevisionAssumption` only says that
the cells have the shapes `parse_revision` distinguishes and that an empty number
is a null number, as `clean` makes it). `LatestStandsOut` is
not inductive. `RankingInv` adds that band, ordinal and candidacy of a record
follow from its cells (`Parsed`), that a record of a document not yet ranked has
a reason exactly when it is no candidate (`Undecided`), and that a ranked row is
latest exactly when it beats the other *candidates* in band and ordinal
(`AloneOnTop`). `ParseOrders` carries the comparison over to the cells,
`SoleWinner` shows that a winner without a rival beats everybody else.

One thing the model shows is no property: in a document with as-built rows only,
the rows become EXCEPTION but are not on the list of exceptions, because they
already have a reason; no count of the engine's summary contains them.
`revision-rules.md` calls such a row "not an exception" and the whole group an
exception.

## 6. Not modelled

* The text of cells, file names, reasons and JSON; `safe_filename` and
  `resolve`; HTTP codes beyond the class of answer.
* `add_rows` and `update_automation` in chunks of 1000: one step each, because
  nothing else can see the chunks of an uncommitted transaction and the first
  chunk decides who waits.
* Deadlocks of PostgreSQL's own making: all rows of a submission are updated in
  the order of `source_row` by every automate, then the rule set, the summary and
  the submission; `EveryRequestAnswered` confirms that this order has no cycle.
* Unreadable rules workbooks: like any other failure of the engine.
* Plants are registered by a script (`plant_service.py`), `submission_service.py`
  is used by tests and the CLI only.
* Output workbook: styles apart from the ones the writer copies (a style is a
  name), images, row heights, defined names, and how openpyxl reads and writes a
  file. The CSV and JSON exports of the reports.
* Reports: statistics that are only printed (drift, tables per type, rates), and
  the recorded outcome of an IDB check, which no caller has.
* Which of several files in a directory is the default rules workbook
  (`core/config.py`): a name comparison at start-up.
* Front end: rendering, texts and the timer of the process rail.
* CLI, artifact writer, migrations, logging.

## 7. Plan

1. `DownloadArtifact`: the temporary directory of a download is removed however
   the response ends (`workflow_service.py`), as a module of its own with a crash
   between `export` and the background task, its invariants and their proofs.
2. Which of several files is the default rules workbook (`core/config.py`), with
   the theorem that it does not depend on the order of the directory.
3. The page and the workflow composed: `AutomatePage` has an instance of
   `SubmissionLifecycle` as its backend, and `WorkflowImplementsLifecycle` says when
   the workflow is one. A theorem that joins the two - what the screen claims, of
   the workflow's own state - needs a module that runs the page against
   `SubmissionWorkflow`.
