------------------------- MODULE SubmissionWorkflow -------------------------
(***************************************************************************)
(* services/workflow_service.py under concurrent HTTP requests: extract,   *)
(* automate, summary and download of MDR submissions, over PostgreSQL at   *)
(* READ COMMITTED, the upload storage and the rules directory.             *)
(*                                                                         *)
(* Each request is a thread of the server's pool.  It walks through its    *)
(* handler one database statement or file read at a time; what it has      *)
(* written stays private until its transaction commits, and the locks it   *)
(* holds are determined by how far it has got (Holds... below).  A failed  *)
(* extract or automate rolls back and then writes FAILED in a second       *)
(* transaction, as _mark_failed does.  Upload itself is one step here; its *)
(* protocol is module WorkbookUpload.                                      *)
(***************************************************************************)
EXTENDS Naturals, FiniteSets

CONSTANTS
    Subs,           \* submission identifiers
    Requests,       \* request threads
    Books,          \* contents a stored workbook can have
    SourceRows,     \* row numbers of the QatarEnergy-TN sheet
    RowsOf,         \* the document rows the engine finds in a content
    HeaderOf,       \* the header row it finds
    Processable,    \* the contents the engine and the writer can open
    Rules,          \* contents the rules workbook can have
    NoRules,        \* no rules workbook is installed
    Missing,        \* no file is stored
    Pending,        \* the SOW/IDB cells of a row that was not automated yet
    PlantSelects,   \* the plant names its rules workbook, no default applies
    PoolSize,       \* database connections the engine can hand out
    Serial,         \* at most one extract or automate in flight per submission
    Disturbances    \* what the environment may do, see Disturbance

Disturbance ==
    {"loadError",   \* the database fails while the submission is loaded
     "stepError",   \* it fails later in the transaction, which rolls back
     "commitLost",  \* the commit succeeds and its acknowledgement is lost
     "markLost",    \* FAILED itself cannot be recorded
     "crash",       \* the server restarts
     "book",        \* a stored workbook is replaced or removed at any time
     "bookIdle",    \* ... only while no request is in flight
     "rules",       \* the rules workbook is replaced or removed at any time
     "rulesIdle"}   \* ... only while no request is in flight

ASSUME ConstantsAssumption ==
    /\ RowsOf \in [Books -> SUBSET SourceRows]
    /\ HeaderOf \in [Books -> Nat \ {0}]
    /\ Processable \subseteq Books
    /\ Missing \notin Books
    /\ NoRules \notin Rules
    /\ Pending \notin Rules \cup {NoRules}
    /\ PlantSelects \in BOOLEAN
    /\ PoolSize \in Nat \ {0}
    /\ Serial \in BOOLEAN
    /\ Disturbances \subseteq Disturbance

\* Every document row lies below its sheet's header row: the reader starts
\* at header_row + 1.
ASSUME RowsBelowHeader ==
    /\ SourceRows \subseteq Nat
    /\ \A b \in Books : \A r \in RowsOf[b] : HeaderOf[b] < r

\* A summary's row count is a number: a workbook has finitely many rows.
ASSUME FinitelyManyRows == \A b \in Books : IsFiniteSet(RowsOf[b])

VARIABLES
    status,         \* mdr_submissions.status, "ABSENT" before the upload
    reason,         \* mdr_submissions.failure_reason: what kind, "" if none
    header,         \* mdr_submissions.source_header_row, 0 if null
    source,         \* mdr_submissions.source_sha256: the content uploaded
    stored,         \* mdr_document_rows: the source rows present
    verdict,        \* mdr_document_rows: the automation columns of a row
    summaries,      \* mdr_processing_summaries
    ruleSets,       \* rule_sets
    file,           \* upload storage: the content under stored_path
    rulesFile,      \* the rules workbook in rules_dir
    pc,             \* where each request is
    op,             \* what it was asked to do
    target,         \* to which submission
    work,           \* what it has read so far
    reply           \* what it answered last

database == <<status, reason, header, source, stored, verdict, summaries,
              ruleSets>>
files    == <<file, rulesFile>>
asked    == <<op, target>>
vars     == <<database, files, pc, asked, work, reply>>

Statuses == {"ABSENT", "UPLOADED", "EXTRACTED", "AUTOMATED", "FAILED"}
Writes == {"extract", "automate"}
Ops == Writes \cup {"summary", "download"}
\* The kinds of exception _reason records.
Reasons == {"", "file", "engine", "mismatch", "rules", "constraint",
            "database"}
RulesSeen == Rules \cup {NoRules}
Verdict == [doc : RulesSeen, sow : RulesSeen \cup {Pending}]
Blank == [doc |-> NoRules, sow |-> Pending]
SummaryRow == [sub : Subs, ruleSet : RulesSeen, doc : RulesSeen,
               sow : RulesSeen, rowCount : Nat]
RuleSetRow == [digest : RulesSeen, counts : RulesSeen]
Work == [book : Books \cup {Missing}, doc : RulesSeen, sow : RulesSeen,
         counts : RulesSeen, digest : RulesSeen, fresh : BOOLEAN,
         status : Statuses, header : Nat, rowCount : Nat, why : Reasons]
NoWork == [book |-> Missing, doc |-> NoRules, sow |-> NoRules,
           counts |-> NoRules, digest |-> NoRules, fresh |-> FALSE,
           status |-> "ABSENT", header |-> 0, rowCount |-> 0, why |-> ""]
Codes == {"none", "ok", "notFound", "conflict", "rulesUnavailable", "failed",
          "downloadFailed", "error"}
Reply == [code : Codes, status : Statuses, summarised : BOOLEAN,
          book : Books \cup {Missing}]
NoReply == [code |-> "none", status |-> "ABSENT", summarised |-> FALSE,
            book |-> Missing]

ExtractPcs == {"insert", "markExtracted", "commitExtract"}
AutomatePcs == {"scope", "match", "update", "fingerprint", "digest",
                "register", "summarise", "markAutomated", "commitAutomate"}
ReadPcs == {"readSummary", "readCounts", "readRows"}
\* The steps of the workflow's own transaction, and those at which a request
\* holds a database connection.
Working == {"engine"} \cup ExtractPcs \cup AutomatePcs \cup ReadPcs
InTransaction == Working \cup {"markFailed"}
Pcs == {"idle", "load", "fail", "verify", "export"} \cup InTransaction

Init ==
    /\ status = [s \in Subs |-> "ABSENT"]
    /\ reason = [s \in Subs |-> ""]
    /\ header = [s \in Subs |-> 0]
    /\ source = [s \in Subs |-> Missing]
    /\ stored = [s \in Subs |-> {}]
    /\ verdict = [s \in Subs |-> [r \in SourceRows |-> Blank]]
    /\ summaries = {}
    /\ ruleSets = {}
    /\ file = [s \in Subs |-> Missing]
    /\ rulesFile \in RulesSeen
    /\ pc = [p \in Requests |-> "idle"]
    /\ op = [p \in Requests |-> "summary"]
    /\ target \in {[p \in Requests |-> s] : s \in Subs}
    /\ work = [p \in Requests |-> NoWork]
    /\ reply = [p \in Requests |-> NoReply]

----------------------------------------------------------------------------
(* What a transaction holds and what the database knows                    *)

Summarised(s) == \E m \in summaries : m.sub = s
Registered(d) == \E x \in ruleSets : x.digest = d
InFlight(p) == pc[p] # "idle"

FreeConnection ==
    Cardinality({q \in Requests : pc[q] \in InTransaction}) < PoolSize

\* Inserted mdr_document_rows, not committed, that a row of R would collide
\* with on unique(submission_id, source_row).
HoldsInserted(q, s, R) ==
    /\ pc[q] \in {"markExtracted", "commitExtract"}
    /\ target[q] = s
    /\ RowsOf[work[q].book] \cap R # {}

\* Row locks of an uncommitted UPDATE of the submission's document rows.
HoldsRows(q, s) ==
    /\ pc[q] \in {"fingerprint", "digest", "register", "summarise",
                  "markAutomated", "commitAutomate"}
    /\ target[q] = s
    /\ RowsOf[work[q].book] # {}

\* An inserted rule set, not committed, under this digest.
HoldsRuleSet(q, d) ==
    /\ pc[q] \in {"summarise", "markAutomated", "commitAutomate"}
    /\ work[q].fresh
    /\ work[q].digest = d

\* An inserted summary of the submission, not committed.
HoldsSummary(q, s) ==
    pc[q] \in {"markAutomated", "commitAutomate"} /\ target[q] = s

\* The row lock of an uncommitted UPDATE of mdr_submissions.
HoldsSubmission(q, s) ==
    pc[q] \in {"commitExtract", "commitAutomate"} /\ target[q] = s

SubmissionUnlocked(p) ==
    \A q \in Requests \ {p} : ~HoldsSubmission(q, target[p])

Goto(p, l) == pc' = [pc EXCEPT ![p] = l]

Answer(p, r) ==
    /\ Goto(p, "idle")
    /\ reply' = [reply EXCEPT ![p] = r]
    /\ work' = [work EXCEPT ![p] = NoWork]
    /\ UNCHANGED asked

Respond(p, code) == Answer(p, [NoReply EXCEPT !.code = code])

\* An exception that is not a WorkflowError.  Extract and automate go on to
\* record FAILED; the two reads report it and are done.
Raise(p, why) ==
    IF op[p] \in Writes
    THEN /\ Goto(p, "fail")
         /\ work' = [work EXCEPT ![p] = [NoWork EXCEPT !.why = why]]
         /\ UNCHANGED <<asked, reply>>
    ELSE Respond(p, "error")

----------------------------------------------------------------------------
(* The environment: uploads, the client, the disk, the rules directory     *)

\* upload_workbook as a whole: the file is stored, the submission row
\* committed at UPLOADED with the digest of the bytes received.
Upload(s) ==
    /\ status[s] = "ABSENT"
    /\ \E b \in Books :
          /\ file' = [file EXCEPT ![s] = b]
          /\ source' = [source EXCEPT ![s] = b]
    /\ status' = [status EXCEPT ![s] = "UPLOADED"]
    /\ UNCHANGED <<reason, header, stored, verdict, summaries, ruleSets,
                   rulesFile, pc, asked, work, reply>>

Send(p, o, s) ==
    /\ pc[p] = "idle"
    /\ Serial /\ o \in Writes =>
          \A q \in Requests \ {p} :
             InFlight(q) /\ op[q] \in Writes => target[q] # s
    /\ Goto(p, "load")
    /\ op' = [op EXCEPT ![p] = o]
    /\ target' = [target EXCEPT ![p] = s]
    /\ reply' = [reply EXCEPT ![p] = NoReply]
    /\ UNCHANGED <<database, files, work>>

Quiet == \A p \in Requests : ~InFlight(p)

ReplaceWorkbook(s) ==
    /\ "book" \in Disturbances \/ ("bookIdle" \in Disturbances /\ Quiet)
    /\ source[s] # Missing
    /\ \E b \in (Books \cup {Missing}) \ {file[s]} :
          file' = [file EXCEPT ![s] = b]
    /\ UNCHANGED <<database, rulesFile, pc, asked, work, reply>>

ReplaceRules ==
    /\ "rules" \in Disturbances \/ ("rulesIdle" \in Disturbances /\ Quiet)
    /\ \E r \in RulesSeen \ {rulesFile} : rulesFile' = r
    /\ UNCHANGED <<database, file, pc, asked, work, reply>>

\* The server restarts: open transactions roll back, nobody is answered.
Crash ==
    /\ "crash" \in Disturbances
    /\ ~Quiet
    /\ pc' = [p \in Requests |-> "idle"]
    /\ work' = [p \in Requests |-> NoWork]
    /\ UNCHANGED <<database, files, asked, reply>>

----------------------------------------------------------------------------
(* _require, _require_status, _plant_rules, _stored_workbook               *)

\* Mutant: a submission can be downloaded before it was automated.
ExpectedEarly == [extract |-> "UPLOADED", automate |-> "EXTRACTED",
                  download |-> "EXTRACTED"]

Expected == [extract |-> "UPLOADED", automate |-> "EXTRACTED",
             download |-> "AUTOMATED"]

\* session.get needs a pooled connection first.
Loading(p) == pc[p] = "load" /\ FreeConnection

\* Mutant: the status is not checked.
AcceptedAnyStatus(p) == status[target[p]] # "ABSENT"

Accepted(p) ==
    /\ status[target[p]] # "ABSENT"
    /\ op[p] # "summary" => status[target[p]] = Expected[op[p]]

\* A plant that selects a workbook is refused without it at either step;
\* with no selection extraction goes on without rules, automation does not.
RulesRefused(p) ==
    /\ rulesFile = NoRules
    /\ op[p] = "automate" \/ (op[p] = "extract" /\ PlantSelects)

NotFound(p) ==
    /\ Loading(p)
    /\ status[target[p]] = "ABSENT"
    /\ Respond(p, "notFound")
    /\ UNCHANGED <<database, files>>

\* Mutant: the refusal is caught like any failure of the step.
WrongStatusFails(p) ==
    /\ Loading(p)
    /\ status[target[p]] # "ABSENT"
    /\ ~Accepted(p)
    /\ Raise(p, "database")
    /\ UNCHANGED <<database, files>>

WrongStatus(p) ==
    /\ Loading(p)
    /\ status[target[p]] # "ABSENT"
    /\ ~Accepted(p)
    /\ Respond(p, "conflict")
    /\ UNCHANGED <<database, files>>

RulesUnavailable(p) ==
    /\ Loading(p)
    /\ Accepted(p)
    /\ RulesRefused(p)
    /\ Respond(p, "rulesUnavailable")
    /\ UNCHANGED <<database, files>>

\* _stored_workbook, for the two steps that run the engine.
WorkbookMissing(p) ==
    /\ Loading(p)
    /\ op[p] \in Writes
    /\ Accepted(p)
    /\ ~RulesRefused(p)
    /\ file[target[p]] = Missing
    /\ Raise(p, "file")
    /\ UNCHANGED <<database, files>>

Begin(p) ==
    /\ Loading(p)
    /\ Accepted(p)
    /\ ~RulesRefused(p)
    /\ op[p] \in Writes => file[target[p]] # Missing
    /\ \/ op[p] = "summary" /\ Goto(p, "readSummary")
       \/ op[p] = "download" /\ Goto(p, "readCounts")
       \/ op[p] \in Writes /\ Goto(p, "engine")
    /\ work' = [work EXCEPT ![p].status = status[target[p]],
                            ![p].header = header[target[p]]]
    /\ UNCHANGED <<database, files, asked, reply>>

\* Every connection is out and none came back within the pool's timeout.
PoolTimeout(p) ==
    /\ pc[p] = "load"
    /\ ~FreeConnection
    /\ Raise(p, "database")
    /\ UNCHANGED <<database, files>>

----------------------------------------------------------------------------
(* MdrEngine.run(): the workbook and the keyword rules are read            *)

Engine(p) ==
    /\ pc[p] = "engine"
    /\ file[target[p]] \in Processable
    /\ work' = [work EXCEPT ![p].book = file[target[p]],
                            ![p].doc = rulesFile]
    /\ Goto(p, IF op[p] = "extract" THEN "insert" ELSE "scope")
    /\ UNCHANGED <<database, files, asked, reply>>

EngineFails(p) ==
    /\ pc[p] = "engine"
    /\ file[target[p]] \notin Processable
    /\ Raise(p, "engine")
    /\ UNCHANGED <<database, files>>

----------------------------------------------------------------------------
(* extract_submission                                                      *)

\* Mutant: the rows are committed as they are inserted.
InsertRowsAtOnce(p) ==
    LET s == target[p]
        R == RowsOf[work[p].book]
    IN  /\ pc[p] = "insert"
        /\ stored[s] \cap R = {}
        /\ stored' = [stored EXCEPT ![s] = @ \cup R]
        /\ Goto(p, "markExtracted")
        /\ UNCHANGED <<status, reason, header, source, verdict, summaries,
                       ruleSets, files, asked, work, reply>>

\* Mutant: rows that are there already are overwritten.
InsertRowsAgain(p) ==
    /\ pc[p] = "insert"
    /\ Goto(p, "markExtracted")
    /\ UNCHANGED <<database, files, asked, work, reply>>

\* add_rows.  The unique index makes the INSERT wait for an uncommitted row
\* with the same key before it succeeds or fails.
InsertRows(p) ==
    /\ pc[p] = "insert"
    /\ \A q \in Requests \ {p} :
          ~HoldsInserted(q, target[p], RowsOf[work[p].book])
    /\ IF stored[target[p]] \cap RowsOf[work[p].book] = {}
       THEN Goto(p, "markExtracted") /\ UNCHANGED <<asked, work, reply>>
       ELSE Raise(p, "constraint")
    /\ UNCHANGED <<database, files>>

\* mark_extracted: the UPDATE names the submission, not the status it had.
MarkExtracted(p) ==
    /\ pc[p] = "markExtracted"
    /\ SubmissionUnlocked(p)
    /\ Goto(p, "commitExtract")
    /\ UNCHANGED <<database, files, asked, work, reply>>

\* What the transaction makes visible when it commits.
PublishExtract(p) ==
    LET s == target[p]
        R == RowsOf[work[p].book]
        row == [doc |-> work[p].doc, sow |-> Pending]
    IN  /\ pc[p] = "commitExtract"
        /\ status' = [status EXCEPT ![s] = "EXTRACTED"]
        /\ header' = [header EXCEPT ![s] = HeaderOf[work[p].book]]
        /\ stored' = [stored EXCEPT ![s] = @ \cup R]
        /\ verdict' = [verdict EXCEPT ![s] =
                         [r \in SourceRows |-> IF r \in R THEN row ELSE @[r]]]
        /\ UNCHANGED <<reason, source, summaries, ruleSets, files>>

CommitExtract(p) == PublishExtract(p) /\ Respond(p, "ok")

----------------------------------------------------------------------------
(* automate_submission                                                     *)

\* run_automation builds the SOW and IDB resolvers from a second reading of
\* the rules workbook.
Scope(p) ==
    /\ pc[p] = "scope"
    /\ work' = [work EXCEPT ![p].sow = rulesFile]
    /\ Goto(p, "match")
    /\ UNCHANGED <<database, files, asked, reply>>

\* source_rows_for: the engine's rows against those extraction stored.
Match(p) ==
    /\ pc[p] = "match"
    /\ IF stored[target[p]] = RowsOf[work[p].book]
       THEN Goto(p, "update") /\ UNCHANGED <<asked, work, reply>>
       ELSE Raise(p, "mismatch")
    /\ UNCHANGED <<database, files>>

\* update_automation, and the comparison of its row count.
UpdateRows(p) ==
    /\ pc[p] = "update"
    /\ RowsOf[work[p].book] # {} =>
          \A q \in Requests \ {p} : ~HoldsRows(q, target[p])
    /\ IF RowsOf[work[p].book] \subseteq stored[target[p]]
       THEN Goto(p, "fingerprint") /\ UNCHANGED <<asked, work, reply>>
       ELSE Raise(p, "mismatch")
    /\ UNCHANGED <<database, files>>

\* fingerprint_rules_workbook, first the rule counts ...
Fingerprint(p) ==
    /\ pc[p] = "fingerprint"
    /\ IF rulesFile # NoRules
       THEN /\ work' = [work EXCEPT ![p].counts = rulesFile]
            /\ Goto(p, "digest")
            /\ UNCHANGED <<asked, reply>>
       ELSE Raise(p, "rules")
    /\ UNCHANGED <<database, files>>

\* Mutant: the rule set is not registered.
DigestUnregistered(p) ==
    /\ pc[p] = "digest"
    /\ rulesFile # NoRules
    /\ work' = [work EXCEPT ![p].digest = rulesFile]
    /\ Goto(p, "summarise")
    /\ UNCHANGED <<database, files, asked, reply>>

\* Mutant: a rule set that is known is taken to be the current one, as if it
\* were looked up by file name.
DigestByName(p) ==
    /\ pc[p] = "digest"
    /\ rulesFile # NoRules
    /\ \/ /\ \E x \in ruleSets : work' = [work EXCEPT ![p].digest = x.digest]
          /\ Goto(p, "summarise")
       \/ /\ ruleSets = {}
          /\ work' = [work EXCEPT ![p].digest = rulesFile]
          /\ Goto(p, "register")
    /\ UNCHANGED <<database, files, asked, reply>>

\* ... then file_digest, from another reading; by_digest finds the rule set.
Digest(p) ==
    /\ pc[p] = "digest"
    /\ IF rulesFile # NoRules
       THEN /\ work' = [work EXCEPT ![p].digest = rulesFile]
            /\ Goto(p, IF Registered(rulesFile) THEN "summarise"
                                                ELSE "register")
            /\ UNCHANGED <<asked, reply>>
       ELSE Raise(p, "rules")
    /\ UNCHANGED <<database, files>>

\* Mutant: the insert is retried until the digest is free.
RegisterRetries(p) ==
    /\ pc[p] = "register"
    /\ ~Registered(work[p].digest)
    /\ \A q \in Requests \ {p} : ~HoldsRuleSet(q, work[p].digest)
    /\ work' = [work EXCEPT ![p].fresh = TRUE]
    /\ Goto(p, "summarise")
    /\ UNCHANGED <<database, files, asked, reply>>

\* RuleSetRepository.add: content_sha256 is unique.
Register(p) ==
    /\ pc[p] = "register"
    /\ \A q \in Requests \ {p} : ~HoldsRuleSet(q, work[p].digest)
    /\ IF ~Registered(work[p].digest)
       THEN /\ work' = [work EXCEPT ![p].fresh = TRUE]
            /\ Goto(p, "summarise")
            /\ UNCHANGED <<asked, reply>>
       ELSE Raise(p, "constraint")
    /\ UNCHANGED <<database, files>>

\* Mutant: a submission may have several summaries.
SummariseAgain(p) ==
    /\ pc[p] = "summarise"
    /\ Goto(p, "markAutomated")
    /\ UNCHANGED <<database, files, asked, work, reply>>

\* ProcessingSummaryRepository.add: submission_id is unique.
Summarise(p) ==
    /\ pc[p] = "summarise"
    /\ \A q \in Requests \ {p} : ~HoldsSummary(q, target[p])
    /\ IF ~Summarised(target[p])
       THEN Goto(p, "markAutomated") /\ UNCHANGED <<asked, work, reply>>
       ELSE Raise(p, "constraint")
    /\ UNCHANGED <<database, files>>

\* Mutant: the status is committed before the summary.
MarkAutomatedAtOnce(p) ==
    /\ pc[p] = "markAutomated"
    /\ status' = [status EXCEPT ![target[p]] = "AUTOMATED"]
    /\ Goto(p, "commitAutomate")
    /\ UNCHANGED <<reason, header, source, stored, verdict, summaries,
                   ruleSets, files, asked, work, reply>>

MarkAutomated(p) ==
    /\ pc[p] = "markAutomated"
    /\ SubmissionUnlocked(p)
    /\ Goto(p, "commitAutomate")
    /\ UNCHANGED <<database, files, asked, work, reply>>

PublishAutomate(p) ==
    LET s == target[p]
        w == work[p]
        row == [doc |-> w.doc, sow |-> w.sow]
    IN  /\ pc[p] = "commitAutomate"
        /\ status' = [status EXCEPT ![s] = "AUTOMATED"]
        /\ verdict' = [verdict EXCEPT ![s] =
              [r \in SourceRows |-> IF r \in RowsOf[w.book] THEN row
                                                            ELSE @[r]]]
        /\ ruleSets' = ruleSets \cup
              (IF w.fresh THEN {[digest |-> w.digest, counts |-> w.counts]}
                          ELSE {})
        /\ summaries' = summaries \cup
              {[sub |-> s, ruleSet |-> w.digest, doc |-> w.doc,
                sow |-> w.sow, rowCount |-> Cardinality(RowsOf[w.book])]}
        /\ UNCHANGED <<reason, header, source, stored, files>>

CommitAutomate(p) == PublishAutomate(p) /\ Respond(p, "ok")

----------------------------------------------------------------------------
(* Failure: errors of the database, and _mark_failed                       *)

LoadError(p) ==
    /\ "loadError" \in Disturbances
    /\ Loading(p)
    /\ Raise(p, "database")
    /\ UNCHANGED <<database, files>>

StepError(p) ==
    /\ "stepError" \in Disturbances
    /\ pc[p] \in Working
    /\ Raise(p, "database")
    /\ UNCHANGED <<database, files>>

\* COMMIT took effect but the session saw the connection die.
CommitLost(p) ==
    /\ "commitLost" \in Disturbances
    /\ PublishExtract(p) \/ PublishAutomate(p)
    /\ Raise(p, "database")

\* _mark_failed, in a transaction of its own: the submission is loaded ...
LoadToFail(p) ==
    /\ pc[p] = "fail"
    /\ FreeConnection
    /\ IF status[target[p]] = "ABSENT"
       THEN Respond(p, "failed")
       ELSE /\ Goto(p, "markFailed")
            /\ work' = [work EXCEPT ![p].status = status[target[p]]]
            /\ UNCHANGED <<asked, reply>>
    /\ UNCHANGED <<database, files>>

\* Mutant: status and reason change places.
MarkFailedSwapped(p) ==
    /\ pc[p] = "markFailed"
    /\ status' = [status EXCEPT ![target[p]] = work[p].why]
    /\ reason' = [reason EXCEPT ![target[p]] = "database"]
    /\ Respond(p, "failed")
    /\ UNCHANGED <<header, source, stored, verdict, summaries, ruleSets, files>>

\* Mutant: only the reason is written.
MarkFailedReasonOnly(p) ==
    /\ pc[p] = "markFailed"
    /\ reason' = [reason EXCEPT ![target[p]] = work[p].why]
    /\ Respond(p, "failed")
    /\ UNCHANGED <<status, header, source, stored, verdict, summaries,
                   ruleSets, files>>

\* ... and mark_failed overwrites whatever status it has by then, unless the
\* one that was loaded is FAILED already and only the reason changes.
MarkFailed(p) ==
    LET s == target[p]
    IN  /\ pc[p] = "markFailed"
        /\ SubmissionUnlocked(p)
        /\ status' = [status EXCEPT ![s] =
                        IF work[p].status = "FAILED" THEN @ ELSE "FAILED"]
        /\ reason' = [reason EXCEPT ![s] = work[p].why]
        /\ Respond(p, "failed")
        /\ UNCHANGED <<header, source, stored, verdict, summaries, ruleSets,
                       files>>

\* It could not: logged, and the original error is answered all the same.
MarkFailedLost(p) ==
    /\ \/ pc[p] = "fail" /\ ~FreeConnection
       \/ pc[p] \in {"fail", "markFailed"} /\ "markLost" \in Disturbances
    /\ Respond(p, "failed")
    /\ UNCHANGED <<database, files>>

----------------------------------------------------------------------------
(* summarise_submission and download_submission: reads                     *)

\* The summary row is looked up after the submission was loaded.
ReadSummary(p) ==
    /\ pc[p] = "readSummary"
    /\ Answer(p, [NoReply EXCEPT !.code = "ok",
                                 !.status = work[p].status,
                                 !.summarised = Summarised(target[p])])
    /\ UNCHANGED <<database, files>>

\* _persisted_automation_rows needs the summary, which it looks up first, and
\* the header row of the submission it was given ...
CountsFound(p) == Summarised(target[p]) /\ work[p].header # 0

ReadCounts(p) ==
    /\ pc[p] = "readCounts"
    /\ CountsFound(p)
    /\ \E m \in summaries :
          /\ m.sub = target[p]
          /\ work' = [work EXCEPT ![p].rowCount = m.rowCount,
                                  ![p].doc = m.doc,
                                  ![p].sow = m.sow]
    /\ Goto(p, "readRows")
    /\ UNCHANGED <<database, files, asked, reply>>

\* ... and then the rows: as many as the summary counted, all of them below
\* that header row.
RowsAsRecorded(p) ==
    /\ Cardinality(stored[target[p]]) = work[p].rowCount
    /\ \A r \in stored[target[p]] : work[p].header < r

\* The populated counters can only disagree when the automation columns are
\* not those the summary counted.
VerdictsAsCounted(p) ==
    \A r \in stored[target[p]] :
       verdict[target[p]][r] = [doc |-> work[p].doc, sow |-> work[p].sow]

ReadRows(p) ==
    /\ pc[p] = "readRows"
    /\ stored[target[p]] # {}
    /\ RowsAsRecorded(p)
    /\ Goto(p, "verify")
    /\ UNCHANGED <<database, files, asked, work, reply>>

RefuseResult(p) ==
    /\ \/ pc[p] = "readCounts" /\ ~CountsFound(p)
       \/ /\ pc[p] = "readRows"
          /\ \/ stored[target[p]] = {}
             \/ ~RowsAsRecorded(p)
             \/ ~VerdictsAsCounted(p)
    /\ Respond(p, "downloadFailed")
    /\ UNCHANGED <<database, files>>

\* The stored upload must still have the digest recorded for it.
Verify(p) ==
    /\ pc[p] = "verify"
    /\ IF file[target[p]] # Missing /\ file[target[p]] = source[target[p]]
       THEN Goto(p, "export") /\ UNCHANGED <<asked, work, reply>>
       ELSE Respond(p, "downloadFailed")
    /\ UNCHANGED <<database, files>>

\* export_automated_workbook opens the file again; _check_written compares
\* the header row and the sheet it found.  On which sheet a content carries
\* its documents is left open: two contents with one header row may differ in
\* it.  Rows above the header were refused before, so none falls outside.
Export(p) ==
    LET b == file[target[p]]
        SameHeader(c) == HeaderOf[c] = work[p].header
    IN  /\ pc[p] = "export"
        /\ \/ /\ b \in Processable /\ SameHeader(b)
              /\ Answer(p, [NoReply EXCEPT !.code = "ok", !.book = b])
           \/ /\ \/ b \notin Processable
                 \/ ~SameHeader(b)
                 \/ \E c \in Books \ {b} : SameHeader(c)
              /\ Respond(p, "downloadFailed")
        /\ UNCHANGED <<database, files>>

----------------------------------------------------------------------------

\* What a request does when nothing interferes.
Advance(p) ==
    \/ NotFound(p) \/ WrongStatus(p) \/ RulesUnavailable(p)
    \/ WorkbookMissing(p) \/ Begin(p) \/ PoolTimeout(p)
    \/ Engine(p) \/ EngineFails(p)
    \/ InsertRows(p) \/ MarkExtracted(p) \/ CommitExtract(p)
    \/ Scope(p) \/ Match(p) \/ UpdateRows(p) \/ Fingerprint(p) \/ Digest(p)
    \/ Register(p) \/ Summarise(p) \/ MarkAutomated(p) \/ CommitAutomate(p)
    \/ LoadToFail(p) \/ MarkFailed(p) \/ MarkFailedLost(p)
    \/ ReadSummary(p) \/ ReadCounts(p) \/ ReadRows(p)
    \/ RefuseResult(p) \/ Verify(p) \/ Export(p)

Interfere(p) == LoadError(p) \/ StepError(p) \/ CommitLost(p)

Next ==
    \/ \E s \in Subs : Upload(s) \/ ReplaceWorkbook(s)
    \/ \E p \in Requests, o \in Ops, s \in Subs : Send(p, o, s)
    \/ \E p \in Requests : Advance(p) \/ Interfere(p)
    \/ ReplaceRules
    \/ Crash

\* Every request runs on a thread of its own and the pool answers or times
\* out.  A step that waits for a lock is enabled only now and then; strong
\* fairness because PostgreSQL queues waiters in order, so that nobody is
\* overtaken for ever.
Fairness == \A p \in Requests : SF_vars(Advance(p))

Spec == Init /\ [][Next]_vars

FairSpec == Spec /\ Fairness

----------------------------------------------------------------------------
(* Properties                                                              *)

TypeOK ==
    /\ status \in [Subs -> Statuses]
    /\ reason \in [Subs -> Reasons]
    /\ header \in [Subs -> Nat]
    /\ source \in [Subs -> Books \cup {Missing}]
    /\ stored \in [Subs -> SUBSET SourceRows]
    /\ verdict \in [Subs -> [SourceRows -> Verdict]]
    /\ summaries \subseteq SummaryRow
    /\ ruleSets \subseteq RuleSetRow
    /\ file \in [Subs -> Books \cup {Missing}]
    /\ rulesFile \in RulesSeen
    /\ pc \in [Requests -> Pcs]
    /\ op \in [Requests -> Ops]
    /\ target \in [Requests -> Subs]
    /\ work \in [Requests -> Work]
    /\ reply \in [Requests -> Reply]

\* Every summary ever stored describes the document rows beside it: as many
\* as it counts, each carrying the verdicts of the run that was counted.  It
\* is what _persisted_automation_rows checks before it hands out a workbook,
\* and it must hold however automate requests overlap, because the rows are
\* updated long before the summary is inserted.
SummaryDescribesRows ==
    \A m \in summaries :
       /\ Cardinality(stored[m.sub]) = m.rowCount
       /\ \A r \in stored[m.sub] :
             verdict[m.sub][r] = [doc |-> m.doc, sow |-> m.sow]

\* A submission is never AUTOMATED with its summary missing or the rule set
\* of that summary unregistered, and what an EXTRACTED or AUTOMATED one holds,
\* rows and header row, was found in one workbook (API_CONTRACT.md, lines
\* 97-101).
StatusIsBacked ==
    \A s \in Subs :
       /\ status[s] \in {"EXTRACTED", "AUTOMATED"} =>
             \E b \in Books : /\ stored[s] = RowsOf[b]
                              /\ header[s] = HeaderOf[b]
       /\ status[s] = "AUTOMATED" =>
             \E m \in summaries : m.sub = s /\ Registered(m.ruleSet)

\* An upload nobody extracted is bare: no row, no summary, no failure reason,
\* whatever failed, crashed or lost its commit on the way
\* (workflow_service.py, "no rows or summary survive without the status").
UploadedIsBare ==
    \A s \in Subs :
       status[s] = "UPLOADED" =>
          /\ stored[s] = {}
          /\ ~Summarised(s)
          /\ header[s] = 0
          /\ reason[s] = ""

\* GET summary never reports AUTOMATED without the counts: the status is
\* read first, the summary in a later statement.
SummaryNeverHollow ==
    \A p \in Requests :
       op[p] = "summary" /\ reply[p].status = "AUTOMATED" =>
          reply[p].summarised

\* A download that found AUTOMATED finds all of the result, although status,
\* summary and rows are read one after the other while other requests commit:
\* the summary is there, and the rows read after it are those it counted, with
\* the verdicts it counted, below the header row read before it.  What is left
\* to refuse is a workbook without document rows (_persisted_automation_rows).
DownloadFindsResultWhole ==
    \A p \in Requests :
       /\ pc[p] = "readCounts" => CountsFound(p)
       /\ pc[p] = "readRows" => RowsAsRecorded(p) /\ VerdictsAsCounted(p)

\* Once AUTOMATED, a submission can only become FAILED; no late request sets
\* it back to EXTRACTED.
NeverSetBack ==
    [][\A s \in Subs : status[s] = "AUTOMATED" =>
                          status'[s] \in {"AUTOMATED", "FAILED"}]_vars

\* A client that was told its submission is automated finds it AUTOMATED from
\* then on, which is what summary and download ask for: no failure of a call
\* made later takes that back.
AcknowledgedResultStands ==
    \A p \in Requests :
       op[p] = "automate" /\ reply[p].code = "ok" =>
          status[target[p]] = "AUTOMATED"

\* failure_reason is populated only when the status is FAILED
\* (persistence/models.py).
ReasonOnlyWhenFailed ==
    \A s \in Subs : reason[s] # "" <=> status[s] = "FAILED"

\* The status checks keep the unique constraints from ever being tested
\* (workflow_service.py, State): no request fails on one.
ConstraintsNeverTested ==
    \A p \in Requests : work[p].why # "constraint"

\* Where the rules change between requests only, the rule set a result points
\* at is the one that ran, with the counts the engine loaded
\* (rule_set_service.py, fingerprint_rules_workbook).
RecordedRulesRan ==
    \A m \in summaries :
       /\ m.doc = m.ruleSet
       /\ m.sow = m.ruleSet
       /\ \A x \in ruleSets : x.digest = m.ruleSet => x.counts = m.ruleSet

\* Every request is answered: no transaction waits for a lock that is never
\* released, none waits for a connection for ever.
EveryRequestAnswered ==
    \A p \in Requests : InFlight(p) ~> ~InFlight(p)

\* With one extract or automate in flight per submission the workflow keeps
\* the promise of SubmissionLifecycle.
Lifecycle == INSTANCE SubmissionLifecycle
                WITH summarised <- [s \in Subs |-> Summarised(s)]
LifecycleSpec == Lifecycle!Spec
============================================================================
