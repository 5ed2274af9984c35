---------------------------- MODULE AutomatePage ----------------------------
(***************************************************************************)
(* frontend/src/pages/AutomatePage.tsx against the backend: the screen the *)
(* employee sees, the asynchronous calls that drive it, and requests whose *)
(* answers arrive late, get lost, or find another screen than the one they *)
(* were sent from.                                                         *)
(*                                                                         *)
(* A run is one call of runAutomation, named by the submission its upload  *)
(* creates.  It sends one request at a time and sets the screen with each  *)
(* answer; nothing cancels it, and nothing ties it to the screen but what  *)
(* its closure captured.  The same holds for what the complete screen      *)
(* sends: a summary retried, a workbook downloaded.  The backend is        *)
(* SubmissionLifecycle: a request that reached it is handled even when the *)
(* page no longer waits for it.                                            *)
(***************************************************************************)
EXTENDS FiniteSets

CONSTANTS
    Files,          \* what the employee can pick
    Supported,      \* the ones named .xlsx or .xlsm
    Runs,           \* calls of runAutomation, and their submissions
    NoRun,          \* the screen knows no submission
    NoFile,         \* the screen has no file
    Reads,          \* summary retries and downloads, as many as may be in flight
    SourceRows      \* row numbers of the QatarEnergy-TN sheet

ASSUME PageAssumption ==
    /\ Supported \subseteq Files
    /\ NoRun \notin Runs
    /\ NoFile \notin Files
    /\ Runs \cap Reads = {}

VARIABLES
    plants,         \* the registered plants: loading, listed, or none to be had
    screen,         \* the UploadScreen
    card,           \* downloadState of the ResultCard: its download, or none
    file,           \* run: the file it was called with
    call,           \* run: the request it awaits
    answer,         \* run: what has arrived for it
    read,           \* summary retries and downloads: what each captured and got
    atServer,       \* requests the backend has not handled yet
    status,         \* the backend: mdr_submissions.status
    stored,         \* ... the source rows of a submission
    summarised      \* ... whether it has a processing summary

Backend == INSTANCE SubmissionLifecycle WITH Subs <- Runs

backend == <<status, stored, summarised>>
run     == <<file, call, answer>>
vars    == <<plants, screen, card, run, read, atServer, backend>>

Steps == {"upload", "extract", "automate"}
Requested == Steps \cup {"summary"}
\* Who sent it, and what it is about.
Request == [from : Runs \cup Reads, run : Runs, op : Requested \cup {"download"}]
Stages == {"uploading", "extracting", "automating"}
Kinds == {"ready", "selected", "invalid", "processing", "complete", "failed"}
Screen == [kind : Kinds, file : Files \cup {NoFile}, mdr : Runs \cup {NoRun},
           stage : Stages \cup {""}, done : BOOLEAN, summary : BOOLEAN]

Blank(kind) == [kind |-> kind, file |-> NoFile, mdr |-> NoRun, stage |-> "",
                done |-> FALSE, summary |-> FALSE]
Selected(f) == [Blank("selected") EXCEPT !.file = f]
Failed(f) == [Blank("failed") EXCEPT !.file = f]
Processing(f, m, stage, done) ==
    [Blank("processing") EXCEPT !.file = f, !.mdr = m, !.stage = stage,
                                !.done = done]
\* Mutant: file and submission swapped.
CompleteSwapped(f, m, summary) ==
    [Blank("complete") EXCEPT !.file = m, !.mdr = f, !.summary = summary]

\* With the summary, or with the message that it could not be loaded.
Complete(f, m, summary) ==
    [Blank("complete") EXCEPT !.file = f, !.mdr = m, !.summary = summary]

NoRead == [op |-> "none", file |-> NoFile, mdr |-> NoRun, answer |-> "pending"]
Read == [op : {"none", "summary", "download"}, file : Files \cup {NoFile},
         mdr : Runs \cup {NoRun}, answer : {"pending", "ok", "error"}]

Init ==
    /\ plants = "loading"
    /\ screen = Blank("ready")
    /\ card = "idle"
    /\ file = [r \in Runs |-> NoFile]
    /\ call = [r \in Runs |-> "none"]
    /\ answer = [r \in Runs |-> "pending"]
    /\ read = [t \in Reads |-> NoRead]
    /\ atServer = {}
    /\ Backend!Init

----------------------------------------------------------------------------
(* setScreen, and the panel's body keyed by the kind of screen: a card     *)
(* keeps its download state only from one complete screen to the next.     *)
Show(s) ==
    /\ screen' = s
    /\ card' = IF s.kind = screen.kind THEN card ELSE "idle"

PlantsAnswer ==
    /\ plants = "loading"
    /\ plants' \in {"listed", "none"}
    /\ UNCHANGED <<screen, card, run, read, atServer, backend>>

SelectFile(f) ==
    /\ screen.kind = "ready"
    /\ Show(IF f \in Supported THEN Selected(f) ELSE Blank("invalid"))
    /\ UNCHANGED <<plants, run, read, atServer, backend>>

ChangeWorkbook ==
    /\ screen.kind \in {"selected", "invalid", "complete", "failed"}
    /\ Show(Blank("ready"))
    /\ UNCHANGED <<plants, run, read, atServer, backend>>

Send(r, op) ==
    /\ call' = [call EXCEPT ![r] = op]
    /\ answer' = [answer EXCEPT ![r] = "pending"]
    /\ atServer' = atServer \cup {[from |-> r, run |-> r, op |-> op]}

(* runAutomation up to its first await.  Without a plant it would fail at  *)
(* once; RailIsTruthful has why it never is without one.                   *)
StartRun(r) ==
    /\ call[r] = "none"
    /\ file' = [file EXCEPT ![r] = screen.file]
    /\ Show(Processing(screen.file, NoRun, "uploading", FALSE))
    /\ Send(r, "upload")
    /\ UNCHANGED <<plants, read, backend>>

RunAutomation(r) ==
    /\ screen.kind = "selected"
    /\ plants = "listed"
    /\ StartRun(r)

\* A run returns.
End(r) ==
    /\ call' = [call EXCEPT ![r] = "over"]
    /\ answer' = [answer EXCEPT ![r] = "pending"]

\* Mutant: it goes on with the submission the failed run created.
RetryRunResumes(r) ==
    /\ screen.kind = "failed"
    /\ call[r] = "over"
    /\ file[r] = screen.file
    /\ Show(Processing(screen.file, r, "extracting", FALSE))
    /\ Send(r, "extract")
    /\ UNCHANGED <<plants, file, read, backend>>

RetryRun(r) ==
    /\ screen.kind = "failed"
    /\ StartRun(r)

\* Mutant: the rail moves to the next step before its await.
ContinueEarly(r) ==
    /\ answer[r] = "ok"
    /\ \/ /\ call[r] = "upload"
          /\ Show(Processing(file[r], r, "automating", FALSE))
          /\ Send(r, "extract")
       \/ /\ call[r] = "extract"
          /\ Show(Processing(file[r], r, "automating", TRUE))
          /\ Send(r, "automate")
       \/ /\ call[r] = "automate"
          /\ Show(Processing(file[r], r, "automating", TRUE))
          /\ Send(r, "summary")
       \/ /\ call[r] = "summary"
          /\ Show(Complete(file[r], r, TRUE))
          /\ End(r)
          /\ UNCHANGED atServer
    /\ UNCHANGED <<plants, file, read, backend>>

\* The answer of an await that succeeded: the next screen, the next request.
Continue(r) ==
    /\ answer[r] = "ok"
    /\ \/ /\ call[r] = "upload"
          /\ Show(Processing(file[r], r, "extracting", FALSE))
          /\ Send(r, "extract")
       \/ /\ call[r] = "extract"
          /\ Show(Processing(file[r], r, "automating", FALSE))
          /\ Send(r, "automate")
       \/ /\ call[r] = "automate"
          /\ Show(Processing(file[r], r, "automating", TRUE))
          /\ Send(r, "summary")
       \/ /\ call[r] = "summary"
          /\ Show(Complete(file[r], r, TRUE))
          /\ End(r)
          /\ UNCHANGED atServer
    /\ UNCHANGED <<plants, file, read, backend>>

\* The two catch clauses: only the inner one is about the summary.
Catch(r) ==
    /\ answer[r] = "error"
    /\ call[r] \in Requested
    /\ Show(IF call[r] = "summary" THEN Complete(file[r], r, FALSE)
                                   ELSE Failed(file[r]))
    /\ End(r)
    /\ UNCHANGED <<plants, file, read, atServer, backend>>

\* What the complete screen asks for, under a name not in use.
Ask(t, op) ==
    /\ screen.kind = "complete"
    /\ read[t].op = "none"
    /\ \A q \in atServer : q.from # t
    /\ read' = [read EXCEPT ![t] = [op |-> op, file |-> screen.file,
                                   mdr |-> screen.mdr, answer |-> "pending"]]
    /\ atServer' = atServer \cup {[from |-> t, run |-> screen.mdr, op |-> op]}

RetrySummary(t) ==
    /\ ~ screen.summary
    /\ Ask(t, "summary")
    /\ UNCHANGED <<plants, screen, card, run, backend>>

\* An answer has arrived for a read of this kind, which is over.
Answered(t, op) ==
    /\ read[t].op = op
    /\ read[t].answer # "pending"
    /\ read' = [read EXCEPT ![t] = NoRead]

\* Mutant: it spreads the screen it finds.
RetryAnsweredInto(t) ==
    /\ Answered(t, "summary")
    /\ Show(Complete(screen.file, screen.mdr, read[t].answer = "ok"))
    /\ UNCHANGED <<plants, run, atServer, backend>>

\* Its then and catch, whatever the screen has become.
RetryAnswered(t) ==
    /\ Answered(t, "summary")
    /\ Show(Complete(read[t].file, read[t].mdr, read[t].answer = "ok"))
    /\ UNCHANGED <<plants, run, atServer, backend>>

\* One at a time for each card; a card that is gone leaves its download behind.
Download(t) ==
    /\ card \notin Reads
    /\ Ask(t, "download")
    /\ card' = t
    /\ UNCHANGED <<plants, screen, run, backend>>

DownloadAnswered(t) ==
    /\ Answered(t, "download")
    /\ card' = CASE card # t -> card
                 [] read[t].answer = "ok" -> "idle"
                 [] OTHER -> "error"
    /\ UNCHANGED <<plants, screen, run, atServer, backend>>

(* The page is loaded anew: its calls are gone, their requests are not.    *)
Reload ==
    /\ plants' = "loading"
    /\ screen' = Blank("ready")
    /\ card' = "idle"
    /\ call' = [r \in Runs |-> IF call[r] = "none" THEN "none" ELSE "over"]
    /\ answer' = [r \in Runs |-> "pending"]
    /\ read' = [t \in Reads |-> NoRead]
    /\ UNCHANGED <<file, atServer, backend>>

----------------------------------------------------------------------------
(* The backend and the network.                                            *)

\* An answer matters to the run or read that still waits for this request.
Answer(q, a) ==
    /\ answer' = IF /\ q.from \in Runs
                    /\ call[q.from] = q.op /\ answer[q.from] = "pending"
                 THEN [answer EXCEPT ![q.from] = a] ELSE answer
    /\ read' = IF /\ q.from \in Reads
                  /\ read[q.from].op = q.op /\ read[q.from].answer = "pending"
               THEN [read EXCEPT ![q.from].answer = a] ELSE read

\* The handler of a request succeeds (GET summary does for any submission
\* there is; without a summary its counts are null) ...
Handle(q) ==
    \/ q.op = "upload" /\ Backend!Create(q.run)
    \/ q.op = "extract" /\ Backend!Extract(q.run)
    \/ q.op = "automate" /\ Backend!Automate(q.run)
    \/ /\ q.op = "summary" /\ status[q.run] # "ABSENT"
       /\ UNCHANGED backend
    \/ /\ q.op = "download" /\ status[q.run] = "AUTOMATED"
       /\ UNCHANGED backend

\* ... or fails, and a failed extract or automate marks the submission.
Refuse(q) ==
    \/ q.op \in {"extract", "automate"} /\ Backend!Fail(q.run)
    \/ UNCHANGED backend

Serve(q) ==
    /\ q \in atServer
    /\ atServer' = atServer \ {q}
    /\ \/ Handle(q) /\ Answer(q, "ok")
       \/ Refuse(q) /\ Answer(q, "error")
    /\ UNCHANGED <<plants, screen, card, file, call>>

\* What a run or read has at the backend.
From(x) == {q \in atServer : q.from = x}

\* Mutant: the broken connection is not noticed.
LoseSilently(r) ==
    /\ call[r] \in Requested
    /\ answer[r] = "pending"
    /\ atServer' = atServer \ From(r)
    /\ UNCHANGED <<plants, screen, card, run, read, backend>>

\* The connection breaks: fetch rejects, whether or not the request arrived.
Lose(r) ==
    /\ call[r] \in Requested
    /\ answer[r] = "pending"
    /\ answer' = [answer EXCEPT ![r] = "error"]
    /\ atServer' \in {atServer, atServer \ From(r)}
    /\ UNCHANGED <<plants, screen, card, file, call, read, backend>>

LoseRead(t) ==
    /\ read[t].op # "none"
    /\ read[t].answer = "pending"
    /\ read' = [read EXCEPT ![t].answer = "error"]
    /\ atServer' \in {atServer, atServer \ From(t)}
    /\ UNCHANGED <<plants, screen, card, run, backend>>

Next ==
    \/ PlantsAnswer
    \/ \E f \in Files : SelectFile(f)
    \/ ChangeWorkbook
    \/ \E r \in Runs : \/ RunAutomation(r) \/ RetryRun(r)
                       \/ Continue(r) \/ Catch(r) \/ Lose(r)
    \/ \E t \in Reads : \/ RetrySummary(t) \/ RetryAnswered(t)
                        \/ Download(t) \/ DownloadAnswered(t)
                        \/ LoseRead(t)
    \/ Reload
    \/ \E q \in atServer : Serve(q)

Spec == Init /\ [][Next]_vars

(* The event loop runs the continuation of an answer that has arrived, and *)
(* every request is answered (EveryRequestAnswered of SubmissionWorkflow)  *)
(* unless its connection breaks.  Nobody has to press a button.            *)
Fairness ==
    /\ \A r \in Runs : WF_vars(Continue(r) \/ Catch(r))
    /\ \A t \in Reads : WF_vars(RetryAnswered(t) \/ DownloadAnswered(t))
    /\ \A x \in Runs \cup Reads : WF_vars(\E q \in From(x) : Serve(q))

FairSpec == Spec /\ Fairness

----------------------------------------------------------------------------
TypeOK ==
    /\ plants \in {"loading", "listed", "none"}
    /\ screen \in Screen
    /\ card \in Reads \cup {"idle", "error"}
    /\ file \in [Runs -> Files \cup {NoFile}]
    /\ call \in [Runs -> Requested \cup {"none", "over"}]
    /\ answer \in [Runs -> {"pending", "ok", "error"}]
    /\ read \in [Reads -> Read]
    /\ atServer \subseteq Request
    /\ Backend!TypeOK

\* "Automation complete" is shown for a submission that is AUTOMATED, under
\* the name of the file it was uploaded from, and with a summary only if it
\* has one - also when a summary retried on an earlier screen arrives now
\* (AutomatePage.tsx, handleRetrySummary; ResultCard.tsx:2, "shown once
\* POST .../automate has actually succeeded"; the card reads row_count of
\* whatever summary it is given).
CompleteIsAutomated ==
    screen.kind = "complete" =>
        /\ screen.mdr \in Runs
        /\ status[screen.mdr] = "AUTOMATED"
        /\ file[screen.mdr] = screen.file
        /\ screen.summary => summarised[screen.mdr]

\* Whatever answers were lost, and however many runs are under way, the
\* process rail shows a run that is where the rail says: it waits for that
\* step's request, the backend has finished the steps ticked off, and the
\* file is a workbook of a listed plant.  The last is why a run never finds
\* itself without a plant (ProcessRail.tsx, "Driven by the request lifecycle").
RailIsTruthful ==
    /\ screen.kind = "processing" =>
        \E r \in Runs :
            /\ file[r] = screen.file
            /\ screen.mdr \in {r, NoRun}
            /\ \/ /\ screen.stage = "uploading" /\ call[r] = "upload"
                  /\ screen.mdr = NoRun
               \/ /\ screen.stage = "extracting" /\ call[r] = "extract"
                  /\ status[r] # "ABSENT"
               \/ /\ screen.stage = "automating" /\ call[r] = "automate"
                  /\ ~ screen.done
                  /\ status[r] \in {"EXTRACTED", "AUTOMATED", "FAILED"}
               \/ /\ screen.stage = "automating" /\ call[r] = "summary"
                  /\ screen.done
                  /\ status[r] = "AUTOMATED"
    /\ screen.kind \in {"processing", "failed"} =>
        plants = "listed" /\ screen.file \in Supported

\* An upload, extract or automate at the backend has its submission to itself:
\* no second one, no summary and no download works on it, not even after the
\* page gave a request up and ran the workbook again.  Only reads may share a
\* submission (two summary retries, a download).  It is the assumption Serial
\* under which SubmissionWorkflow implements SubmissionLifecycle
\* (AutomatePage.tsx, handleRetry starts from the upload).
StepsWorkAlone ==
    \A q1, q2 \in atServer :
        q1.run = q2.run /\ q1.op \in Steps => q1 = q2

\* No run stays in the processing screen for ever, and no card keeps its
\* Download button disabled (AutomatePage.tsx, runAutomation: every await ends
\* in a setScreen; ResultCard.tsx, handleDownload).
WaitsEnd ==
    /\ \A r \in Runs : call[r] \in Requested ~> call[r] = "over"
    /\ card \in Reads ~> card \notin Reads

\* What the comment on the page says: while a workbook is processed, the screen
\* changes only with the outcome of a request of the process.  A summary retried
\* on an earlier screen breaks it
\* (AutomatePage.tsx:6, "driven by the real request's outcome").
OwnOutcomesOnly ==
    [][screen.kind = "processing" /\ screen' # screen =>
          \/ screen' = Blank("ready") /\ plants' = "loading"
          \/ \E r \in Runs : call'[r] # call[r] /\ answer[r] # "pending"]_vars
============================================================================
