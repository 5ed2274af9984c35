------------------------ MODULE AutomatePage_proofs ------------------------
(***************************************************************************)
(* What the employee sees is true, for any number of workbooks, runs,      *)
(* summary retries and downloads.                                          *)
(*                                                                         *)
(* The heart is Owed: a request the backend has not handled finds its      *)
(* submission in the one status in which it was sent, since nobody but a   *)
(* run works on its submission, one request at a time.                     *)
(***************************************************************************)
EXTENDS AutomatePage, TLAPS

\* The status in which a request finds its submission, and in which it leaves
\* it when it succeeds.
Before(op) ==
    CASE op = "upload" -> "ABSENT"
      [] op = "extract" -> "UPLOADED"
      [] op = "automate" -> "EXTRACTED"
      [] op \in {"summary", "download"} -> "AUTOMATED"

After(op) ==
    CASE op = "upload" -> "UPLOADED"
      [] op = "extract" -> "EXTRACTED"
      [] op = "automate" -> "AUTOMATED"
      [] op \in {"summary", "download"} -> "AUTOMATED"

\* Requests at the backend.
Owed ==
    \A q \in atServer :
        /\ status[q.run] = Before(q.op)
        /\ q.from \in Reads => q.op \in {"summary", "download"}
        /\ q.from \in Runs =>
              /\ q.run = q.from
              /\ q.op \in Requested
              /\ call[q.from] \in {q.op, "over"}
              /\ call[q.from] = q.op => answer[q.from] # "ok"

\* A run has one request at the backend.
OneAtATime ==
    \A q1, q2 \in atServer :
        q1.from \in Runs /\ q1.from = q2.from => q1 = q2

\* A run that was not called yet has left no trace.
Untouched(r) ==
    call[r] = "none" => file[r] = NoFile /\ status[r] = "ABSENT"

\* A run that awaits an answer.
Awaiting(r) ==
    call[r] \in Requested =>
        /\ plants = "listed"
        /\ file[r] \in Supported
        /\ answer[r] = "ok" => status[r] = After(call[r])
        /\ call[r] = "extract" => status[r] # "ABSENT"
        /\ call[r] = "automate" => status[r] \in {"EXTRACTED", "AUTOMATED", "FAILED"}
        /\ call[r] = "summary" => status[r] = "AUTOMATED"

\* What is retried or downloaded is there.
ReadHasResult(t) ==
    read[t].op # "none" =>
        /\ read[t].mdr \in Runs
        /\ status[read[t].mdr] = "AUTOMATED"
        /\ file[read[t].mdr] = read[t].file

SummaryIsThere == \A r \in Runs : status[r] = "AUTOMATED" => summarised[r]

SelectedIsSupported == screen.kind = "selected" => screen.file \in Supported

RunInv ==
    /\ Owed
    /\ OneAtATime
    /\ \A r \in Runs : Untouched(r) /\ Awaiting(r)
    /\ \A t \in Reads : ReadHasResult(t)
    /\ SummaryIsThere

ScreenInv ==
    /\ SelectedIsSupported
    /\ CompleteIsAutomated
    /\ RailIsTruthful

PageInv == TypeOK /\ RunInv /\ ScreenInv

----------------------------------------------------------------------------
(* Types                                                                   *)

\* Nothing, a failure, or the download the card waits for.
Cards == Reads \cup {"idle", "error"}

LEMMA InitType == Init => TypeOK
<1> SUFFICES ASSUME Init
             PROVE  TypeOK
  OBVIOUS
<1>1. screen \in Screen
  BY DEF Init, Blank, Screen, Kinds
<1>2. read \in [Reads -> Read]
  BY DEF Init, NoRead, Read
<1>3. Backend!TypeOK
  BY DEF Init, Backend!Init, Backend!TypeOK, Backend!Statuses
<1> QED
  BY <1>1, <1>2, <1>3 DEF Init, TypeOK

LEMMA ScreenTypes ==
  ASSUME NEW f \in Files \cup {NoFile}, NEW m \in Runs \cup {NoRun},
         NEW b \in BOOLEAN
  PROVE  /\ \A k \in Kinds : Blank(k) \in Screen
         /\ Selected(f) \in Screen
         /\ Failed(f) \in Screen
         /\ \A s \in Stages : Processing(f, m, s, b) \in Screen
         /\ Complete(f, m, b) \in Screen
  BY DEF Blank, Selected, Failed, Processing, Complete, Screen, Kinds, Stages

LEMMA BackendTypes ==
  ASSUME Backend!TypeOK, NEW q \in Request, Handle(q) \/ Refuse(q)
  PROVE  Backend!TypeOK'
<1>0. q.run \in Runs
  BY DEF Request
<1> USE <1>0 DEF Backend!TypeOK, Backend!Statuses
<1>1. CASE Backend!Create(q.run)
  BY <1>1 DEF Backend!Create
<1>2. CASE Backend!Extract(q.run)
  BY <1>2 DEF Backend!Extract
<1>3. CASE Backend!Automate(q.run)
  BY <1>3 DEF Backend!Automate
<1>4. CASE Backend!Fail(q.run)
  BY <1>4 DEF Backend!Fail
<1>5. CASE UNCHANGED backend
  BY <1>5 DEF backend
<1> QED
  BY <1>1, <1>2, <1>3, <1>4, <1>5 DEF Handle, Refuse

LEMMA ShownTypes ==
  ASSUME NEW s \in Screen, Show(s), card \in Cards
  PROVE  screen' \in Screen /\ card' \in Cards
  BY DEF Show, Cards

LEMMA SentTypes ==
  ASSUME TypeOK, NEW r \in Runs, NEW op \in Requested, Send(r, op)
  PROVE  /\ call' \in [Runs -> Requested \cup {"none", "over"}]
         /\ answer' \in [Runs -> {"pending", "ok", "error"}]
         /\ atServer' \subseteq Request
  BY DEF TypeOK, Send, Request

LEMMA AskTypes ==
  ASSUME TypeOK, NEW t \in Reads, NEW op \in {"summary", "download"}, Ask(t, op),
         screen.mdr \in Runs
  PROVE  read' \in [Reads -> Read] /\ atServer' \subseteq Request
<1>1. screen.file \in Files \cup {NoFile}
  BY DEF TypeOK, Screen
<1>2. [from |-> t, run |-> screen.mdr, op |-> op] \in Request
  BY DEF Request, Requested, Steps
<1>3. [op |-> op, file |-> screen.file, mdr |-> screen.mdr,
       answer |-> "pending"] \in Read
  BY <1>1 DEF Read
<1> QED
  BY <1>2, <1>3 DEF TypeOK, Ask

LEMMA StepType == TypeOK /\ CompleteIsAutomated /\ [Next]_vars => TypeOK'
<1> SUFFICES ASSUME TypeOK, CompleteIsAutomated, [Next]_vars
             PROVE  TypeOK'
  OBVIOUS
<1>a. /\ screen \in Screen
      /\ card \in Cards
      /\ screen.file \in Files \cup {NoFile}
      /\ screen.mdr \in Runs \cup {NoRun}
  BY DEF TypeOK, Screen, Cards
<1>b. ASSUME UNCHANGED backend
      PROVE  Backend!TypeOK'
  BY <1>b DEF TypeOK, backend, Backend!TypeOK
<1> USE DEF Cards
<1>1. CASE PlantsAnswer
  BY <1>1, <1>b DEF PlantsAnswer, TypeOK, run
<1>2. ASSUME NEW f \in Files, SelectFile(f)
      PROVE  TypeOK'
  <2>1. (IF f \in Supported THEN Selected(f) ELSE Blank("invalid")) \in Screen
    BY ScreenTypes DEF Kinds
  <2> QED
    BY <1>2, <1>a, <1>b, <2>1, ShownTypes DEF SelectFile, TypeOK, run
<1>3. CASE ChangeWorkbook
  <2>1. Blank("ready") \in Screen
    BY ScreenTypes DEF Kinds
  <2> QED
    BY <1>3, <1>a, <1>b, <2>1, ShownTypes DEF ChangeWorkbook, TypeOK, run
<1>4. ASSUME NEW r \in Runs, RunAutomation(r) \/ RetryRun(r)
      PROVE  TypeOK'
  <2>1. StartRun(r)
    BY <1>4 DEF RunAutomation, RetryRun
  <2>2. Processing(screen.file, NoRun, "uploading", FALSE) \in Screen
    BY <1>a, ScreenTypes DEF Stages
  <2>3. plants' = plants
    BY <1>4 DEF RunAutomation, RetryRun, StartRun
  <2>4. "upload" \in Requested
    BY DEF Requested, Steps
  <2>5. /\ screen' \in Screen
        /\ card' \in Cards
    BY <1>a, <2>1, <2>2, ShownTypes DEF StartRun
  <2>6. /\ call' \in [Runs -> Requested \cup {"none", "over"}]
        /\ answer' \in [Runs -> {"pending", "ok", "error"}]
        /\ atServer' \subseteq Request
    BY <2>1, <2>4, SentTypes DEF StartRun
  <2> QED
    BY <1>a, <1>b, <2>1, <2>3, <2>5, <2>6 DEF StartRun, TypeOK
<1>5. ASSUME NEW r \in Runs, Continue(r)
      PROVE  TypeOK'
  <2>0. file[r] \in Files \cup {NoFile}
    BY DEF TypeOK
  <2>1. /\ screen' \in Screen
        /\ card' \in Cards
    BY <1>5, <1>a, <2>0, ScreenTypes, ShownTypes DEF Continue, Stages
  <2>2. /\ call' \in [Runs -> Requested \cup {"none", "over"}]
        /\ answer' \in [Runs -> {"pending", "ok", "error"}]
        /\ atServer' \subseteq Request
    <3>1. ASSUME NEW op \in Requested, Send(r, op)
          PROVE  /\ call' \in [Runs -> Requested \cup {"none", "over"}]
                 /\ answer' \in [Runs -> {"pending", "ok", "error"}]
                 /\ atServer' \subseteq Request
      BY <3>1, SentTypes
    <3>2. CASE End(r) /\ UNCHANGED atServer
      BY <3>2 DEF TypeOK, End
    <3> QED
      BY <1>5, <3>1, <3>2 DEF Continue, Requested, Steps
  <2> QED
    BY <1>5, <1>b, <2>1, <2>2 DEF Continue, TypeOK
<1>6. ASSUME NEW r \in Runs, Catch(r)
      PROVE  TypeOK'
  <2>0. file[r] \in Files \cup {NoFile}
    BY DEF TypeOK
  <2>1. (IF call[r] = "summary" THEN Complete(file[r], r, FALSE)
                                ELSE Failed(file[r])) \in Screen
    BY <2>0, ScreenTypes
  <2> QED
    BY <1>6, <1>a, <1>b, <2>1, ShownTypes DEF Catch, End, TypeOK
<1>7. ASSUME NEW r \in Runs, Lose(r)
      PROVE  TypeOK'
  BY <1>7, <1>b DEF Lose, TypeOK
<1>8. ASSUME NEW t \in Reads, RetrySummary(t) \/ Download(t)
      PROVE  TypeOK'
  <2>1. screen.mdr \in Runs
    BY <1>8 DEF RetrySummary, Download, Ask, CompleteIsAutomated
  <2>2. read' \in [Reads -> Read] /\ atServer' \subseteq Request
    BY <1>8, <2>1, AskTypes DEF RetrySummary, Download
  <2> QED
    BY <1>8, <1>a, <1>b, <2>2 DEF RetrySummary, Download, TypeOK, run
<1>9. ASSUME NEW t \in Reads, LoseRead(t)
      PROVE  TypeOK'
  BY <1>9, <1>b DEF LoseRead, TypeOK, run, Read
<1>10. ASSUME NEW t \in Reads, RetryAnswered(t)
       PROVE  TypeOK'
  <2>1. /\ read[t].file \in Files \cup {NoFile}
        /\ read[t].mdr \in Runs \cup {NoRun}
    BY DEF TypeOK, Read
  <2>2. Complete(read[t].file, read[t].mdr, read[t].answer = "ok") \in Screen
    BY <2>1, ScreenTypes
  <2>3. NoRead \in Read
    BY DEF NoRead, Read
  <2> QED
    BY <1>10, <1>a, <1>b, <2>2, <2>3, ShownTypes
       DEF RetryAnswered, Answered, TypeOK, run
<1>12. ASSUME NEW t \in Reads, DownloadAnswered(t)
       PROVE  TypeOK'
  <2>1. NoRead \in Read
    BY DEF NoRead, Read
  <2> QED
    BY <1>12, <1>a, <1>b, <2>1 DEF DownloadAnswered, Answered, TypeOK, run
<1>13. CASE Reload
  <2>1. Blank("ready") \in Screen
    BY ScreenTypes DEF Kinds
  <2>2. NoRead \in Read
    BY DEF NoRead, Read
  <2> QED
    BY <1>13, <1>b, <2>1, <2>2 DEF Reload, TypeOK
<1>14. ASSUME NEW q \in atServer, Serve(q)
       PROVE  TypeOK'
  <2>1. q \in Request /\ (Handle(q) \/ Refuse(q))
    BY <1>14 DEF Serve, TypeOK
  <2>2. Backend!TypeOK'
    BY <2>1, BackendTypes DEF TypeOK
  <2>3. ASSUME NEW a \in {"ok", "error"}, Answer(q, a)
        PROVE  /\ answer' \in [Runs -> {"pending", "ok", "error"}]
               /\ read' \in [Reads -> Read]
    BY <2>3 DEF Answer, TypeOK, Read
  <2> QED
    BY <1>14, <2>2, <2>3 DEF Serve, TypeOK
<1>15. CASE UNCHANGED vars
  BY <1>15, <1>b DEF vars, run, TypeOK
<1> QED
  BY <1>1, <1>2, <1>3, <1>4, <1>5, <1>6, <1>7, <1>8, <1>9, <1>10,
     <1>12, <1>13, <1>14, <1>15 DEF Next

----------------------------------------------------------------------------
(* Runs, requests and retries                                              *)

LEMMA StatusOf ==
  /\ Before("upload") = "ABSENT" /\ After("upload") = "UPLOADED"
  /\ Before("extract") = "UPLOADED" /\ After("extract") = "EXTRACTED"
  /\ Before("automate") = "EXTRACTED" /\ After("automate") = "AUTOMATED"
  /\ Before("summary") = "AUTOMATED" /\ After("summary") = "AUTOMATED"
  /\ Before("download") = "AUTOMATED" /\ After("download") = "AUTOMATED"
  BY DEF Before, After

\* Nothing is under way for a run that was not called or was just answered.
LEMMA NothingUnderWay ==
  ASSUME TypeOK, RunInv, NEW r \in Runs
  PROVE  call[r] = "none" \/ (answer[r] = "ok" /\ call[r] \in Requested)
            => \A q \in atServer : q.from # r
  BY DEF RunInv, Owed, Requested, Steps

\* What a run does next is in order when the submission is where it should be.
LEMMA SendKeeps ==
  ASSUME TypeOK, RunInv, NEW r \in Runs, NEW op \in Requested, Send(r, op),
         \A q \in atServer : q.from # r,
         status[r] = Before(op),
         plants = "listed", plants' = plants,
         file'[r] \in Supported,
         \A s \in Runs \ {r} : file'[s] = file[s],
         file' # file => status[r] # "AUTOMATED",
         UNCHANGED <<read, backend>>
  PROVE  RunInv'
<1>1. /\ call'[r] = op /\ answer'[r] = "pending"
      /\ \A s \in Runs \ {r} : call'[s] = call[s] /\ answer'[s] = answer[s]
      /\ atServer' = atServer \cup {[from |-> r, run |-> r, op |-> op]}
  BY DEF Send, TypeOK
<1>2. status' = status /\ summarised' = summarised
  BY DEF backend
<1>3. /\ \A q \in atServer : q.from \in (Runs \cup Reads) \ {r}
      /\ r \notin Reads
  BY PageAssumption DEF TypeOK, Request
<1>4. Owed'
  <2> SUFFICES ASSUME NEW q \in atServer'
               PROVE  /\ status'[q.run] = Before(q.op)
                      /\ q.from \in Reads => q.op \in {"summary", "download"}
                      /\ q.from \in Runs =>
                            /\ q.run = q.from
                            /\ q.op \in Requested
                            /\ call'[q.from] \in {q.op, "over"}
                            /\ call'[q.from] = q.op => answer'[q.from] # "ok"
    BY DEF Owed
  <2>1. CASE q \in atServer
    BY <1>1, <1>2, <1>3, <2>1 DEF RunInv, Owed
  <2>2. CASE q = [from |-> r, run |-> r, op |-> op]
    BY <1>1, <1>2, <1>3, <2>2
  <2> QED
    BY <1>1, <2>1, <2>2
<1>5. OneAtATime'
  BY <1>1, <1>3 DEF RunInv, OneAtATime
<1>6. ASSUME NEW s \in Runs
      PROVE  Untouched(s)' /\ Awaiting(s)'
  <2>1. CASE s = r
    <3>1. op \in {"upload", "extract", "automate", "summary"}
      BY DEF Requested, Steps
    <3> QED
      BY <1>1, <1>2, <2>1, <3>1, StatusOf DEF Untouched, Awaiting
  <2>2. CASE s # r
    BY <1>1, <1>2, <2>2 DEF RunInv, Untouched, Awaiting
  <2> QED
    BY <2>1, <2>2
<1>7. ASSUME NEW t \in Reads
      PROVE  ReadHasResult(t)'
  BY <1>2 DEF RunInv, ReadHasResult
<1>8. SummaryIsThere'
  BY <1>2 DEF RunInv, SummaryIsThere
<1> QED
  BY <1>4, <1>5, <1>6, <1>7, <1>8 DEF RunInv

\* Runs may end and answers be lost at any time.
GivingUp ==
    /\ \A r \in Runs : call'[r] = call[r] \/ (call'[r] = "over" /\ call[r] # "none")
    /\ \A r \in Runs : answer'[r] \in {answer[r], "error", "pending"}
    /\ atServer' \subseteq atServer
    /\ plants' = plants \/ \A r \in Runs : call'[r] \notin Requested
    /\ UNCHANGED <<file, backend>>

LEMMA GivingUpKeeps ==
  ASSUME TypeOK, RunInv, GivingUp, \A t \in Reads : ReadHasResult(t)'
  PROVE  RunInv'
<1> USE DEF GivingUp
<1>1. status' = status /\ summarised' = summarised
  BY DEF backend
<1>3. "over" \notin Requested
  BY DEF Requested, Steps
<1>4. Owed'
  <2> SUFFICES ASSUME NEW q \in atServer'
               PROVE  /\ status'[q.run] = Before(q.op)
                      /\ q.from \in Reads => q.op \in {"summary", "download"}
                      /\ q.from \in Runs =>
                            /\ q.run = q.from
                            /\ q.op \in Requested
                            /\ call'[q.from] \in {q.op, "over"}
                            /\ call'[q.from] = q.op => answer'[q.from] # "ok"
    BY DEF Owed
  <2>1. /\ status[q.run] = Before(q.op)
        /\ q.from \in Reads => q.op \in {"summary", "download"}
        /\ q.from \in Runs =>
              /\ q.run = q.from
              /\ q.op \in Requested
              /\ call[q.from] \in {q.op, "over"}
              /\ call[q.from] = q.op => answer[q.from] # "ok"
    BY DEF RunInv, Owed
  <2> QED
    BY <1>1, <1>3, <2>1
<1>5. OneAtATime' /\ SummaryIsThere'
  BY <1>1 DEF RunInv, OneAtATime, SummaryIsThere
<1>6. ASSUME NEW r \in Runs
      PROVE  Untouched(r)' /\ Awaiting(r)'
  <2>1. Untouched(r) /\ Awaiting(r)
    BY DEF RunInv
  <2>2. Untouched(r)'
    BY <1>1, <2>1 DEF Untouched
  <2>3. Awaiting(r)'
    BY <1>1, <1>3, <2>1 DEF Awaiting
  <2> QED
    BY <2>2, <2>3
<1> QED
  BY <1>4, <1>5, <1>6 DEF RunInv

\* The complete screen asks for something.
LEMMA AskKeeps ==
  ASSUME TypeOK, RunInv, CompleteIsAutomated,
         NEW t \in Reads, NEW op \in {"summary", "download"}, Ask(t, op),
         UNCHANGED <<plants, run, backend>>
  PROVE  RunInv'
<1> DEFINE q == [from |-> t, run |-> screen.mdr, op |-> op]
<1>1. /\ screen.mdr \in Runs
      /\ status[screen.mdr] = "AUTOMATED"
      /\ file[screen.mdr] = screen.file
  BY DEF Ask, CompleteIsAutomated
<1>2. /\ atServer' = atServer \cup {q}
      /\ UNCHANGED <<plants, file, call, answer, status, summarised>>
      /\ t \notin Runs
  BY PageAssumption DEF Ask, run, backend
<1>3. Owed'
  BY <1>1, <1>2, StatusOf DEF RunInv, Owed
<1>4. OneAtATime'
  BY <1>2 DEF RunInv, OneAtATime
<1>5. \A r \in Runs : Untouched(r)' /\ Awaiting(r)'
  BY <1>2 DEF RunInv, Untouched, Awaiting
<1>6. \A u \in Reads : ReadHasResult(u)'
  BY <1>1, <1>2 DEF RunInv, ReadHasResult, Ask, TypeOK
<1>7. SummaryIsThere'
  BY <1>2 DEF RunInv, SummaryIsThere
<1> QED
  BY <1>3, <1>4, <1>5, <1>6, <1>7 DEF RunInv

LEMMA ReadsKept ==
  ASSUME RunInv, UNCHANGED <<read, file, backend>>
  PROVE  \A t \in Reads : ReadHasResult(t)'
BY DEF RunInv, ReadHasResult, backend

\* The backend handles a request.
LEMMA ServedStatus ==
  ASSUME Backend!TypeOK, NEW q \in Request, Handle(q) \/ Refuse(q),
         status[q.run] = Before(q.op)
  PROVE  /\ \A r \in Runs \ {q.run} : /\ status'[r] = status[r]
                                     /\ summarised'[r] = summarised[r]
         /\ q.op = "upload" => status'[q.run] \in {"ABSENT", "UPLOADED"}
         /\ q.op = "extract" =>
               status'[q.run] \in {"UPLOADED", "EXTRACTED", "FAILED"}
         /\ q.op = "automate" =>
               status'[q.run] \in {"EXTRACTED", "AUTOMATED", "FAILED"}
         /\ q.op \in {"summary", "download"} => UNCHANGED backend
         /\ Handle(q) => status'[q.run] = After(q.op)
         /\ status'[q.run] = "AUTOMATED" =>
               summarised'[q.run] \/ UNCHANGED backend
<1>0. /\ q.run \in Runs
      /\ q.op \in {"upload", "extract", "automate", "summary", "download"}
  BY DEF Request, Requested, Steps
<1> USE <1>0, StatusOf DEF Backend!TypeOK, Backend!Statuses
<1>1. CASE UNCHANGED backend /\ ~ Handle(q)
  BY <1>1 DEF backend
<1>2. CASE q.op = "upload" /\ Backend!Create(q.run)
  BY <1>2 DEF Backend!Create
<1>3. CASE q.op = "extract" /\ Backend!Extract(q.run)
  BY <1>3 DEF Backend!Extract
<1>4. CASE q.op = "automate" /\ Backend!Automate(q.run)
  BY <1>4 DEF Backend!Automate
<1>5. CASE q.op \in {"summary", "download"} /\ UNCHANGED backend
  BY <1>5 DEF backend
<1>6. CASE q.op \in {"extract", "automate"} /\ Backend!Fail(q.run) /\ ~ Handle(q)
  BY <1>6 DEF Backend!Fail
<1> QED
  BY <1>1, <1>2, <1>3, <1>4, <1>5, <1>6 DEF Handle, Refuse

\* Only a run works on its submission, one request at a time; and what the
\* complete screen asks for finds the submission AUTOMATED.
LEMMA OnlyReadsShare == TypeOK /\ RunInv => StepsWorkAlone
<1> SUFFICES ASSUME TypeOK, RunInv, NEW q1 \in atServer, NEW q2 \in atServer,
                    q1.run = q2.run, q1.op \in Steps
             PROVE  q1 = q2
  BY DEF StepsWorkAlone
<1>1. /\ q1.from \in Runs \cup Reads /\ q2.from \in Runs \cup Reads
      /\ q1.run = q2.run
  BY DEF TypeOK, Request
<1>2. q1.from \in Runs /\ q1.run = q1.from
  BY <1>1 DEF RunInv, Owed, Steps
<1>3. CASE q2.from \in Runs
  BY <1>2, <1>3 DEF RunInv, Owed, OneAtATime
<1>4. CASE q2.from \in Reads
  <2>1. q2.op \in {"summary", "download"}
    BY <1>4 DEF RunInv, Owed
  <2>2. status[q2.run] = "AUTOMATED"
    BY <2>1, StatusOf DEF RunInv, Owed
  <2>3. status[q1.run] = Before(q1.op)
    BY DEF RunInv, Owed
  <2> QED
    BY <1>1, <2>2, <2>3, StatusOf DEF Steps
<1> QED
  BY <1>1, <1>3, <1>4

LEMMA ServeKeeps ==
  ASSUME TypeOK, RunInv, NEW q \in atServer, Serve(q)
  PROVE  RunInv'
<1>1. /\ status[q.run] = Before(q.op)
      /\ q \in Request /\ q.run \in Runs /\ q.from \in Runs \cup Reads
      /\ q.from \in Reads => q.op \in {"summary", "download"}
      /\ q.from \in Runs =>
            /\ q.run = q.from
            /\ q.op \in Requested
            /\ call[q.from] \in {q.op, "over"}
            /\ call[q.from] = q.op => answer[q.from] # "ok"
  BY DEF RunInv, Owed, TypeOK, Request
<1>2. /\ atServer' = atServer \ {q}
      /\ UNCHANGED <<plants, file, call>>
  BY DEF Serve
<1>3. /\ \A r \in Runs \ {q.from} : answer'[r] = answer[r]
      /\ q.from \in Runs =>
            \/ answer'[q.from] = answer[q.from]
            \/ answer'[q.from] = "error"
            \/ answer'[q.from] = "ok" /\ call[q.from] = q.op /\ Handle(q)
      /\ \A t \in Reads : /\ read'[t].op = read[t].op
                          /\ read'[t].mdr = read[t].mdr
                          /\ read'[t].file = read[t].file
  <2>1. ASSUME NEW a \in {"ok", "error"}, Answer(q, a)
        PROVE  /\ \A r \in Runs \ {q.from} : answer'[r] = answer[r]
               /\ q.from \in Runs =>
                     \/ answer'[q.from] = answer[q.from]
                     \/ answer'[q.from] = a /\ call[q.from] = q.op
               /\ \A t \in Reads : /\ read'[t].op = read[t].op
                                   /\ read'[t].mdr = read[t].mdr
                                   /\ read'[t].file = read[t].file
    BY <2>1 DEF Answer, TypeOK, Read
  <2> QED
    BY <2>1 DEF Serve
<1>4. /\ \A r \in Runs \ {q.run} : /\ status'[r] = status[r]
                                  /\ summarised'[r] = summarised[r]
      /\ q.op = "upload" => status'[q.run] \in {"ABSENT", "UPLOADED"}
      /\ q.op = "extract" =>
            status'[q.run] \in {"UPLOADED", "EXTRACTED", "FAILED"}
      /\ q.op = "automate" =>
            status'[q.run] \in {"EXTRACTED", "AUTOMATED", "FAILED"}
      /\ q.op \in {"summary", "download"} => UNCHANGED backend
      /\ Handle(q) => status'[q.run] = After(q.op)
      /\ status'[q.run] = "AUTOMATED" =>
            summarised'[q.run] \/ UNCHANGED backend
  BY <1>1, ServedStatus DEF Serve, TypeOK
<1>5. /\ \A r \in Runs \ {q.from} : status'[r] = status[r]
      /\ \A p \in atServer' : status'[p.run] = status[p.run]
  <2>1. q.from \notin Runs => UNCHANGED status
    BY <1>1, <1>4 DEF backend
  <2>2. ASSUME NEW p \in atServer', p.run = q.run
        PROVE  UNCHANGED status
    <3>1. q.op \notin Steps
      BY <1>2, <2>2, OnlyReadsShare DEF StepsWorkAlone
    <3>2. q.op \in {"summary", "download"}
      BY <1>1, <3>1 DEF Request, Requested
    <3> QED
      BY <1>4, <3>2 DEF backend
  <2>3. \A p \in atServer' : p.run \in Runs
    BY <1>2 DEF TypeOK, Request
  <2> QED
    BY <1>1, <1>4, <2>1, <2>2, <2>3
<1>6. Owed'
  <2> SUFFICES ASSUME NEW p \in atServer'
               PROVE  /\ status'[p.run] = Before(p.op)
                      /\ p.from \in Reads => p.op \in {"summary", "download"}
                      /\ p.from \in Runs =>
                            /\ p.run = p.from
                            /\ p.op \in Requested
                            /\ call'[p.from] \in {p.op, "over"}
                            /\ call'[p.from] = p.op => answer'[p.from] # "ok"
    BY DEF Owed
  <2>1. /\ status[p.run] = Before(p.op)
        /\ p.from \in Reads => p.op \in {"summary", "download"}
        /\ p.from \in Runs =>
              /\ p.run = p.from
              /\ p.op \in Requested
              /\ call[p.from] \in {p.op, "over"}
              /\ call[p.from] = p.op => answer[p.from] # "ok"
    BY <1>2 DEF RunInv, Owed
  <2>2. p.from \in Runs => p.from # q.from
    BY <1>2 DEF RunInv, OneAtATime
  <2> QED
    BY <1>2, <1>3, <1>5, <2>1, <2>2
<1>7. OneAtATime'
  BY <1>2 DEF RunInv, OneAtATime
<1>8. ASSUME NEW r \in Runs
      PROVE  Untouched(r)' /\ Awaiting(r)'
  <2>0. Untouched(r) /\ Awaiting(r)
    BY DEF RunInv
  <2>1. CASE r # q.from
    BY <1>2, <1>3, <1>5, <2>0, <2>1 DEF Untouched, Awaiting
  <2>2. CASE r = q.from
    <3>1. call[r] # "none" /\ r = q.run
      BY <1>1, <2>2 DEF Requested, Steps
    <3>2. ASSUME call[r] \in Requested
          PROVE  Awaiting(r)'
      <4>1. call[r] = q.op /\ answer[r] # "ok"
        BY <1>1, <2>2, <3>2 DEF Requested, Steps
      <4>2. q.op \in {"upload", "extract", "automate", "summary"}
        BY <1>1, <2>2 DEF Requested, Steps
      <4>3. answer'[r] = "ok" => status'[r] = After(q.op)
        BY <1>3, <1>4, <2>2, <3>1, <4>1
      <4>4. q.op = "summary" => status'[r] = "AUTOMATED"
        BY <1>1, <1>4, <3>1, StatusOf DEF backend
      <4> QED
        BY <1>2, <1>4, <2>0, <2>2, <3>1, <3>2, <4>1, <4>2, <4>3, <4>4
           DEF Awaiting
    <3> QED
      BY <1>2, <3>1, <3>2 DEF Untouched, Awaiting
  <2> QED
    BY <2>1, <2>2
<1>9. \A r \in Runs : status[r] = "AUTOMATED" => status'[r] = "AUTOMATED"
  <2>1. q.op \in {"upload", "extract", "automate", "summary", "download"}
    BY <1>1 DEF Request, Requested, Steps
  <2> QED
    BY <1>1, <1>4, <2>1, StatusOf DEF backend
<1>10. ASSUME NEW t \in Reads
       PROVE  ReadHasResult(t)'
  BY <1>2, <1>3, <1>9 DEF RunInv, ReadHasResult
<1>11. SummaryIsThere'
  <2> SUFFICES ASSUME NEW r \in Runs, status'[r] = "AUTOMATED"
               PROVE  summarised'[r]
    BY DEF SummaryIsThere
  <2>1. CASE r # q.run
    BY <1>4, <2>1 DEF RunInv, SummaryIsThere
  <2>2. CASE r = q.run
    BY <1>4, <2>2 DEF RunInv, SummaryIsThere, backend
  <2> QED
    BY <2>1, <2>2
<1> QED
  BY <1>6, <1>7, <1>8, <1>10, <1>11 DEF RunInv

LEMMA StepRun == PageInv /\ [Next]_vars => RunInv'
<1> SUFFICES ASSUME PageInv, [Next]_vars
             PROVE  RunInv'
  OBVIOUS
<1> USE DEF PageInv
<1>a. ASSUME UNCHANGED <<plants, run, atServer, backend>>,
             \A t \in Reads : ReadHasResult(t)'
      PROVE  RunInv'
  <2>1. GivingUp
    BY <1>a DEF run, GivingUp
  <2> QED
    BY <1>a, <2>1, GivingUpKeeps
<1>1. CASE PlantsAnswer
  <2>1. UNCHANGED <<file, call, answer, atServer, backend, read>>
    BY <1>1 DEF PlantsAnswer, run
  <2>2. \A r \in Runs : call[r] \notin Requested
    BY <1>1 DEF PlantsAnswer, RunInv, Awaiting
  <2>3. GivingUp
    BY <2>1, <2>2 DEF GivingUp
  <2>4. \A t \in Reads : ReadHasResult(t)'
    BY <2>1, ReadsKept
  <2> QED
    BY <2>3, <2>4, GivingUpKeeps
<1>2. ASSUME NEW f \in Files, SelectFile(f)
      PROVE  RunInv'
  BY <1>2, <1>a, ReadsKept DEF SelectFile, run
<1>3. CASE ChangeWorkbook
  BY <1>3, <1>a, ReadsKept DEF ChangeWorkbook, run
<1>4. ASSUME NEW r \in Runs, RunAutomation(r) \/ RetryRun(r)
      PROVE  RunInv'
  <2>1. /\ StartRun(r) /\ call[r] = "none"
        /\ plants = "listed" /\ screen.file \in Supported
    BY <1>4 DEF RunAutomation, RetryRun, StartRun, ScreenInv, RailIsTruthful,
                SelectedIsSupported
  <2>2. status[r] = "ABSENT"
    BY <2>1 DEF RunInv, Untouched
  <2>3. \A q \in atServer : q.from # r
    BY <2>1, NothingUnderWay
  <2>4. /\ Send(r, "upload") /\ plants' = plants
        /\ file'[r] \in Supported
        /\ \A s \in Runs \ {r} : file'[s] = file[s]
        /\ UNCHANGED <<read, backend>>
    BY <2>1 DEF StartRun, TypeOK
  <2>5. "upload" \in Requested
    BY DEF Requested, Steps
  <2> QED
    BY <2>1, <2>2, <2>3, <2>4, <2>5, StatusOf, SendKeeps
<1>5. ASSUME NEW r \in Runs, Continue(r)
      PROVE  RunInv'
  <2>1. /\ answer[r] = "ok" /\ call[r] \in Requested
        /\ UNCHANGED <<plants, file, read, backend>>
    BY <1>5 DEF Continue, Requested, Steps
  <2>2. /\ status[r] = After(call[r]) /\ plants = "listed"
        /\ file[r] \in Supported
    BY <2>1 DEF RunInv, Awaiting
  <2>3. \A q \in atServer : q.from # r
    BY <2>1, NothingUnderWay
  <2>4. ASSUME NEW op \in Requested, Send(r, op), After(call[r]) = Before(op)
        PROVE  RunInv'
    BY <2>1, <2>2, <2>3, <2>4, SendKeeps
  <2>5. CASE End(r) /\ UNCHANGED atServer
    <3>1. GivingUp
      BY <2>1, <2>5 DEF GivingUp, End, TypeOK, Requested, Steps
    <3>2. \A t \in Reads : ReadHasResult(t)'
      BY <2>1, ReadsKept
    <3> QED
      BY <3>1, <3>2, GivingUpKeeps
  <2>6. {"extract", "automate", "summary"} \subseteq Requested
    BY DEF Requested, Steps
  <2> QED
    BY <1>5, <2>4, <2>5, <2>6, StatusOf DEF Continue
<1>6. ASSUME NEW r \in Runs, Catch(r)
      PROVE  RunInv'
  <2>1. GivingUp
    BY <1>6 DEF Catch, End, GivingUp, TypeOK, Requested, Steps
  <2>2. \A t \in Reads : ReadHasResult(t)'
    BY <1>6, ReadsKept DEF Catch
  <2> QED
    BY <2>1, <2>2, GivingUpKeeps
<1>7. ASSUME NEW r \in Runs, Lose(r)
      PROVE  RunInv'
  <2>1. GivingUp
    BY <1>7 DEF Lose, GivingUp, TypeOK
  <2>2. \A t \in Reads : ReadHasResult(t)'
    BY <1>7, ReadsKept DEF Lose
  <2> QED
    BY <2>1, <2>2, GivingUpKeeps
<1>8. ASSUME NEW t \in Reads, RetrySummary(t) \/ Download(t)
      PROVE  RunInv'
  BY <1>8, AskKeeps DEF RetrySummary, Download, ScreenInv
<1>9. ASSUME NEW t \in Reads, LoseRead(t)
      PROVE  RunInv'
  <2>1. GivingUp
    BY <1>9 DEF LoseRead, GivingUp, run
  <2>2. \A u \in Reads : ReadHasResult(u)'
    BY <1>9 DEF LoseRead, RunInv, ReadHasResult, TypeOK, Read, run, backend
  <2> QED
    BY <2>1, <2>2, GivingUpKeeps
<1>10. ASSUME NEW t \in Reads, RetryAnswered(t) \/ DownloadAnswered(t)
       PROVE  RunInv'
  <2>1. \A u \in Reads : ReadHasResult(u)'
    BY <1>10 DEF RetryAnswered, DownloadAnswered, Answered, NoRead, RunInv,
                 ReadHasResult, TypeOK, run, backend
  <2> QED
    BY <1>10, <1>a, <2>1 DEF RetryAnswered, DownloadAnswered
<1>11. CASE UNCHANGED vars
  BY <1>11, <1>a, ReadsKept DEF vars, run
<1>12. CASE Reload
  <2>1. \A r \in Runs : call'[r] \notin Requested
    BY <1>12 DEF Reload, Requested, Steps
  <2>2. \A t \in Reads : ReadHasResult(t)'
    BY <1>12 DEF Reload, NoRead, ReadHasResult
  <2>3. GivingUp
    BY <1>12, <2>1 DEF Reload, GivingUp
  <2> QED
    BY <2>2, <2>3, GivingUpKeeps
<1>13. ASSUME NEW q \in atServer, Serve(q)
       PROVE  RunInv'
  BY <1>13, ServeKeeps
<1> QED
  BY <1>1, <1>2, <1>3, <1>4, <1>5, <1>6, <1>7, <1>8, <1>9, <1>10, <1>11,
     <1>12, <1>13 DEF Next

----------------------------------------------------------------------------
(* The screen                                                              *)

LEMMA ScreenFields ==
  ASSUME NEW f, NEW kind
  PROVE  /\ Blank(kind).kind = kind
         /\ Selected(f).kind = "selected" /\ Selected(f).file = f
         /\ Failed(f).kind = "failed" /\ Failed(f).file = f
BY DEF Blank, Selected, Failed

\* The run the rail shows.
OnRail(r) ==
    /\ file[r] = screen.file
    /\ screen.mdr \in {r, NoRun}
    /\ \/ /\ screen.stage = "uploading" /\ call[r] = "upload"
          /\ screen.mdr = NoRun
       \/ /\ screen.stage = "extracting" /\ call[r] = "extract"
          /\ status[r] # "ABSENT"
       \/ /\ screen.stage = "automating" /\ call[r] = "automate"
          /\ ~ screen.done
          /\ status[r] \in {"EXTRACTED", "AUTOMATED", "FAILED"}
       \/ /\ screen.stage = "automating" /\ call[r] = "summary"
          /\ screen.done
          /\ status[r] = "AUTOMATED"

LEMMA RailDef ==
  RailIsTruthful <=>
      /\ screen.kind = "processing" => \E r \in Runs : OnRail(r)
      /\ screen.kind \in {"processing", "failed"} =>
            plants = "listed" /\ screen.file \in Supported
BY DEF RailIsTruthful, OnRail

\* A submission does not fall back.
Forward ==
    \A r \in Runs :
        /\ status[r] # "ABSENT" => status'[r] # "ABSENT"
        /\ status[r] \in {"EXTRACTED", "AUTOMATED", "FAILED"} =>
              status'[r] \in {"EXTRACTED", "AUTOMATED", "FAILED"}
        /\ status[r] = "AUTOMATED" => status'[r] = "AUTOMATED"

LEMMA ServeForward ==
  ASSUME TypeOK, RunInv, NEW q \in atServer, Serve(q)
  PROVE  Forward
<1>1. /\ status[q.run] = Before(q.op) /\ q \in Request
      /\ q.op \in {"upload", "extract", "automate", "summary", "download"}
      /\ Handle(q) \/ Refuse(q)
      /\ Backend!TypeOK
  BY DEF Serve, RunInv, Owed, Request, Requested, Steps, TypeOK
<1>2. /\ \A r \in Runs \ {q.run} : status'[r] = status[r]
      /\ q.op = "extract" =>
            status'[q.run] \in {"UPLOADED", "EXTRACTED", "FAILED"}
      /\ q.op = "automate" =>
            status'[q.run] \in {"EXTRACTED", "AUTOMATED", "FAILED"}
      /\ q.op \in {"summary", "download"} => UNCHANGED backend
  BY <1>1, ServedStatus
<1> QED
  BY <1>1, <1>2, StatusOf DEF Forward, backend

LEMMA SameScreenKeeps ==
  ASSUME PageInv, RunInv', Forward,
         UNCHANGED <<screen, file, call>>,
         plants' = plants \/ plants = "loading"
  PROVE  ScreenInv'
<1> USE DEF PageInv, ScreenInv
<1>1. SelectedIsSupported'
  BY DEF SelectedIsSupported
<1>2. CompleteIsAutomated'
  BY DEF CompleteIsAutomated, Forward, RunInv, SummaryIsThere
<1>3. ASSUME NEW r \in Runs, OnRail(r)
      PROVE  OnRail(r)'
  BY <1>3 DEF OnRail, Forward
<1>4. /\ screen'.kind = "processing" => \E r \in Runs : OnRail(r)'
      /\ screen'.kind \in {"processing", "failed"} =>
            plants' = "listed" /\ screen'.file \in Supported
  BY <1>3, RailDef
<1>5. RailIsTruthful'
  BY <1>4 DEF RailIsTruthful, OnRail
<1> QED
  BY <1>1, <1>2, <1>5

LEMMA StepScreen == PageInv /\ RunInv' /\ [Next]_vars => ScreenInv'
<1> SUFFICES ASSUME PageInv, RunInv', [Next]_vars
             PROVE  ScreenInv'
  OBVIOUS
<1> USE DEF PageInv
<1>a. ASSUME UNCHANGED <<screen, file, call, status>>,
             plants' = plants \/ plants = "loading"
      PROVE  ScreenInv'
  BY <1>a, SameScreenKeeps DEF Forward
<1>b. ASSUME screen'.kind \in {"ready", "invalid"}
      PROVE  ScreenInv'
  BY <1>b DEF ScreenInv, SelectedIsSupported, CompleteIsAutomated, RailIsTruthful
<1>c. ASSUME NEW r \in Runs, OnRail(r)', screen'.kind = "processing",
             plants' = "listed", screen'.file \in Supported
      PROVE  ScreenInv'
  BY <1>c DEF ScreenInv, SelectedIsSupported, CompleteIsAutomated,
              RailIsTruthful, OnRail
<1>d. ASSUME screen'.kind = "complete", CompleteIsAutomated'
      PROVE  ScreenInv'
  BY <1>d DEF ScreenInv, SelectedIsSupported, RailIsTruthful
<1>1. CASE PlantsAnswer
  BY <1>1, <1>a DEF PlantsAnswer, run, backend
<1>2. ASSUME NEW f \in Files, SelectFile(f)
      PROVE  ScreenInv'
  <2>1. CASE f \in Supported
    BY <1>2, <2>1, ScreenFields
       DEF SelectFile, Show, ScreenInv, SelectedIsSupported, CompleteIsAutomated,
           RailIsTruthful
  <2>2. CASE f \notin Supported
    BY <1>2, <1>b, <2>2, ScreenFields DEF SelectFile, Show
  <2> QED
    BY <2>1, <2>2
<1>3. CASE ChangeWorkbook \/ Reload
  BY <1>3, <1>b, ScreenFields DEF ChangeWorkbook, Reload, Show
<1>4. ASSUME NEW r \in Runs, RunAutomation(r) \/ RetryRun(r)
      PROVE  ScreenInv'
  <2>1. /\ StartRun(r)
        /\ plants = "listed" /\ screen.file \in Supported
    BY <1>4 DEF RunAutomation, RetryRun, ScreenInv, RailIsTruthful,
                SelectedIsSupported
  <2>2. /\ screen'.kind = "processing" /\ screen'.file = screen.file
        /\ screen'.mdr = NoRun /\ screen'.stage = "uploading"
    BY <2>1 DEF StartRun, Show, Processing, Blank
  <2>3. /\ call'[r] = "upload" /\ file'[r] = screen.file
        /\ plants' = plants
    BY <2>1 DEF StartRun, Send, TypeOK
  <2>4. OnRail(r)'
    BY <2>2, <2>3 DEF OnRail
  <2> QED
    BY <1>c, <2>1, <2>2, <2>3, <2>4
<1>5. ASSUME NEW r \in Runs, Continue(r)
      PROVE  ScreenInv'
  <2>1. /\ plants' = "listed" /\ file[r] \in Supported
        /\ file' = file
        /\ status' = status /\ status[r] = After(call[r])
        /\ summarised' = summarised
    BY <1>5 DEF Continue, RunInv, Awaiting, Requested, Steps, backend
  <2>2. ASSUME call[r] = "upload"
        PROVE  ScreenInv'
    <3>1. /\ screen'.kind = "processing" /\ screen'.file = file[r]
          /\ screen'.mdr = r /\ screen'.stage = "extracting"
          /\ ~ screen'.done
      BY <1>5, <2>2 DEF Continue, Show, Processing, Blank
    <3>2. call'[r] = "extract"
      BY <1>5, <2>2 DEF Continue, Send, TypeOK
    <3>3. OnRail(r)'
      BY <2>1, <2>2, <3>1, <3>2, StatusOf DEF OnRail
    <3> QED
      BY <1>c, <2>1, <3>1, <3>3
  <2>3. ASSUME call[r] = "extract"
        PROVE  ScreenInv'
    <3>1. /\ screen'.kind = "processing" /\ screen'.file = file[r]
          /\ screen'.mdr = r /\ screen'.stage = "automating"
          /\ ~ screen'.done
      BY <1>5, <2>3 DEF Continue, Show, Processing, Blank
    <3>2. call'[r] = "automate"
      BY <1>5, <2>3 DEF Continue, Send, TypeOK
    <3>3. OnRail(r)'
      BY <2>1, <2>3, <3>1, <3>2, StatusOf DEF OnRail
    <3> QED
      BY <1>c, <2>1, <3>1, <3>3
  <2>4. ASSUME call[r] = "automate"
        PROVE  ScreenInv'
    <3>1. /\ screen'.kind = "processing" /\ screen'.file = file[r]
          /\ screen'.mdr = r /\ screen'.stage = "automating"
          /\ screen'.done
      BY <1>5, <2>4 DEF Continue, Show, Processing, Blank
    <3>2. call'[r] = "summary"
      BY <1>5, <2>4 DEF Continue, Send, TypeOK
    <3>3. OnRail(r)'
      BY <2>1, <2>4, <3>1, <3>2, StatusOf DEF OnRail
    <3> QED
      BY <1>c, <2>1, <3>1, <3>3
  <2>5. ASSUME call[r] = "summary"
        PROVE  ScreenInv'
    <3>1. /\ screen'.kind = "complete" /\ screen'.file = file[r]
          /\ screen'.mdr = r
      BY <1>5, <2>5 DEF Continue, Show, Complete, Blank
    <3>2. status[r] = "AUTOMATED" /\ summarised[r]
      BY <2>1, <2>5, StatusOf DEF RunInv, SummaryIsThere
    <3>3. CompleteIsAutomated'
      BY <2>1, <3>1, <3>2 DEF CompleteIsAutomated
    <3> QED
      BY <1>d, <3>1, <3>3
  <2> QED
    BY <1>5, <2>2, <2>3, <2>4, <2>5 DEF Continue
<1>6. ASSUME NEW r \in Runs, Catch(r)
      PROVE  ScreenInv'
  <2>1. /\ plants' = "listed" /\ file[r] \in Supported
        /\ file' = file /\ status' = status
        /\ call[r] = "summary" => status[r] = "AUTOMATED"
    BY <1>6 DEF Catch, RunInv, Awaiting, backend
  <2>2. CASE call[r] = "summary"
    <3>1. /\ screen'.kind = "complete" /\ screen'.file = file[r]
          /\ screen'.mdr = r /\ ~ screen'.summary
      BY <1>6, <2>2 DEF Catch, Show, Complete, Blank
    <3>2. CompleteIsAutomated'
      BY <2>1, <2>2, <3>1 DEF CompleteIsAutomated
    <3> QED
      BY <1>d, <3>1, <3>2
  <2>3. CASE call[r] # "summary"
    <3>1. screen' = Failed(file[r])
      BY <1>6, <2>3 DEF Catch, Show
    <3> QED
      BY <2>1, <3>1, ScreenFields
         DEF ScreenInv, SelectedIsSupported, CompleteIsAutomated, RailIsTruthful
  <2> QED
    BY <2>2, <2>3
<1>7. ASSUME NEW r \in Runs, Lose(r)
      PROVE  ScreenInv'
  BY <1>7, <1>a DEF Lose, backend
<1>8. ASSUME NEW t \in Reads, RetrySummary(t) \/ Download(t) \/ LoseRead(t)
                              \/ DownloadAnswered(t)
      PROVE  ScreenInv'
  BY <1>8, <1>a DEF RetrySummary, Download, LoseRead, DownloadAnswered, run,
                    backend
<1>9. ASSUME NEW t \in Reads, RetryAnswered(t)
      PROVE  ScreenInv'
  <2>1. /\ screen'.kind = "complete" /\ screen'.file = read[t].file
        /\ screen'.mdr = read[t].mdr
        /\ file' = file /\ status' = status /\ summarised' = summarised
        /\ read[t].op # "none"
    BY <1>9 DEF RetryAnswered, Answered, Show, Complete, Blank, run, backend
  <2>2. /\ read[t].mdr \in Runs
        /\ status[read[t].mdr] = "AUTOMATED"
        /\ file[read[t].mdr] = read[t].file
    BY <2>1 DEF RunInv, ReadHasResult
  <2>3. summarised[read[t].mdr]
    BY <2>2 DEF RunInv, SummaryIsThere
  <2>4. CompleteIsAutomated'
    BY <2>1, <2>2, <2>3 DEF CompleteIsAutomated
  <2> QED
    BY <1>d, <2>1, <2>4
<1>10. CASE UNCHANGED vars
  BY <1>10, <1>a DEF vars, run, backend
<1>11. ASSUME NEW q \in atServer, Serve(q)
       PROVE  ScreenInv'
  BY <1>11, ServeForward, SameScreenKeeps DEF Serve
<1> QED
  BY <1>1, <1>2, <1>3, <1>4, <1>5, <1>6, <1>7, <1>8, <1>9, <1>10, <1>11
     DEF Next

----------------------------------------------------------------------------
LEMMA InitPage == Init => PageInv
<1> SUFFICES ASSUME Init
             PROVE  PageInv
  OBVIOUS
<1>1. RunInv
  BY DEF Init, RunInv, Owed, OneAtATime, Untouched, Awaiting,
         Requested, Steps, ReadHasResult, NoRead, SummaryIsThere,
         Backend!Init
<1>2. ScreenInv
  BY ScreenFields DEF Init, ScreenInv, SelectedIsSupported, CompleteIsAutomated,
                      RailIsTruthful
<1> QED
  BY <1>1, <1>2, InitType DEF PageInv

LEMMA StepPage == PageInv /\ [Next]_vars => PageInv'
  BY StepType, StepRun, StepScreen DEF PageInv, ScreenInv

\* The types of the page's state.
THEOREM PageTypeCorrect == Spec => []TypeOK
<1>1. PageInv => TypeOK
  BY DEF PageInv
<1> QED
  BY <1>1, InitPage, StepPage, PTL DEF Spec

\* "Automation complete" is never shown for a submission that is not AUTOMATED,
\* nor under another file's name, nor with a summary that does not exist
\* (AutomatePage.tsx, handleRetrySummary; ResultCard.tsx).
THEOREM CompleteScreensAreTrue == Spec => []CompleteIsAutomated
<1>1. PageInv => CompleteIsAutomated
  BY DEF PageInv, ScreenInv
<1> QED
  BY <1>1, InitPage, StepPage, PTL DEF Spec

\* The process rail tells the truth about the run it shows, and no run is
\* started without a plant (ProcessRail.tsx; AutomatePage.tsx, handleRetry).
THEOREM RailsAreTrue == Spec => []RailIsTruthful
<1>1. PageInv => RailIsTruthful
  BY DEF PageInv, ScreenInv
<1> QED
  BY <1>1, InitPage, StepPage, PTL DEF Spec

\* Whatever answers were lost, whatever was given up, retried, downloaded or
\* loaded anew: an upload, extract or automate at the backend never meets
\* another request on its submission (AutomatePage.tsx, runAutomation).
THEOREM StepsAreSerial == Spec => []StepsWorkAlone
<1>1. PageInv => StepsWorkAlone
  BY OnlyReadsShare DEF PageInv
<1> QED
  BY <1>1, InitPage, StepPage, PTL DEF Spec
=============================================================================
