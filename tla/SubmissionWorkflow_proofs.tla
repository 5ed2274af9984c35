--------------------- MODULE SubmissionWorkflow_proofs ---------------------
(***************************************************************************)
(* Theorems about SubmissionWorkflow for any number of submissions and     *)
(* requests, any workbooks, rules and pool size, and every disturbance     *)
(* unless a theorem says otherwise.                                        *)
(***************************************************************************)
EXTENDS SubmissionWorkflow, FiniteSetTheorems, TLAPS

\* The two steps that write are told from the two that read throughout.
USE DEF Writes

----------------------------------------------------------------------------
(* Type correctness                                                        *)

\* The two halves of TypeOK: what the requests keep, and all the rest.
RequestsTyped ==
    /\ pc \in [Requests -> Pcs]
    /\ op \in [Requests -> Ops]
    /\ target \in [Requests -> Subs]
    /\ work \in [Requests -> Work]
    /\ reply \in [Requests -> Reply]

StoresTyped ==
    /\ status \in [Subs -> Statuses]
    /\ reason \in [Subs -> Reasons]
    /\ header \in [Subs -> Nat]
    /\ source \in [Subs -> Books \cup {Missing}]
    /\ stored \in [Subs -> SUBSET SourceRows]
    /\ verdict \in [Subs -> [SourceRows -> Verdict]]
    /\ summaries \subseteq SummaryRow
    /\ ruleSets \subseteq RuleSetRow
    /\ file \in [Subs -> Books \cup {Missing}]
    /\ rulesFile \in RulesSeen

LEMMA TypeHalves == TypeOK <=> RequestsTyped /\ StoresTyped
  BY DEF TypeOK, RequestsTyped, StoresTyped

LEMMA StoresUnchanged ==
    ASSUME StoresTyped, UNCHANGED <<database, files>>
    PROVE  StoresTyped'
  BY DEF StoresTyped, database, files

LEMMA NullRecords == NoWork \in Work /\ NoReply \in Reply
  BY DEF NoWork, Work, RulesSeen, Statuses, Reasons, NoReply, Reply, Codes

LEMMA AnswerTyped ==
    ASSUME RequestsTyped, NEW p \in Requests, NEW r \in Reply, Answer(p, r)
    PROVE  RequestsTyped'
  BY NullRecords DEF RequestsTyped, Answer, Goto, asked, Pcs

LEMMA RespondTyped ==
    ASSUME RequestsTyped, NEW p \in Requests, NEW code \in Codes,
           Respond(p, code)
    PROVE  RequestsTyped'
<1>1. [NoReply EXCEPT !.code = code] \in Reply
  BY NullRecords DEF Reply
<1> QED
  BY <1>1, AnswerTyped DEF Respond

LEMMA RaiseTyped ==
    ASSUME RequestsTyped, NEW p \in Requests, NEW why \in Reasons,
           Raise(p, why)
    PROVE  RequestsTyped'
<1>1. CASE op[p] \in Writes
  <2>1. [NoWork EXCEPT !.why = why] \in Work
    BY NullRecords DEF Work
  <2> QED
    BY <1>1, <2>1 DEF Raise, RequestsTyped, Goto, asked, Pcs
<1>2. CASE op[p] \notin Writes
  BY <1>2, RespondTyped DEF Raise, Codes
<1> QED
  BY <1>1, <1>2

\* A step that moves one request on and at most fills in what it has read.
LEMMA MoveTyped ==
    ASSUME RequestsTyped, NEW p \in Requests,
           NEW l \in Pcs, Goto(p, l),
           NEW w \in Work, work' = [work EXCEPT ![p] = w],
           UNCHANGED <<asked, reply>>
    PROVE  RequestsTyped'
  BY DEF RequestsTyped, Goto, asked

LEMMA GoTyped ==
    ASSUME RequestsTyped, NEW p \in Requests, NEW l \in Pcs, Goto(p, l),
           UNCHANGED <<asked, work, reply>>
    PROVE  RequestsTyped'
  BY DEF RequestsTyped, Goto, asked

\* The fields a request fills in, one read at a time.
LEMMA WorkUpdates ==
    ASSUME NEW w \in Work, NEW r \in RulesSeen
    PROVE  /\ [w EXCEPT !.sow = r] \in Work
           /\ [w EXCEPT !.counts = r] \in Work
           /\ [w EXCEPT !.digest = r] \in Work
           /\ [w EXCEPT !.fresh = TRUE] \in Work
  BY DEF Work

LEMMA WorkLoaded ==
    ASSUME NEW w \in Work, NEW st \in Statuses, NEW h \in Nat
    PROVE  /\ [w EXCEPT !.status = st] \in Work
           /\ [w EXCEPT !.status = st, !.header = h] \in Work
  BY DEF Work

LEMMA WorkRun ==
    ASSUME NEW w \in Work, NEW b \in Books \cup {Missing}, NEW r \in RulesSeen
    PROVE  [w EXCEPT !.book = b, !.doc = r] \in Work
  BY DEF Work

LEMMA WorkCounted ==
    ASSUME NEW w \in Work, NEW n \in Nat, NEW d \in RulesSeen,
           NEW r \in RulesSeen
    PROVE  [w EXCEPT !.rowCount = n, !.doc = d, !.sow = r] \in Work
  BY DEF Work

\* One case per action of a request that leaves database and files alone.
LEMMA LocalStepTyped ==
    ASSUME TypeOK, NEW p \in Requests,
           \/ NotFound(p) \/ WrongStatus(p) \/ RulesUnavailable(p)
           \/ WorkbookMissing(p) \/ Begin(p) \/ PoolTimeout(p)
           \/ Engine(p) \/ EngineFails(p) \/ InsertRows(p) \/ MarkExtracted(p)
           \/ Scope(p) \/ Match(p) \/ UpdateRows(p) \/ Fingerprint(p)
           \/ Digest(p) \/ Register(p) \/ Summarise(p) \/ MarkAutomated(p)
           \/ LoadToFail(p) \/ MarkFailedLost(p)
           \/ ReadSummary(p) \/ ReadCounts(p) \/ ReadRows(p)
           \/ RefuseResult(p) \/ Verify(p) \/ Export(p) \/ LoadError(p) \/ StepError(p)
    PROVE  RequestsTyped' /\ UNCHANGED <<database, files>>
<1> USE RespondTyped, RaiseTyped, GoTyped
<1> USE DEF Codes, Reasons, Pcs, InTransaction, Working, ExtractPcs,
            AutomatePcs, ReadPcs
<1>0. RequestsTyped /\ StoresTyped
  BY TypeHalves
<1>a. /\ work[p] \in Work
      /\ rulesFile \in RulesSeen
      /\ status[target[p]] \in Statuses
      /\ header[target[p]] \in Nat
      /\ file[target[p]] \in Books \cup {Missing}
  BY <1>0 DEF RequestsTyped, StoresTyped
<1>1. CASE NotFound(p)
  BY <1>0, <1>1 DEF NotFound
<1>2. CASE WrongStatus(p)
  BY <1>0, <1>2 DEF WrongStatus
<1>3. CASE RulesUnavailable(p)
  BY <1>0, <1>3 DEF RulesUnavailable
<1>4. CASE WorkbookMissing(p)
  BY <1>0, <1>4 DEF WorkbookMissing
<1>5. CASE Begin(p)
  <2> DEFINE w == [work[p] EXCEPT !.status = status[target[p]],
                                  !.header = header[target[p]]]
  <2>1. w \in Work
    BY <1>a, WorkLoaded
  <2>2. [work EXCEPT ![p].status = status[target[p]],
                     ![p].header = header[target[p]]]
          = [work EXCEPT ![p] = w]
    BY <1>0 DEF RequestsTyped, Work
  <2>3. PICK l \in Pcs : Goto(p, l)
    BY <1>5 DEF Begin
  <2> QED
    BY <1>0, <1>5, <2>1, <2>2, <2>3, MoveTyped DEF Begin
<1>6. CASE PoolTimeout(p)
  BY <1>0, <1>6 DEF PoolTimeout
<1>7. CASE Engine(p)
  <2> DEFINE w == [work[p] EXCEPT !.book = file[target[p]],
                                  !.doc = rulesFile]
  <2>1. w \in Work
    BY <1>a, WorkRun
  <2>2. [work EXCEPT ![p].book = file[target[p]], ![p].doc = rulesFile]
          = [work EXCEPT ![p] = w]
    BY <1>0 DEF RequestsTyped, Work
  <2>4. work' = [work EXCEPT ![p] = w]
    BY <1>7, <2>2 DEF Engine
  <2>3. PICK l \in Pcs : Goto(p, l)
    BY <1>7 DEF Engine
  <2> QED
    BY <1>0, <1>7, <2>1, <2>3, <2>4, MoveTyped DEF Engine
<1>8. CASE EngineFails(p)
  BY <1>0, <1>8 DEF EngineFails
<1>9. CASE InsertRows(p)
  BY <1>0, <1>9 DEF InsertRows
<1>10. CASE MarkExtracted(p)
  BY <1>0, <1>10 DEF MarkExtracted
<1>11. CASE Scope(p)
  <2> DEFINE w == [work[p] EXCEPT !.sow = rulesFile]
  <2>1. w \in Work
    BY <1>a, WorkUpdates
  <2>2. [work EXCEPT ![p].sow = rulesFile] = [work EXCEPT ![p] = w]
    BY <1>0 DEF RequestsTyped, Work
  <2> QED
    BY <1>0, <1>11, <2>1, <2>2, MoveTyped DEF Scope
<1>12. CASE Match(p)
  BY <1>0, <1>12 DEF Match
<1>13. CASE UpdateRows(p)
  BY <1>0, <1>13 DEF UpdateRows
<1>14. CASE Fingerprint(p)
  <2> DEFINE w == [work[p] EXCEPT !.counts = rulesFile]
  <2>1. w \in Work
    BY <1>a, WorkUpdates
  <2>2. [work EXCEPT ![p].counts = rulesFile] = [work EXCEPT ![p] = w]
    BY <1>0 DEF RequestsTyped, Work
  <2> QED
    BY <1>0, <1>14, <2>1, <2>2, MoveTyped DEF Fingerprint
<1>15. CASE Digest(p)
  <2> DEFINE w == [work[p] EXCEPT !.digest = rulesFile]
  <2>1. w \in Work
    BY <1>a, WorkUpdates
  <2>2. [work EXCEPT ![p].digest = rulesFile] = [work EXCEPT ![p] = w]
    BY <1>0 DEF RequestsTyped, Work
  <2> QED
    BY <1>0, <1>15, <2>1, <2>2, MoveTyped DEF Digest
<1>16. CASE Register(p)
  <2> DEFINE w == [work[p] EXCEPT !.fresh = TRUE]
  <2>1. w \in Work
    BY <1>a, WorkUpdates
  <2>2. [work EXCEPT ![p].fresh = TRUE] = [work EXCEPT ![p] = w]
    BY <1>0 DEF RequestsTyped, Work
  <2> QED
    BY <1>0, <1>16, <2>1, <2>2, MoveTyped DEF Register
<1>17. CASE Summarise(p)
  BY <1>0, <1>17 DEF Summarise
<1>18. CASE MarkAutomated(p)
  BY <1>0, <1>18 DEF MarkAutomated
<1>19. CASE LoadToFail(p)
  <2> DEFINE w == [work[p] EXCEPT !.status = status[target[p]]]
  <2>1. w \in Work
    BY <1>a, WorkLoaded
  <2>2. [work EXCEPT ![p].status = status[target[p]]]
          = [work EXCEPT ![p] = w]
    BY <1>0 DEF RequestsTyped, Work
  <2> QED
    BY <1>0, <1>19, <2>1, <2>2, MoveTyped DEF LoadToFail
<1>20. CASE MarkFailedLost(p)
  BY <1>0, <1>20 DEF MarkFailedLost
<1>21. CASE ReadSummary(p)
  <2> DEFINE r == [NoReply EXCEPT !.code = "ok", !.status = work[p].status,
                                  !.summarised = Summarised(target[p])]
  <2>0. Summarised(target[p]) \in BOOLEAN
    BY DEF Summarised
  <2>1. r \in Reply
    <3>1. work[p].status \in Statuses
      BY <1>0 DEF RequestsTyped, Work
    <3> HIDE DEF Reasons
    <3> QED
      BY <2>0, <3>1, NullRecords DEF Reply
  <2> QED
    BY <1>0, <1>21, <2>1, AnswerTyped DEF ReadSummary
<1>22. CASE ReadCounts(p)
  <2>1. PICK m \in summaries :
             work' = [work EXCEPT ![p].rowCount = m.rowCount,
                                  ![p].doc = m.doc, ![p].sow = m.sow]
    BY <1>22 DEF ReadCounts
  <2> DEFINE w == [work[p] EXCEPT !.rowCount = m.rowCount, !.doc = m.doc,
                                  !.sow = m.sow]
  <2>2. m.rowCount \in Nat /\ m.doc \in RulesSeen /\ m.sow \in RulesSeen
    BY <1>0 DEF StoresTyped, SummaryRow
  <2>3. w \in Work
    BY <1>a, <2>2, WorkCounted
  <2>4. [work EXCEPT ![p].rowCount = m.rowCount, ![p].doc = m.doc,
                     ![p].sow = m.sow]
          = [work EXCEPT ![p] = w]
    <3>1. work \in [Requests -> Work]
      BY <1>0 DEF RequestsTyped
    <3> HIDE DEF Pcs, InTransaction, Working, Codes, Reasons
    <3> QED
      BY <3>1 DEF Work
  <2> QED
    BY <1>0, <1>22, <2>1, <2>3, <2>4, MoveTyped DEF ReadCounts
<1>28. CASE ReadRows(p)
  BY <1>0, <1>28 DEF ReadRows
<1>23. CASE RefuseResult(p)
  BY <1>0, <1>23 DEF RefuseResult
<1>24. CASE Verify(p)
  BY <1>0, <1>24 DEF Verify
<1>25. CASE Export(p)
  <2> DEFINE b == file[target[p]]
             r == [NoReply EXCEPT !.code = "ok", !.book = b]
  <2>1. r \in Reply
    BY <1>0, NullRecords DEF RequestsTyped, StoresTyped, Reply
  <2> QED
    BY <1>0, <1>25, <2>1, AnswerTyped DEF Export
<1>26. CASE LoadError(p)
  BY <1>0, <1>26 DEF LoadError
<1>27. CASE StepError(p)
  BY <1>0, <1>27 DEF StepError
<1> QED
  BY <1>1, <1>2, <1>3, <1>4, <1>5, <1>6, <1>7, <1>8, <1>9, <1>10, <1>11,
     <1>12, <1>13, <1>14, <1>15, <1>16, <1>17, <1>18, <1>19, <1>20, <1>21,
     <1>22, <1>23, <1>24, <1>25, <1>26, <1>27, <1>28

LEMMA SummaryTyped ==
    ASSUME TypeOK, NEW p \in Requests, work[p].book \in Books
    PROVE  [sub |-> target[p], ruleSet |-> work[p].digest, doc |-> work[p].doc,
            sow |-> work[p].sow, rowCount |-> Cardinality(RowsOf[work[p].book])]
              \in SummaryRow
  BY FS_CardinalityType, FinitelyManyRows DEF TypeOK, Work, SummaryRow

\* The steps that change the database: a commit publishes what the
\* transaction did, and FAILED overwrites the status.
LEMMA PublishTyped ==
    ASSUME TypeOK, NEW p \in Requests, work[p].book \in Books,
           PublishExtract(p) \/ PublishAutomate(p)
    PROVE  StoresTyped'
<1>1. /\ work[p].doc \in RulesSeen /\ work[p].sow \in RulesSeen
      /\ work[p].digest \in RulesSeen /\ work[p].counts \in RulesSeen
      /\ target[p] \in Subs
      /\ RowsOf[work[p].book] \subseteq SourceRows
      /\ HeaderOf[work[p].book] \in Nat
  BY ConstantsAssumption DEF TypeOK, Work
<1>2. CASE PublishExtract(p)
  <2>1. [doc |-> work[p].doc, sow |-> Pending] \in Verdict
    BY <1>1 DEF Verdict
  <2>2. verdict' \in [Subs -> [SourceRows -> Verdict]]
    BY <1>1, <1>2, <2>1 DEF PublishExtract, TypeOK
  <2> QED
    BY <1>1, <1>2, <2>2 DEF PublishExtract, TypeOK, StoresTyped, Statuses,
                            files
<1>3. CASE PublishAutomate(p)
  <2>1. [doc |-> work[p].doc, sow |-> work[p].sow] \in Verdict
    BY <1>1 DEF Verdict
  <2>2. verdict' \in [Subs -> [SourceRows -> Verdict]]
    BY <1>1, <1>3, <2>1 DEF PublishAutomate, TypeOK
  <2>3. ruleSets' \subseteq RuleSetRow
    BY <1>1, <1>3 DEF PublishAutomate, TypeOK, RuleSetRow
  <2>4. summaries' \subseteq SummaryRow
    BY <1>3, SummaryTyped DEF PublishAutomate, TypeOK
  <2> QED
    BY <1>1, <1>3, <2>2, <2>3, <2>4 DEF PublishAutomate, TypeOK, StoresTyped,
                                        Statuses, files
<1> QED
  BY <1>2, <1>3

LEMMA MarkFailedTyped ==
    ASSUME TypeOK, NEW p \in Requests, MarkFailed(p)
    PROVE  TypeOK'
<1>1. work[p].why \in Reasons /\ target[p] \in Subs
  BY DEF TypeOK, Work
<1>2. StoresTyped'
  BY <1>1 DEF TypeOK, MarkFailed, StoresTyped, Statuses, files
<1>3. RequestsTyped'
  BY TypeHalves, RespondTyped DEF MarkFailed, Codes
<1> QED
  BY <1>2, <1>3, TypeHalves DEF TypeOK, StoresTyped, RequestsTyped

LEMMA EnvironmentTyped ==
    ASSUME TypeOK,
           \/ \E s \in Subs : Upload(s) \/ ReplaceWorkbook(s)
           \/ \E p \in Requests, o \in Ops, s \in Subs : Send(p, o, s)
           \/ ReplaceRules \/ Crash
    PROVE  TypeOK'
<1>1. ASSUME NEW s \in Subs, Upload(s) \/ ReplaceWorkbook(s)
      PROVE  TypeOK'
  <2>1. CASE Upload(s)
    <3>1. StoresTyped'
      BY <2>1 DEF TypeOK, StoresTyped, Upload, Statuses
    <3>2. RequestsTyped'
      BY <2>1 DEF TypeOK, RequestsTyped, Upload, asked
    <3> QED
      BY <3>1, <3>2 DEF TypeOK, StoresTyped, RequestsTyped
  <2>2. CASE ReplaceWorkbook(s)
    <3>1. StoresTyped'
      BY <2>2 DEF TypeOK, StoresTyped, ReplaceWorkbook, database
    <3>2. RequestsTyped'
      BY <2>2 DEF TypeOK, RequestsTyped, ReplaceWorkbook, asked
    <3> QED
      BY <3>1, <3>2 DEF TypeOK, StoresTyped, RequestsTyped
  <2> QED
    BY <1>1, <2>1, <2>2
<1>2. ASSUME NEW p \in Requests, NEW o \in Ops, NEW s \in Subs, Send(p, o, s)
      PROVE  TypeOK'
  BY <1>2, NullRecords DEF TypeOK, Send, Goto, Pcs, database, files
<1>3. CASE ReplaceRules
  BY <1>3 DEF TypeOK, ReplaceRules, asked, database
<1>4. CASE Crash
  BY <1>4, NullRecords DEF TypeOK, Crash, Pcs, asked, database, files
<1> QED
  BY <1>1, <1>2, <1>3, <1>4

----------------------------------------------------------------------------
(* What a request and a submission are like, whatever is disturbed         *)

\* A request works on a submission that exists, runs the step it was asked
\* for, with a workbook the engine could open; automation works on a
\* submission that some request has extracted.
RequestInv(p) ==
    /\ pc[p] = "engine" => op[p] \in Writes
    /\ pc[p] \in ExtractPcs => op[p] = "extract"
    /\ pc[p] \in AutomatePcs => op[p] = "automate"
    /\ pc[p] \in ExtractPcs \cup AutomatePcs => work[p].book \in Books
    /\ pc[p] \in {"engine", "markFailed"} \cup ExtractPcs \cup AutomatePcs =>
          status[target[p]] # "ABSENT"
    /\ pc[p] = "markFailed" /\ work[p].status = "FAILED" =>
          status[target[p]] # "UPLOADED"
    /\ op[p] = "automate" /\ pc[p] \in {"engine"} \cup AutomatePcs =>
          header[target[p]] # 0

\* The header row is written by the transaction that stores the rows: it
\* tells whether the submission was ever extracted.
SubmissionInv(s) ==
    /\ header[s] = 0 => /\ stored[s] = {}
                        /\ ~Summarised(s)
                        /\ status[s] \in {"ABSENT", "UPLOADED", "FAILED"}
    /\ status[s] \in {"ABSENT", "UPLOADED"} => header[s] = 0 /\ reason[s] = ""

BasicInv ==
    /\ TypeOK
    /\ \A p \in Requests : RequestInv(p)
    /\ \A s \in Subs : SubmissionInv(s)

\* The steps that leave database and files alone.
Local(p) ==
    \/ NotFound(p) \/ WrongStatus(p) \/ RulesUnavailable(p)
    \/ WorkbookMissing(p) \/ Begin(p) \/ PoolTimeout(p)
    \/ Engine(p) \/ EngineFails(p) \/ InsertRows(p) \/ MarkExtracted(p)
    \/ Scope(p) \/ Match(p) \/ UpdateRows(p) \/ Fingerprint(p)
    \/ Digest(p) \/ Register(p) \/ Summarise(p) \/ MarkAutomated(p)
    \/ LoadToFail(p) \/ MarkFailedLost(p)
    \/ ReadSummary(p) \/ ReadCounts(p) \/ ReadRows(p)
    \/ RefuseResult(p) \/ Verify(p) \/ Export(p) \/ LoadError(p) \/ StepError(p)

LEMMA NextSplit ==
    [Next]_vars =>
       \/ \E p \in Requests : Local(p)
       \/ \E p \in Requests : CommitExtract(p) \/ CommitAutomate(p)
       \/ \E p \in Requests : CommitLost(p)
       \/ \E p \in Requests : MarkFailed(p)
       \/ \/ \E s \in Subs : Upload(s) \/ ReplaceWorkbook(s)
          \/ \E p \in Requests, o \in Ops, s \in Subs : Send(p, o, s)
          \/ ReplaceRules \/ Crash
       \/ UNCHANGED vars
  BY DEF Next, Advance, Interfere, Local

LEMMA TypeStep == BasicInv /\ [Next]_vars => TypeOK'
<1> SUFFICES ASSUME BasicInv, [Next]_vars
             PROVE  TypeOK'
  OBVIOUS
<1>0. TypeOK /\ RequestsTyped /\ StoresTyped
  BY TypeHalves DEF BasicInv
<1>1. ASSUME NEW p \in Requests, Local(p)
      PROVE  TypeOK'
  <2>1. RequestsTyped' /\ UNCHANGED <<database, files>>
    BY <1>0, <1>1, LocalStepTyped DEF Local
  <2>2. StoresTyped'
    BY <1>0, <2>1, StoresUnchanged
  <2> QED
    BY <2>1, <2>2 DEF TypeOK, RequestsTyped, StoresTyped
<1>2. ASSUME NEW p \in Requests,
             PublishExtract(p) \/ PublishAutomate(p), RequestsTyped'
      PROVE  TypeOK'
  <2>1. work[p].book \in Books
    BY <1>2 DEF BasicInv, RequestInv, PublishExtract, PublishAutomate,
                ExtractPcs, AutomatePcs
  <2>2. StoresTyped'
    BY <1>0, <1>2, <2>1, PublishTyped
  <2> QED
    BY <1>2, <2>2 DEF TypeOK, RequestsTyped, StoresTyped
<1>3. ASSUME NEW p \in Requests, CommitExtract(p) \/ CommitAutomate(p)
      PROVE  TypeOK'
  BY <1>0, <1>2, <1>3, RespondTyped DEF CommitExtract, CommitAutomate, Codes
<1>4. ASSUME NEW p \in Requests, CommitLost(p)
      PROVE  TypeOK'
  BY <1>0, <1>2, <1>4, RaiseTyped DEF CommitLost, Reasons
<1>5. CASE UNCHANGED vars
  BY <1>0, <1>5 DEF TypeOK, vars, database, files, asked
<1> QED
  BY <1>0, <1>1, <1>3, <1>4, <1>5, NextSplit, MarkFailedTyped,
     EnvironmentTyped

----------------------------------------------------------------------------

\* A submission's history only goes forward: it stays known, an upload that
\* was left is not an upload again, and an extraction is not forgotten.
Forward(s) ==
    /\ status[s] # "ABSENT" => status'[s] # "ABSENT"
    /\ status[s] \notin {"ABSENT", "UPLOADED"} => status'[s] # "UPLOADED"
    /\ header[s] # 0 => header'[s] # 0

\* What a step of p leaves of the other requests.
OthersKept(p) ==
    \A q \in Requests \ {p} :
       /\ pc'[q] = pc[q] /\ op'[q] = op[q]
       /\ target'[q] = target[q] /\ work'[q] = work[q]

LEMMA PublishForward ==
    ASSUME BasicInv, NEW p \in Requests,
           PublishExtract(p) \/ PublishAutomate(p)
    PROVE  \A s \in Subs : Forward(s) /\ SubmissionInv(s)'
<1>1. /\ work[p].book \in Books
      /\ HeaderOf[work[p].book] # 0
      /\ status[target[p]] # "ABSENT"
      /\ target[p] \in Subs
  BY ConstantsAssumption DEF BasicInv, RequestInv, TypeOK, PublishExtract,
     PublishAutomate, ExtractPcs, AutomatePcs
<1>2. CASE PublishExtract(p)
  <2>1. /\ status' = [status EXCEPT ![target[p]] = "EXTRACTED"]
        /\ header' = [header EXCEPT ![target[p]] = HeaderOf[work[p].book]]
        /\ \A s \in Subs \ {target[p]} : stored'[s] = stored[s]
        /\ UNCHANGED <<reason, summaries>>
    BY <1>2 DEF PublishExtract, BasicInv, TypeOK
  <2> QED
    BY <1>1, <2>1 DEF BasicInv, TypeOK, SubmissionInv, Forward, Summarised
<1>3. CASE PublishAutomate(p)
  <2>1. header[target[p]] # 0
    BY <1>3 DEF BasicInv, RequestInv, PublishAutomate, AutomatePcs
  <2>2. /\ status' = [status EXCEPT ![target[p]] = "AUTOMATED"]
        /\ \A s \in Subs \ {target[p]} : Summarised(s)' = Summarised(s)
        /\ UNCHANGED <<reason, header, stored>>
    BY <1>3 DEF PublishAutomate, BasicInv, TypeOK, Summarised
  <2> QED
    BY <1>1, <2>1, <2>2 DEF BasicInv, TypeOK, SubmissionInv, Forward
<1> QED
  BY <1>2, <1>3

LEMMA MarkFailedForward ==
    ASSUME BasicInv, NEW p \in Requests, MarkFailed(p)
    PROVE  \A s \in Subs : Forward(s) /\ SubmissionInv(s)'
<1>1. /\ pc[p] = "markFailed"
      /\ status' = [status EXCEPT ![target[p]] =
                      IF work[p].status = "FAILED" THEN @ ELSE "FAILED"]
      /\ reason' = [reason EXCEPT ![target[p]] = work[p].why]
      /\ UNCHANGED <<header, stored, summaries>>
  BY DEF MarkFailed
<1>2. /\ target[p] \in Subs
      /\ status[target[p]] # "ABSENT"
      /\ work[p].status = "FAILED" => status[target[p]] # "UPLOADED"
  BY <1>1 DEF BasicInv, RequestInv, TypeOK
<1> QED
  BY <1>1, <1>2 DEF BasicInv, TypeOK, SubmissionInv, Forward, Summarised

LEMMA UploadForward ==
    ASSUME BasicInv, NEW u \in Subs, Upload(u)
    PROVE  \A s \in Subs : Forward(s) /\ SubmissionInv(s)'
  BY DEF Upload, BasicInv, TypeOK, SubmissionInv, Forward, Summarised

LEMMA StillForward ==
    ASSUME BasicInv, UNCHANGED database
    PROVE  \A s \in Subs : Forward(s) /\ SubmissionInv(s)'
  BY DEF database, BasicInv, SubmissionInv, Forward, Summarised

\* Steps of the others cannot spoil what is known of a request.
LEMMA RequestKept ==
    ASSUME BasicInv, NEW q \in Requests, Forward(target[q]),
           pc'[q] = pc[q], op'[q] = op[q], target'[q] = target[q],
           work'[q] = work[q]
    PROVE  RequestInv(q)'
  BY DEF BasicInv, RequestInv, Forward, TypeOK, ExtractPcs, AutomatePcs

LEMMA AnswerOrRaise ==
    ASSUME TypeOK, NEW p \in Requests,
           \/ \E r : Answer(p, r)
           \/ \E code : Respond(p, code)
           \/ \E why : Raise(p, why)
    PROVE  pc'[p] \in {"idle", "fail"} /\ OthersKept(p)
  BY DEF TypeOK, Answer, Respond, Raise, Goto, OthersKept, asked

\* A request between these steps promises nothing.
LEMMA IdleRequestInv ==
    ASSUME NEW p \in Requests,
           pc'[p] \in Pcs \ ({"engine", "markFailed"} \cup ExtractPcs
                              \cup AutomatePcs)
    PROVE  RequestInv(p)'
  BY DEF RequestInv

\* Steps that read or check one thing and move on to the next.
LEMMA ExtractOnwards ==
    ASSUME BasicInv, NEW p \in Requests,
           UNCHANGED <<database, files, asked, work>>,
           \/ /\ pc[p] \in ExtractPcs
              /\ \E l \in ExtractPcs : Goto(p, l)
           \/ /\ pc[p] \in AutomatePcs
              /\ \E l \in AutomatePcs : Goto(p, l)
    PROVE  RequestInv(p)' /\ OthersKept(p)
<1> USE DEF BasicInv, TypeOK, Goto, asked, database
<1>1. OthersKept(p)
  BY DEF OthersKept
<1>2. RequestInv(p)
  OBVIOUS
<1> QED
  BY <1>1, <1>2 DEF RequestInv, ExtractPcs, AutomatePcs

LEMMA ActorKept ==
    ASSUME BasicInv, NEW p \in Requests, Local(p)
    PROVE  RequestInv(p)' /\ OthersKept(p)
<1>0. /\ TypeOK /\ RequestInv(p) /\ target[p] \in Subs
      /\ SubmissionInv(target[p])
  BY DEF BasicInv, TypeOK
<1>1. ASSUME pc'[p] \in {"idle", "fail"}, OthersKept(p)
      PROVE  RequestInv(p)' /\ OthersKept(p)
  BY <1>1, IdleRequestInv DEF Pcs, ExtractPcs, AutomatePcs
<1>2. CASE \/ NotFound(p) \/ WrongStatus(p) \/ RulesUnavailable(p)
           \/ WorkbookMissing(p) \/ PoolTimeout(p) \/ EngineFails(p)
           \/ MarkFailedLost(p) \/ ReadSummary(p) \/ RefuseResult(p)
           \/ Export(p) \/ LoadError(p) \/ StepError(p)
  <2>1. \/ \E r : Answer(p, r)
        \/ \E code : Respond(p, code)
        \/ \E why : Raise(p, why)
    BY <1>2 DEF NotFound, WrongStatus, RulesUnavailable, WorkbookMissing,
       PoolTimeout, EngineFails, MarkFailedLost, ReadSummary, RefuseResult,
       Export, LoadError, StepError
  <2> QED
    BY <1>0, <1>1, <2>1, AnswerOrRaise
<1>3. CASE Begin(p)
  <2>1. OthersKept(p)
    BY <1>0, <1>3 DEF Begin, OthersKept, TypeOK, Goto, asked
  <2>2. CASE op[p] \in {"summary", "download"}
    <3>1. pc'[p] \in {"readSummary", "readCounts"}
      BY <1>0, <1>3, <2>2 DEF Begin, TypeOK, Goto
    <3> QED
      BY <2>1, <3>1, IdleRequestInv DEF Pcs, ReadPcs, InTransaction, Working,
         ExtractPcs, AutomatePcs
  <2>3. CASE op[p] = "extract"
    <3>1. pc'[p] = "engine" /\ status[target[p]] = "UPLOADED"
      BY <1>0, <1>3, <2>3 DEF Begin, TypeOK, Goto, Accepted, Expected
    <3> QED
      BY <1>3, <2>1, <2>3, <3>1 DEF Begin, RequestInv, ExtractPcs,
         AutomatePcs, asked, database
  <2>4. CASE op[p] = "automate"
    <3>1. pc'[p] = "engine" /\ status[target[p]] = "EXTRACTED"
      BY <1>0, <1>3, <2>4 DEF Begin, TypeOK, Goto, Accepted, Expected
    <3>2. header[target[p]] # 0
      BY <1>0, <3>1 DEF SubmissionInv
    <3> QED
      BY <1>3, <2>1, <2>4, <3>1, <3>2 DEF Begin, RequestInv, ExtractPcs,
         AutomatePcs, asked, database
  <2> QED
    BY <1>0, <2>2, <2>3, <2>4 DEF TypeOK, Ops
<1>4. CASE Engine(p)
  <2>1. OthersKept(p)
    BY <1>0, <1>4 DEF Engine, OthersKept, TypeOK, Goto, asked
  <2>2. /\ pc[p] = "engine"
        /\ pc'[p] = IF op[p] = "extract" THEN "insert" ELSE "scope"
        /\ UNCHANGED <<database, op, target>>
    BY <1>0, <1>4 DEF Engine, TypeOK, Goto, asked
  <2>3. work'[p].book \in Books
    BY <1>0, <1>4, ConstantsAssumption DEF Engine, TypeOK, Work
  <2> QED
    BY <1>0, <2>1, <2>2, <2>3 DEF RequestInv, ExtractPcs, AutomatePcs,
       database
<1>5. CASE InsertRows(p) \/ MarkExtracted(p) \/ Match(p) \/ UpdateRows(p)
           \/ Summarise(p) \/ MarkAutomated(p)
  <2>1. CASE \E why : Raise(p, why)
    BY <1>0, <1>1, <2>1, AnswerOrRaise
  <2>2. CASE ~\E why : Raise(p, why)
    BY <1>5, <2>2, ExtractOnwards DEF InsertRows, MarkExtracted, Match,
       UpdateRows, Summarise, MarkAutomated, ExtractPcs, AutomatePcs
  <2> QED
    BY <2>1, <2>2
<1>6. CASE Scope(p) \/ Fingerprint(p) \/ Digest(p) \/ Register(p)
  <2>1. CASE \E why : Raise(p, why)
    BY <1>0, <1>1, <2>1, AnswerOrRaise
  <2>2. CASE ~\E why : Raise(p, why)
    <3>1. /\ pc[p] \in AutomatePcs
          /\ pc'[p] \in AutomatePcs
          /\ work'[p].book = work[p].book
          /\ UNCHANGED <<database, op, target>>
      BY <1>0, <1>6, <2>2 DEF Scope, Fingerprint, Digest, Register, TypeOK,
         Work, Goto, AutomatePcs, asked
    <3>2. OthersKept(p)
      BY <1>0, <1>6, <2>2 DEF Scope, Fingerprint, Digest, Register, TypeOK,
         Goto, asked, OthersKept
    <3> QED
      BY <1>0, <3>1, <3>2 DEF RequestInv, ExtractPcs, AutomatePcs, database
  <2> QED
    BY <2>1, <2>2
<1>7. CASE LoadToFail(p)
  <2>1. CASE \E code : Respond(p, code)
    BY <1>0, <1>1, <2>1, AnswerOrRaise
  <2>2. CASE ~\E code : Respond(p, code)
    <3>1. /\ pc'[p] = "markFailed"
          /\ work'[p].status = status[target[p]]
          /\ status[target[p]] # "ABSENT"
          /\ UNCHANGED <<database, op, target>>
      BY <1>0, <1>7, <2>2 DEF LoadToFail, TypeOK, Work, Goto, asked
    <3>2. OthersKept(p)
      BY <1>0, <1>7, <2>2 DEF LoadToFail, TypeOK, Goto, asked, OthersKept
    <3> QED
      BY <1>0, <3>1, <3>2 DEF RequestInv, ExtractPcs, AutomatePcs, database
  <2> QED
    BY <2>1, <2>2
<1>8. CASE ReadCounts(p) \/ ReadRows(p) \/ Verify(p)
  <2>1. CASE \E code : Respond(p, code)
    BY <1>0, <1>1, <2>1, AnswerOrRaise
  <2>2. CASE ~\E code : Respond(p, code)
    <3>1. pc'[p] \in {"readRows", "verify", "export"} /\ OthersKept(p)
      BY <1>0, <1>8, <2>2 DEF ReadCounts, ReadRows, Verify, TypeOK, Goto,
         asked, OthersKept
    <3> QED
      BY <3>1, IdleRequestInv DEF Pcs, InTransaction, Working, ReadPcs,
         ExtractPcs, AutomatePcs
  <2> QED
    BY <2>1, <2>2
<1> QED
  BY <1>2, <1>3, <1>4, <1>5, <1>6, <1>7, <1>8 DEF Local

LEMMA EnvironmentKept ==
    ASSUME BasicInv,
           \/ \E s \in Subs : Upload(s) \/ ReplaceWorkbook(s)
           \/ \E p \in Requests, o \in Ops, s \in Subs : Send(p, o, s)
           \/ ReplaceRules \/ Crash
    PROVE  /\ \A q \in Requests : RequestInv(q)'
           /\ \A s \in Subs : SubmissionInv(s)'
<1>0. TypeOK
  BY DEF BasicInv
<1>1. ASSUME NEW s \in Subs, Upload(s)
      PROVE  /\ \A q \in Requests : RequestInv(q)'
             /\ \A t \in Subs : SubmissionInv(t)'
  <2>1. UNCHANGED <<pc, op, target, work>>
    BY <1>1 DEF Upload, asked
  <2> QED
    BY <1>0, <1>1, <2>1, UploadForward, RequestKept DEF TypeOK
<1>2. ASSUME NEW s \in Subs, ReplaceWorkbook(s)
      PROVE  /\ \A q \in Requests : RequestInv(q)'
             /\ \A t \in Subs : SubmissionInv(t)'
  <2>1. UNCHANGED <<database, pc, op, target, work>>
    BY <1>2 DEF ReplaceWorkbook, asked
  <2> QED
    BY <1>0, <2>1, StillForward, RequestKept DEF TypeOK
<1>3. ASSUME NEW p \in Requests, NEW o \in Ops, NEW s \in Subs, Send(p, o, s)
      PROVE  /\ \A q \in Requests : RequestInv(q)'
             /\ \A t \in Subs : SubmissionInv(t)'
  <2>1. UNCHANGED database /\ pc'[p] = "load" /\ OthersKept(p)
    BY <1>0, <1>3 DEF Send, TypeOK, Goto, OthersKept
  <2>2. RequestInv(p)'
    BY <2>1, IdleRequestInv DEF Pcs, ExtractPcs, AutomatePcs
  <2> QED
    BY <1>0, <2>1, <2>2, StillForward, RequestKept DEF TypeOK, OthersKept
<1>4. CASE ReplaceRules
  <2>1. UNCHANGED <<database, pc, op, target, work>>
    BY <1>4 DEF ReplaceRules, asked
  <2> QED
    BY <1>0, <2>1, StillForward, RequestKept DEF TypeOK
<1>5. CASE Crash
  <2>1. UNCHANGED database /\ \A q \in Requests : pc'[q] = "idle"
    BY <1>5 DEF Crash
  <2> QED
    BY <2>1, StillForward, IdleRequestInv DEF Pcs, ExtractPcs, AutomatePcs
<1> QED
  BY <1>1, <1>2, <1>3, <1>4, <1>5

LEMMA BasicStep == BasicInv /\ [Next]_vars => BasicInv'
<1> SUFFICES ASSUME BasicInv, [Next]_vars
             PROVE  BasicInv'
  OBVIOUS
<1>0. TypeOK /\ TypeOK'
  BY TypeStep DEF BasicInv
<1> SUFFICES /\ \A q \in Requests : RequestInv(q)'
             /\ \A s \in Subs : SubmissionInv(s)'
  BY <1>0 DEF BasicInv
<1>1. ASSUME NEW p \in Requests, RequestInv(p)', OthersKept(p),
             \A s \in Subs : Forward(s) /\ SubmissionInv(s)'
      PROVE  /\ \A q \in Requests : RequestInv(q)'
             /\ \A s \in Subs : SubmissionInv(s)'
  BY <1>0, <1>1, RequestKept DEF TypeOK, OthersKept
<1>2. ASSUME NEW p \in Requests,
             \A s \in Subs : Forward(s) /\ SubmissionInv(s)',
             \/ \E r : Answer(p, r)
             \/ \E code : Respond(p, code)
             \/ \E why : Raise(p, why)
      PROVE  /\ \A q \in Requests : RequestInv(q)'
             /\ \A s \in Subs : SubmissionInv(s)'
  <2>1. pc'[p] \in {"idle", "fail"} /\ OthersKept(p)
    BY <1>0, <1>2, AnswerOrRaise
  <2> QED
    BY <1>1, <1>2, <2>1, IdleRequestInv DEF Pcs, ExtractPcs, AutomatePcs
<1>3. ASSUME NEW p \in Requests, Local(p)
      PROVE  /\ \A q \in Requests : RequestInv(q)'
             /\ \A s \in Subs : SubmissionInv(s)'
  <2>1. UNCHANGED database
    BY <1>0, <1>3, LocalStepTyped DEF Local
  <2> QED
    BY <1>1, <1>3, <2>1, ActorKept, StillForward
<1>4. ASSUME NEW p \in Requests, CommitExtract(p) \/ CommitAutomate(p)
      PROVE  /\ \A q \in Requests : RequestInv(q)'
             /\ \A s \in Subs : SubmissionInv(s)'
  BY <1>2, <1>4, PublishForward DEF CommitExtract, CommitAutomate
<1>5. ASSUME NEW p \in Requests, CommitLost(p)
      PROVE  /\ \A q \in Requests : RequestInv(q)'
             /\ \A s \in Subs : SubmissionInv(s)'
  BY <1>2, <1>5, PublishForward DEF CommitLost
<1>6. ASSUME NEW p \in Requests, MarkFailed(p)
      PROVE  /\ \A q \in Requests : RequestInv(q)'
             /\ \A s \in Subs : SubmissionInv(s)'
  <2>1. \E code : Respond(p, code)
    BY <1>6 DEF MarkFailed
  <2> QED
    BY <1>2, <1>6, <2>1, MarkFailedForward
<1>7. CASE UNCHANGED vars
  BY <1>0, <1>7, StillForward, RequestKept DEF vars, asked, TypeOK
<1> QED
  BY <1>3, <1>4, <1>5, <1>6, <1>7, EnvironmentKept, NextSplit

LEMMA BasicInit == Init => BasicInv
<1> SUFFICES ASSUME Init
             PROVE  BasicInv
  OBVIOUS
<1>1. RequestsTyped
  BY NullRecords DEF Init, RequestsTyped, Pcs, Ops
<1>2. Blank \in Verdict
  BY DEF Blank, Verdict, RulesSeen
<1>3. StoresTyped
  BY <1>2 DEF Init, StoresTyped, Statuses, Reasons, RulesSeen
<1>4. \A p \in Requests : RequestInv(p)
  BY DEF Init, RequestInv, ExtractPcs, AutomatePcs
<1>5. \A s \in Subs : SubmissionInv(s)
  BY DEF Init, SubmissionInv, Summarised
<1> QED
  BY <1>1, <1>3, <1>4, <1>5, TypeHalves DEF BasicInv

\* Every variable keeps its type, however requests overlap and whatever the
\* environment does.
THEOREM WorkflowTypeCorrect == Spec => []TypeOK
<1>1. BasicInv => TypeOK
  BY DEF BasicInv
<1> QED
  BY <1>1, BasicInit, BasicStep, PTL DEF Spec

\* An upload that no request has moved on is bare (workflow_service.py, "no
\* rows or summary survive without the status"): no rolled back, failed or
\* interrupted step leaves a row, a summary, a header row or a failure
\* reason behind it, under any interleaving and every disturbance.
THEOREM UploadsStayBare == Spec => []UploadedIsBare
<1>1. BasicInv => UploadedIsBare
  BY DEF BasicInv, SubmissionInv, UploadedIsBare
<1> QED
  BY <1>1, BasicInit, BasicStep, PTL DEF Spec

----------------------------------------------------------------------------
(* What a summary and a status rest on, as long as no stored workbook is   *)
(* replaced while a request is in flight                                   *)

WorkbooksStay == "book" \notin Disturbances

Matched == AutomatePcs \ {"scope", "match"}
Inserted == {"markExtracted", "commitExtract"}
Summed == {"markAutomated", "commitAutomate"}

\* All extractions of a submission that overlap have read the same workbook,
\* so one that still has rows to insert finds none stored; a matched automation
\* has the stored rows in hand; and one that inserted its summary is the first.
CoherentRequest(p) ==
    /\ op[p] = "extract" /\ pc[p] \in {"engine"} \cup ExtractPcs
          /\ header[target[p]] # 0 =>
             stored[target[p]] = RowsOf[file[target[p]]]
    /\ pc[p] \in ExtractPcs => work[p].book = file[target[p]]
    /\ pc[p] \in Inserted => RowsOf[work[p].book] \cap stored[target[p]] = {}
    /\ pc[p] \in Matched => stored[target[p]] = RowsOf[work[p].book]
    /\ pc[p] \in Summed => ~Summarised(target[p])
    /\ pc[p] \in Summed \cup {"summarise"} =>
          work[p].fresh \/ Registered(work[p].digest)

\* The unique indexes as locks: uncommitted rows do not collide.
Exclusive(p, q) ==
    p # q /\ target[p] = target[q] =>
       /\ pc[p] \in Inserted /\ pc[q] \in Inserted =>
             RowsOf[work[p].book] \cap RowsOf[work[q].book] = {}
       /\ pc[p] \in Summed => pc[q] \notin Summed

Described(m) ==
    /\ Cardinality(stored[m.sub]) = m.rowCount
    /\ \A r \in stored[m.sub] :
          verdict[m.sub][r] = [doc |-> m.doc, sow |-> m.sow]

CoherentSubmission(s) ==
    /\ header[s] # 0 =>
          \E b \in Books : stored[s] = RowsOf[b] /\ header[s] = HeaderOf[b]
    /\ status[s] = "AUTOMATED" =>
          \E m \in summaries : m.sub = s /\ Registered(m.ruleSet)

Coherent ==
    /\ BasicInv
    /\ \A p \in Requests : CoherentRequest(p)
    /\ \A p, q \in Requests : Exclusive(p, q)
    /\ \A m \in summaries : Described(m)
    /\ \A s \in Subs : CoherentSubmission(s)

\* What another request must leave alone for q to stay coherent.
LEMMA CoherentKept ==
    ASSUME NEW q \in Requests, CoherentRequest(q),
           pc'[q] = pc[q], op'[q] = op[q], target'[q] = target[q],
           work'[q] = work[q],
           pc[q] \in {"engine"} \cup ExtractPcs \cup AutomatePcs =>
              /\ stored'[target[q]] = stored[target[q]]
              /\ header'[target[q]] = header[target[q]]
              /\ file'[target[q]] = file[target[q]]
              /\ Summarised(target[q])' = Summarised(target[q])
              /\ \A d : Registered(d) => Registered(d)'
    PROVE  CoherentRequest(q)'
  BY DEF CoherentRequest, ExtractPcs, AutomatePcs, Inserted, Matched, Summed

LEMMA IdleCoherent ==
    ASSUME NEW p \in Requests,
           pc'[p] \notin {"engine"} \cup ExtractPcs \cup AutomatePcs
    PROVE  CoherentRequest(p)'
  BY DEF CoherentRequest, ExtractPcs, AutomatePcs, Inserted, Matched, Summed

\* The pairs p is in; all others are as they were.
LEMMA ExclusiveKept ==
    ASSUME Coherent, NEW p \in Requests, OthersKept(p),
           \A q \in Requests : Exclusive(p, q)' /\ Exclusive(q, p)'
    PROVE  \A q, r \in Requests : Exclusive(q, r)'
  BY DEF Coherent, Exclusive, OthersKept

LEMMA IdleExclusive ==
    ASSUME NEW p \in Requests, pc'[p] \notin Inserted \cup Summed
    PROVE  \A q \in Requests : Exclusive(p, q)' /\ Exclusive(q, p)'
  BY DEF Exclusive

LEMMA StoresCoherentKept ==
    ASSUME Coherent, UNCHANGED database
    PROVE  /\ \A m \in summaries' : Described(m)'
           /\ \A s \in Subs : CoherentSubmission(s)'
  BY DEF Coherent, Described, CoherentSubmission, Registered, database

\* A step that ends the request's own transaction.
LEMMA EndedCoherent ==
    ASSUME Coherent, NEW p \in Requests, OthersKept(p),
           pc'[p] \notin {"engine"} \cup ExtractPcs \cup AutomatePcs,
           \A q \in Requests \ {p} : CoherentRequest(q)'
    PROVE  /\ \A q \in Requests : CoherentRequest(q)'
           /\ \A q, r \in Requests : Exclusive(q, r)'
<1>1. \A q \in Requests : Exclusive(p, q)' /\ Exclusive(q, p)'
  BY IdleExclusive DEF Inserted, Summed, ExtractPcs, AutomatePcs
<1> QED
  BY <1>1, IdleCoherent, ExclusiveKept

LEMMA ActorCoherent ==
    ASSUME Coherent, NEW p \in Requests, Local(p), OthersKept(p),
           UNCHANGED <<database, files>>
    PROVE  /\ CoherentRequest(p)'
           /\ \A q \in Requests : Exclusive(p, q)' /\ Exclusive(q, p)'
<1>0. /\ TypeOK /\ RequestInv(p) /\ CoherentRequest(p)
      /\ target[p] \in Subs /\ SubmissionInv(target[p])
      /\ \A q \in Requests : Exclusive(p, q) /\ Exclusive(q, p)
  BY DEF Coherent, BasicInv, TypeOK
<1>1. ASSUME pc'[p] \notin {"engine"} \cup ExtractPcs \cup AutomatePcs
      PROVE  /\ CoherentRequest(p)'
             /\ \A q \in Requests : Exclusive(p, q)' /\ Exclusive(q, p)'
  BY <1>1, IdleCoherent, IdleExclusive DEF Inserted, Summed, ExtractPcs,
     AutomatePcs
<1>2. ASSUME \/ \E r : Answer(p, r)
             \/ \E code : Respond(p, code)
             \/ \E why : Raise(p, why)
      PROVE  /\ CoherentRequest(p)'
             /\ \A q \in Requests : Exclusive(p, q)' /\ Exclusive(q, p)'
  BY <1>0, <1>1, <1>2, AnswerOrRaise DEF ExtractPcs, AutomatePcs
<1>3. CASE \/ NotFound(p) \/ WrongStatus(p) \/ RulesUnavailable(p)
           \/ WorkbookMissing(p) \/ PoolTimeout(p) \/ EngineFails(p)
           \/ MarkFailedLost(p) \/ ReadSummary(p) \/ RefuseResult(p)
           \/ Export(p) \/ LoadError(p) \/ StepError(p)
  BY <1>2, <1>3 DEF NotFound, WrongStatus, RulesUnavailable, WorkbookMissing,
     PoolTimeout, EngineFails, MarkFailedLost, ReadSummary, RefuseResult,
     Export, LoadError, StepError
<1>4. CASE Begin(p)
  <2>1. /\ UNCHANGED <<op, target, header>>
        /\ pc'[p] \in {"readSummary", "readCounts", "engine"}
        /\ op[p] = "extract" => status[target[p]] = "UPLOADED"
    BY <1>0, <1>4 DEF Begin, TypeOK, Goto, Accepted, Expected, asked, database
  <2>2. op[p] = "extract" => header[target[p]] = 0
    BY <1>0, <2>1 DEF SubmissionInv
  <2>3. CoherentRequest(p)'
    BY <2>1, <2>2 DEF CoherentRequest, ExtractPcs, AutomatePcs, Inserted,
       Matched, Summed
  <2> QED
    BY <2>1, <2>3, IdleExclusive DEF Inserted, Summed
<1>5. CASE Engine(p)
  <2>1. /\ pc[p] = "engine"
        /\ pc'[p] = IF op[p] = "extract" THEN "insert" ELSE "scope"
        /\ work'[p].book = file[target[p]]
        /\ UNCHANGED <<stored, header, file, op, target>>
    BY <1>0, <1>5 DEF Engine, TypeOK, Work, Goto, asked, database, files
  <2>2. CoherentRequest(p)'
    BY <1>0, <2>1 DEF CoherentRequest, ExtractPcs, AutomatePcs, Inserted,
       Matched, Summed
  <2> QED
    BY <2>1, <2>2, IdleExclusive DEF Inserted, Summed
<1>6. CASE InsertRows(p)
  <2>1. CASE \E why : Raise(p, why)
    BY <1>2, <2>1
  <2>2. CASE ~\E why : Raise(p, why)
    <3>1. /\ pc[p] = "insert" /\ pc'[p] = "markExtracted"
          /\ stored[target[p]] \cap RowsOf[work[p].book] = {}
          /\ UNCHANGED <<stored, header, file, op, target, work>>
          /\ \A q \in Requests \ {p} :
                ~HoldsInserted(q, target[p], RowsOf[work[p].book])
      BY <1>0, <1>6, <2>2 DEF InsertRows, TypeOK, Goto, asked, database, files
    <3>2. CoherentRequest(p)'
      BY <1>0, <3>1 DEF CoherentRequest, ExtractPcs, AutomatePcs, Inserted,
         Matched, Summed
    <3> QED
      BY <3>1, <3>2 DEF Exclusive, OthersKept, HoldsInserted, Inserted, Summed
  <2> QED
    BY <2>1, <2>2
<1>7. CASE MarkExtracted(p) \/ MarkAutomated(p)
  <2>1. /\ \/ pc[p] = "markExtracted" /\ pc'[p] = "commitExtract"
           \/ pc[p] = "markAutomated" /\ pc'[p] = "commitAutomate"
        /\ UNCHANGED <<stored, header, file, summaries, ruleSets>>
        /\ UNCHANGED <<op, target, work>>
    BY <1>0, <1>7 DEF MarkExtracted, MarkAutomated, TypeOK, Goto, asked,
       database, files
  <2>2. CoherentRequest(p)'
    BY <1>0, <2>1 DEF CoherentRequest, ExtractPcs, AutomatePcs, Inserted,
       Matched, Summed, Summarised, Registered
  <2> QED
    BY <1>0, <2>1, <2>2 DEF Exclusive, OthersKept, Inserted, Summed
<1>8. CASE Match(p) \/ UpdateRows(p) \/ Fingerprint(p) \/ Scope(p)
  <2>1. CASE \E why : Raise(p, why)
    BY <1>2, <2>1
  <2>2. CASE ~\E why : Raise(p, why)
    <3>1. /\ \/ pc[p] = "scope" /\ pc'[p] = "match"
             \/ /\ pc[p] = "match" /\ pc'[p] = "update"
                /\ stored[target[p]] = RowsOf[work[p].book]
             \/ pc[p] = "update" /\ pc'[p] = "fingerprint"
             \/ pc[p] = "fingerprint" /\ pc'[p] = "digest"
          /\ work'[p].book = work[p].book
          /\ UNCHANGED <<stored, op, target>>
      BY <1>0, <1>8, <2>2 DEF Match, UpdateRows, Fingerprint, Scope, TypeOK,
         Work, Goto, asked, database
    <3>2. CoherentRequest(p)'
      BY <1>0, <3>1 DEF CoherentRequest, ExtractPcs, AutomatePcs, Inserted,
         Matched, Summed
    <3> QED
      BY <3>1, <3>2, IdleExclusive DEF Inserted, Summed
  <2> QED
    BY <2>1, <2>2
<1>9. CASE Digest(p) \/ Register(p)
  <2>1. CASE \E why : Raise(p, why)
    BY <1>2, <2>1
  <2>2. CASE ~\E why : Raise(p, why)
    <3>1. /\ pc[p] \in {"digest", "register"}
          /\ pc'[p] \in {"register", "summarise"}
          /\ pc'[p] = "summarise" =>
                work'[p].fresh \/ Registered(work'[p].digest)
          /\ work'[p].book = work[p].book
          /\ UNCHANGED <<stored, ruleSets, op, target>>
      BY <1>0, <1>9, <2>2 DEF Digest, Register, TypeOK, Work, Goto, asked,
         database
    <3>2. CoherentRequest(p)'
      BY <1>0, <3>1 DEF CoherentRequest, ExtractPcs, AutomatePcs, Inserted,
         Matched, Summed, Registered
    <3> QED
      BY <3>1, <3>2, IdleExclusive DEF Inserted, Summed
  <2> QED
    BY <2>1, <2>2
<1>10. CASE Summarise(p)
  <2>1. CASE \E why : Raise(p, why)
    BY <1>2, <2>1
  <2>2. CASE ~\E why : Raise(p, why)
    <3>1. /\ pc[p] = "summarise" /\ pc'[p] = "markAutomated"
          /\ ~Summarised(target[p])
          /\ UNCHANGED <<stored, summaries, ruleSets, op, target, work>>
          /\ \A q \in Requests \ {p} : ~HoldsSummary(q, target[p])
      BY <1>0, <1>10, <2>2 DEF Summarise, TypeOK, Goto, asked, database
    <3>2. CoherentRequest(p)'
      BY <1>0, <3>1 DEF CoherentRequest, ExtractPcs, AutomatePcs, Inserted,
         Matched, Summed, Summarised, Registered
    <3> QED
      BY <3>1, <3>2 DEF Exclusive, OthersKept, HoldsSummary, Inserted, Summed
  <2> QED
    BY <2>1, <2>2
<1>11. CASE LoadToFail(p) \/ ReadCounts(p) \/ ReadRows(p) \/ Verify(p)
  <2>1. CASE \E code : Respond(p, code)
    BY <1>2, <2>1
  <2>2. CASE ~\E code : Respond(p, code)
    BY <1>0, <1>1, <1>11, <2>2 DEF LoadToFail, ReadCounts, ReadRows, Verify,
       TypeOK, Goto, ExtractPcs, AutomatePcs
  <2> QED
    BY <2>1, <2>2
<1> QED
  BY <1>3, <1>4, <1>5, <1>6, <1>7, <1>8, <1>9, <1>10, <1>11 DEF Local

\* An extraction that commits stores the rows of the one workbook there is;
\* when another was faster it has none to store.
LEMMA ExtractPublished ==
    ASSUME Coherent, NEW p \in Requests, PublishExtract(p)
    PROVE  /\ target[p] \in Subs /\ work[p].book \in Books
           /\ work[p].book = file[target[p]]
           /\ stored'[target[p]] = RowsOf[work[p].book]
           /\ header'[target[p]] = HeaderOf[work[p].book]
           /\ header'[target[p]] # 0
           /\ header[target[p]] # 0 =>
                 /\ stored'[target[p]] = stored[target[p]]
                 /\ verdict'[target[p]] = verdict[target[p]]
           /\ header[target[p]] = 0 => stored[target[p]] = {}
           /\ \A s \in Subs \ {target[p]} :
                 /\ stored'[s] = stored[s] /\ header'[s] = header[s]
                 /\ verdict'[s] = verdict[s] /\ status'[s] = status[s]
           /\ status'[target[p]] = "EXTRACTED"
           /\ UNCHANGED <<summaries, ruleSets, file>>
<1>1. /\ TypeOK /\ RequestInv(p) /\ CoherentRequest(p)
      /\ target[p] \in Subs /\ SubmissionInv(target[p])
      /\ pc[p] = "commitExtract"
  BY DEF Coherent, BasicInv, TypeOK, PublishExtract
<1>2. /\ work[p].book \in Books
      /\ work[p].book = file[target[p]]
      /\ RowsOf[work[p].book] \cap stored[target[p]] = {}
      /\ header[target[p]] # 0 => stored[target[p]] = RowsOf[work[p].book]
      /\ header[target[p]] = 0 => stored[target[p]] = {}
  BY <1>1 DEF RequestInv, SubmissionInv, CoherentRequest, Inserted, ExtractPcs
<1>3. /\ stored'[target[p]] = RowsOf[work[p].book]
      /\ header[target[p]] # 0 => RowsOf[work[p].book] = {}
  BY <1>1, <1>2 DEF PublishExtract, TypeOK
<1>4. /\ header'[target[p]] = HeaderOf[work[p].book]
      /\ header'[target[p]] # 0
      /\ status'[target[p]] = "EXTRACTED"
  BY <1>1, <1>2, ConstantsAssumption DEF PublishExtract, TypeOK
<1>5. ASSUME header[target[p]] # 0
      PROVE  verdict'[target[p]] = verdict[target[p]]
  <2>1. RowsOf[work[p].book] = {}
    BY <1>3, <1>5
  <2>2. verdict'[target[p]] = [r \in SourceRows |-> verdict[target[p]][r]]
    BY <1>1, <2>1 DEF PublishExtract, TypeOK
  <2>3. verdict[target[p]] \in [SourceRows -> Verdict]
    BY <1>1 DEF TypeOK
  <2> QED
    BY <2>2, <2>3
<1>6. /\ \A s \in Subs \ {target[p]} :
            /\ stored'[s] = stored[s] /\ header'[s] = header[s]
            /\ verdict'[s] = verdict[s] /\ status'[s] = status[s]
      /\ UNCHANGED <<summaries, ruleSets, file>>
  BY <1>1 DEF PublishExtract, TypeOK, files
<1> QED
  BY <1>1, <1>2, <1>3, <1>4, <1>5, <1>6

LEMMA ExtractCoherent ==
    ASSUME Coherent, NEW p \in Requests, PublishExtract(p), OthersKept(p)
    PROVE  /\ \A q \in Requests \ {p} : CoherentRequest(q)'
           /\ \A m \in summaries' : Described(m)'
           /\ \A s \in Subs : CoherentSubmission(s)'
<1> DEFINE s == target[p]
<1>1. ASSUME NEW q \in Requests \ {p}
      PROVE  CoherentRequest(q)'
  <2>0. CoherentRequest(q) /\ RequestInv(q) /\ Exclusive(p, q)
    BY DEF Coherent, BasicInv
  <2>1. CASE target[q] # s \/ header[s] # 0
    <3>1. target[q] \in Subs
      BY DEF Coherent, BasicInv, TypeOK
    <3>2. /\ stored'[target[q]] = stored[target[q]]
          /\ header[target[q]] # 0 <=> header'[target[q]] # 0
      BY <2>1, <3>1, ExtractPublished
    <3> QED
      BY <2>0, <3>2, ExtractPublished DEF CoherentRequest, OthersKept,
         Summarised, Registered
  <2>2. CASE target[q] = s /\ header[s] = 0
    <3>1. pc[q] \notin AutomatePcs
      BY <2>0, <2>2 DEF RequestInv
    <3>2. pc[q] \in Inserted =>
             RowsOf[work[p].book] \cap RowsOf[work[q].book] = {}
      BY <2>0, <2>2 DEF Exclusive, PublishExtract, Inserted
    <3> QED
      BY <2>0, <2>2, <3>1, <3>2, ExtractPublished DEF CoherentRequest,
         OthersKept, Matched, Summed, AutomatePcs
  <2> QED
    BY <2>1, <2>2
<1>2. ASSUME NEW m \in summaries'
      PROVE  Described(m)'
  <2>1. m \in summaries /\ m.sub \in Subs /\ Described(m)
    BY ExtractPublished DEF Coherent, BasicInv, TypeOK, SummaryRow
  <2>2. Summarised(m.sub)
    BY <2>1 DEF Summarised
  <2>3. header[m.sub] # 0
    BY <2>1, <2>2 DEF Coherent, BasicInv, SubmissionInv
  <2> QED
    BY <2>1, <2>3, ExtractPublished DEF Described
<1>3. ASSUME NEW t \in Subs
      PROVE  CoherentSubmission(t)'
  BY ExtractPublished DEF Coherent, CoherentSubmission, Registered
<1> QED
  BY <1>1, <1>2, <1>3

LEMMA AutomatePublished ==
    ASSUME Coherent, NEW p \in Requests, PublishAutomate(p), NEW n,
           n = [sub |-> target[p], ruleSet |-> work[p].digest,
                doc |-> work[p].doc, sow |-> work[p].sow,
                rowCount |-> Cardinality(RowsOf[work[p].book])]
    PROVE  /\ target[p] \in Subs /\ n.sub = target[p]
           /\ summaries' = summaries \cup {n}
           /\ Described(n)'
           /\ Registered(n.ruleSet)'
           /\ \A d : Registered(d) => Registered(d)'
           /\ ~Summarised(target[p])
           /\ \A s \in Subs \ {target[p]} :
                 verdict'[s] = verdict[s] /\ status'[s] = status[s]
           /\ UNCHANGED <<header, stored, file>>
<1>1. /\ TypeOK /\ RequestInv(p) /\ CoherentRequest(p)
      /\ target[p] \in Subs /\ pc[p] = "commitAutomate"
  BY DEF Coherent, BasicInv, TypeOK, PublishAutomate
<1>2. /\ ~Summarised(target[p])
      /\ stored[target[p]] = RowsOf[work[p].book]
      /\ work[p].fresh \/ Registered(work[p].digest)
      /\ stored[target[p]] \subseteq SourceRows
  BY <1>1 DEF CoherentRequest, Summed, Matched, AutomatePcs, TypeOK
<1>3. /\ summaries' = summaries \cup {n}
      /\ \A s \in Subs \ {target[p]} :
            verdict'[s] = verdict[s] /\ status'[s] = status[s]
      /\ UNCHANGED <<header, stored, file>>
  BY <1>1 DEF PublishAutomate, TypeOK, files
<1>4. /\ n.sub = target[p] /\ n.ruleSet = work[p].digest
      /\ n.doc = work[p].doc /\ n.sow = work[p].sow
      /\ n.rowCount = Cardinality(RowsOf[work[p].book])
  OBVIOUS
<1>5. \A r \in RowsOf[work[p].book] :
         verdict'[target[p]][r] = [doc |-> work[p].doc, sow |-> work[p].sow]
  BY <1>1, <1>2 DEF PublishAutomate, TypeOK
<1>6. Described(n)'
  BY <1>2, <1>3, <1>4, <1>5 DEF Described
<1>7. \A d : Registered(d) => Registered(d)'
  BY DEF PublishAutomate, Registered
<1>8. ASSUME work[p].fresh
      PROVE  Registered(n.ruleSet)'
  <2>1. [digest |-> work[p].digest, counts |-> work[p].counts] \in ruleSets'
    BY <1>8 DEF PublishAutomate
  <2> QED
    BY <1>4, <2>1 DEF Registered
<1>9. Registered(n.ruleSet)'
  BY <1>2, <1>4, <1>7, <1>8
<1> QED
  BY <1>1, <1>2, <1>3, <1>4, <1>6, <1>7, <1>9

LEMMA AutomateCoherent ==
    ASSUME Coherent, NEW p \in Requests, PublishAutomate(p), OthersKept(p)
    PROVE  /\ \A q \in Requests \ {p} : CoherentRequest(q)'
           /\ \A m \in summaries' : Described(m)'
           /\ \A s \in Subs : CoherentSubmission(s)'
<1> PICK n : n = [sub |-> target[p], ruleSet |-> work[p].digest,
                  doc |-> work[p].doc, sow |-> work[p].sow,
                  rowCount |-> Cardinality(RowsOf[work[p].book])]
  OBVIOUS
<1>0. /\ target[p] \in Subs /\ n.sub = target[p]
      /\ summaries' = summaries \cup {n}
      /\ Described(n)'
      /\ Registered(n.ruleSet)'
      /\ \A d : Registered(d) => Registered(d)'
      /\ ~Summarised(target[p])
      /\ \A s \in Subs \ {target[p]} :
            verdict'[s] = verdict[s] /\ status'[s] = status[s]
      /\ UNCHANGED <<header, stored, file>>
  BY AutomatePublished
<1>1. ASSUME NEW q \in Requests \ {p}
      PROVE  CoherentRequest(q)'
  <2>1. /\ CoherentRequest(q)
        /\ pc[q] \in Summed => target[q] # target[p]
    BY DEF Coherent, Exclusive, PublishAutomate, Summed
  <2>2. /\ pc'[q] = pc[q] /\ op'[q] = op[q]
        /\ target'[q] = target[q] /\ work'[q] = work[q]
    BY DEF OthersKept
  <2>3. pc[q] \in Summed => ~Summarised(target[q])'
    BY <1>0, <2>1, <2>2 DEF CoherentRequest, Summarised
  <2> QED
    BY <1>0, <2>1, <2>2, <2>3 DEF CoherentRequest
<1>2. ASSUME NEW m \in summaries'
      PROVE  Described(m)'
  <2>1. CASE m \in summaries
    <3>1. m.sub \in Subs /\ m.sub # target[p] /\ Described(m)
      BY <1>0, <2>1 DEF Summarised, Coherent, BasicInv, TypeOK, SummaryRow
    <3> QED
      BY <1>0, <3>1 DEF Described
  <2>2. CASE m = n
    BY <1>0, <2>2
  <2> QED
    BY <1>0, <2>1, <2>2
<1>3. ASSUME NEW t \in Subs
      PROVE  CoherentSubmission(t)'
  <2>1. ASSUME t = target[p]
        PROVE  \E m \in summaries' : m.sub = t /\ Registered(m.ruleSet)'
    BY <1>0, <2>1
  <2>2. ASSUME t # target[p], status'[t] = "AUTOMATED"
        PROVE  \E m \in summaries' : m.sub = t /\ Registered(m.ruleSet)'
    BY <1>0, <2>2 DEF Coherent, CoherentSubmission
  <2> QED
    BY <1>0, <2>1, <2>2 DEF Coherent, CoherentSubmission
<1> QED
  BY <1>1, <1>2, <1>3

LEMMA EnvironmentCoherent ==
    ASSUME WorkbooksStay, Coherent,
           \/ \E s \in Subs : Upload(s) \/ ReplaceWorkbook(s)
           \/ \E p \in Requests, o \in Ops, s \in Subs : Send(p, o, s)
           \/ ReplaceRules \/ Crash
    PROVE  /\ \A q \in Requests : CoherentRequest(q)'
           /\ \A q, r \in Requests : Exclusive(q, r)'
           /\ \A m \in summaries' : Described(m)'
           /\ \A s \in Subs : CoherentSubmission(s)'
<1> DEFINE Goal == /\ \A q \in Requests : CoherentRequest(q)'
                   /\ \A q, r \in Requests : Exclusive(q, r)'
                   /\ \A m \in summaries' : Described(m)'
                   /\ \A s \in Subs : CoherentSubmission(s)'
<1>0. TypeOK /\ BasicInv
  BY DEF Coherent, BasicInv
<1>1. ASSUME NEW s \in Subs, Upload(s)
      PROVE  Goal
  <2>1. /\ status[s] = "ABSENT" /\ status' = [status EXCEPT ![s] = "UPLOADED"]
        /\ \A t \in Subs \ {s} : file'[t] = file[t]
        /\ UNCHANGED <<header, stored, verdict, summaries, ruleSets>>
        /\ UNCHANGED <<pc, op, target, work>>
    BY <1>0, <1>1 DEF Upload, TypeOK, asked
  <2>2. ASSUME NEW q \in Requests
        PROVE  CoherentRequest(q)'
    <3>1. pc[q] \in {"engine"} \cup ExtractPcs \cup AutomatePcs =>
             target[q] # s
      BY <1>0, <2>1 DEF BasicInv, RequestInv
    <3>2. target[q] \in Subs /\ CoherentRequest(q)
      BY <1>0 DEF TypeOK, Coherent
    <3> QED
      BY <2>1, <3>1, <3>2, CoherentKept DEF Summarised, Registered
  <2>3. \A q, r \in Requests : Exclusive(q, r)'
    BY <2>1 DEF Coherent, Exclusive
  <2>4. \A m \in summaries' : Described(m)'
    BY <2>1 DEF Coherent, Described
  <2>5. \A t \in Subs : CoherentSubmission(t)'
    BY <1>0, <2>1 DEF Coherent, CoherentSubmission, Registered, TypeOK
  <2> QED
    BY <2>2, <2>3, <2>4, <2>5
<1>2. ASSUME NEW s \in Subs, ReplaceWorkbook(s)
      PROVE  Goal
  <2>1. UNCHANGED database /\ UNCHANGED <<pc, op, target, work>>
    BY <1>2 DEF ReplaceWorkbook, asked
  <2>2. \A q \in Requests : pc[q] = "idle"
    BY <1>2 DEF ReplaceWorkbook, WorkbooksStay, Quiet, InFlight
  <2>3. \A q \in Requests : CoherentRequest(q)'
    BY <2>1, <2>2, IdleCoherent DEF ExtractPcs, AutomatePcs
  <2>4. \A q, r \in Requests : Exclusive(q, r)'
    BY <2>1 DEF Coherent, Exclusive
  <2> QED
    BY <2>1, <2>3, <2>4, StoresCoherentKept
<1>3. ASSUME NEW p \in Requests, NEW o \in Ops, NEW s \in Subs, Send(p, o, s)
      PROVE  Goal
  <2>1. UNCHANGED <<database, files>> /\ pc'[p] = "load" /\ OthersKept(p)
    BY <1>0, <1>3 DEF Send, TypeOK, Goto, OthersKept
  <2>2. \A q \in Requests \ {p} : CoherentRequest(q)'
    BY <2>1, CoherentKept DEF OthersKept, Coherent, database, files,
       Summarised, Registered
  <2>3. pc'[p] \notin {"engine"} \cup ExtractPcs \cup AutomatePcs
    BY <2>1 DEF ExtractPcs, AutomatePcs
  <2> QED
    BY <2>1, <2>2, <2>3, EndedCoherent, StoresCoherentKept
<1>4. CASE ReplaceRules
  <2>1. UNCHANGED <<database, file>> /\ UNCHANGED <<pc, op, target, work>>
    BY <1>4 DEF ReplaceRules, asked
  <2>2. \A q \in Requests : CoherentRequest(q)'
    BY <2>1, CoherentKept DEF Coherent, database, Summarised, Registered
  <2>3. \A q, r \in Requests : Exclusive(q, r)'
    BY <2>1 DEF Coherent, Exclusive
  <2> QED
    BY <2>1, <2>2, <2>3, StoresCoherentKept
<1>5. CASE Crash
  <2>1. UNCHANGED database /\ \A q \in Requests : pc'[q] = "idle"
    BY <1>5 DEF Crash
  <2>2. \A q \in Requests : CoherentRequest(q)'
    BY <2>1, IdleCoherent DEF ExtractPcs, AutomatePcs
  <2>3. \A q, r \in Requests : Exclusive(q, r)'
    BY <2>1, IdleExclusive DEF Inserted, Summed
  <2> QED
    BY <2>1, <2>2, <2>3, StoresCoherentKept
<1> QED
  BY <1>1, <1>2, <1>3, <1>4, <1>5

LEMMA CoherentStep == WorkbooksStay /\ Coherent /\ [Next]_vars => Coherent'
<1> SUFFICES ASSUME WorkbooksStay, Coherent, [Next]_vars
             PROVE  Coherent'
  OBVIOUS
<1> DEFINE Goal == /\ \A q \in Requests : CoherentRequest(q)'
                   /\ \A q, r \in Requests : Exclusive(q, r)'
                   /\ \A m \in summaries' : Described(m)'
                   /\ \A s \in Subs : CoherentSubmission(s)'
<1>0. TypeOK /\ BasicInv /\ BasicInv'
  BY BasicStep DEF Coherent, BasicInv
<1>1. ASSUME NEW p \in Requests, Local(p)
      PROVE  Goal
  <2>1. UNCHANGED <<database, files>> /\ OthersKept(p)
    BY <1>0, <1>1, LocalStepTyped, ActorKept DEF Local
  <2>2. /\ CoherentRequest(p)'
        /\ \A q \in Requests : Exclusive(p, q)' /\ Exclusive(q, p)'
    BY <1>1, <2>1, ActorCoherent
  <2>3. \A q \in Requests \ {p} : CoherentRequest(q)'
    BY <2>1, CoherentKept DEF OthersKept, Coherent, database, files,
       Summarised, Registered
  <2>4. \A q, r \in Requests : Exclusive(q, r)'
    BY <2>1, <2>2, ExclusiveKept
  <2> QED
    BY <2>1, <2>2, <2>3, <2>4, StoresCoherentKept
<1>2. ASSUME NEW p \in Requests, PublishExtract(p) \/ PublishAutomate(p),
             \/ \E code : Respond(p, code)
             \/ \E why : Raise(p, why)
      PROVE  Goal
  <2>1. pc'[p] \in {"idle", "fail"} /\ OthersKept(p)
    BY <1>0, <1>2, AnswerOrRaise
  <2>2. /\ \A q \in Requests \ {p} : CoherentRequest(q)'
        /\ \A m \in summaries' : Described(m)'
        /\ \A s \in Subs : CoherentSubmission(s)'
    BY <1>2, <2>1, ExtractCoherent, AutomateCoherent
  <2>3. pc'[p] \notin {"engine"} \cup ExtractPcs \cup AutomatePcs
    BY <2>1 DEF ExtractPcs, AutomatePcs
  <2> QED
    BY <2>1, <2>2, <2>3, EndedCoherent
<1>3. ASSUME NEW p \in Requests,
             CommitExtract(p) \/ CommitAutomate(p) \/ CommitLost(p)
      PROVE  Goal
  BY <1>2, <1>3 DEF CommitExtract, CommitAutomate, CommitLost
<1>4. ASSUME NEW p \in Requests, MarkFailed(p)
      PROVE  Goal
  <2>1. pc'[p] \in {"idle", "fail"} /\ OthersKept(p)
    BY <1>0, <1>4, AnswerOrRaise DEF MarkFailed
  <2>2. /\ UNCHANGED <<header, stored, verdict, summaries, ruleSets, file>>
        /\ \A s \in Subs : status'[s] = "AUTOMATED" => status[s] = "AUTOMATED"
    BY <1>0, <1>4 DEF MarkFailed, TypeOK, files
  <2>3. \A q \in Requests \ {p} : CoherentRequest(q)'
    BY <2>1, <2>2, CoherentKept DEF OthersKept, Coherent, Summarised,
       Registered
  <2>4. /\ \A m \in summaries' : Described(m)'
        /\ \A s \in Subs : CoherentSubmission(s)'
    BY <2>2 DEF Coherent, Described, CoherentSubmission, Registered
  <2>5. pc'[p] \notin {"engine"} \cup ExtractPcs \cup AutomatePcs
    BY <2>1 DEF ExtractPcs, AutomatePcs
  <2> QED
    BY <2>1, <2>3, <2>4, <2>5, EndedCoherent
<1>5. ASSUME UNCHANGED vars
      PROVE  Goal
  <2>1. /\ UNCHANGED <<database, files>> /\ UNCHANGED database
        /\ UNCHANGED <<pc, op, target, work>>
    BY <1>5 DEF vars, asked
  <2>2. \A q \in Requests : CoherentRequest(q)'
    BY <2>1, CoherentKept DEF Coherent, database, files, Summarised,
       Registered
  <2>3. \A q, r \in Requests : Exclusive(q, r)'
    BY <2>1 DEF Coherent, Exclusive
  <2> QED
    BY <2>1, <2>2, <2>3, StoresCoherentKept
<1>6. ASSUME \/ \E s \in Subs : Upload(s) \/ ReplaceWorkbook(s)
             \/ \E p \in Requests, o \in Ops, s \in Subs : Send(p, o, s)
             \/ ReplaceRules \/ Crash
      PROVE  Goal
  BY <1>6, EnvironmentCoherent
<1> HIDE DEF Goal
<1>7. Goal
  BY <1>1, <1>3, <1>4, <1>5, <1>6, NextSplit
<1> QED
  BY <1>0, <1>7 DEF Coherent, Goal

LEMMA CoherentInit == Init => Coherent
<1> SUFFICES ASSUME Init
             PROVE  Coherent
  OBVIOUS
<1>1. BasicInv
  BY BasicInit
<1>2. \A p \in Requests : CoherentRequest(p)
  BY DEF Init, CoherentRequest, ExtractPcs, AutomatePcs, Inserted, Matched,
         Summed
<1>3. \A p, q \in Requests : Exclusive(p, q)
  BY DEF Init, Exclusive, Inserted, Summed
<1>4. \A s \in Subs : CoherentSubmission(s)
  BY DEF Init, CoherentSubmission
<1> QED
  BY <1>1, <1>2, <1>3, <1>4 DEF Coherent, Init

\* Every summary describes the document rows stored beside it, as long as no
\* stored workbook is replaced in the middle of a request: extraction and
\* automation requests may overlap in any number and order, connections and
\* commits may be lost, rules may be replaced and the server may crash.  It
\* is what download_submission checks before it hands a workbook out.
THEOREM SummariesDescribeRows ==
    ASSUME WorkbooksStay
    PROVE  Spec => []SummaryDescribesRows
<1>1. Coherent => SummaryDescribesRows
  BY DEF Coherent, Described, SummaryDescribesRows
<1>2. Coherent /\ [Next]_vars => Coherent'
  BY CoherentStep
<1> QED
  BY <1>1, <1>2, CoherentInit, PTL DEF Spec

\* Never AUTOMATED without the summary and its registered rule set, never
\* EXTRACTED or AUTOMATED with rows and header row of no one workbook
\* (API_CONTRACT.md, lines 97-101), under the same assumption.
THEOREM StatusesAreBacked ==
    ASSUME WorkbooksStay
    PROVE  Spec => []StatusIsBacked
<1>1. Coherent => StatusIsBacked
  BY DEF Coherent, BasicInv, SubmissionInv, CoherentSubmission,
         StatusIsBacked
<1>2. Coherent /\ [Next]_vars => Coherent'
  BY CoherentStep
<1> QED
  BY <1>1, <1>2, CoherentInit, PTL DEF Spec

WorkbooksHaveRows == \A b \in Books : RowsOf[b] # {}

\* No late extraction takes a submission that is AUTOMATED back to EXTRACTED,
\* as long as no workbook without document rows is processed: two extractions
\* of one submission insert the same rows, and the unique index refuses the
\* second one before it gets to the status.
THEOREM AutomatedNeverSetBack ==
    ASSUME WorkbooksStay, WorkbooksHaveRows
    PROVE  Spec => NeverSetBack
<1> DEFINE Kept == \A s \in Subs : status[s] = "AUTOMATED" =>
                       status'[s] \in {"AUTOMATED", "FAILED"}
<1>1. ASSUME Coherent, [Next]_vars
      PROVE  Kept
  <2>0. TypeOK /\ BasicInv
    BY <1>1 DEF Coherent, BasicInv
  <2>1. ASSUME NEW p \in Requests, PublishExtract(p)
        PROVE  Kept
    <3>0. \A b \in Books : RowsOf[b] # {}
      BY DEF WorkbooksHaveRows
    <3>1. /\ target[p] \in Subs /\ pc[p] = "commitExtract"
          /\ work[p].book \in Books
          /\ RowsOf[work[p].book] \cap stored[target[p]] = {}
          /\ CoherentRequest(p)
          /\ SubmissionInv(target[p])
      BY <1>1, <2>0, <2>1 DEF PublishExtract, Coherent, BasicInv, RequestInv,
         CoherentRequest, Inserted, ExtractPcs, TypeOK
    <3>2. header[target[p]] # 0 => stored[target[p]] = RowsOf[work[p].book]
      BY <2>0, <3>1 DEF CoherentRequest, ExtractPcs, BasicInv, RequestInv
    <3>3. header[target[p]] = 0
      BY <3>0, <3>1, <3>2
    <3>4. status[target[p]] # "AUTOMATED"
      BY <3>1, <3>3 DEF SubmissionInv
    <3> QED
      BY <1>1, <2>1, <3>4, ExtractPublished
  <2>2. ASSUME NEW p \in Requests, PublishAutomate(p)
        PROVE  Kept
    BY <2>0, <2>2 DEF PublishAutomate, TypeOK
  <2>3. ASSUME NEW p \in Requests, Local(p)
        PROVE  Kept
    BY <2>0, <2>3, LocalStepTyped DEF Local, database
  <2>4. ASSUME NEW p \in Requests, MarkFailed(p)
        PROVE  Kept
    BY <2>0, <2>4 DEF MarkFailed, TypeOK
  <2>5. ASSUME \/ \E s \in Subs : Upload(s) \/ ReplaceWorkbook(s)
               \/ \E p \in Requests, o \in Ops, s \in Subs : Send(p, o, s)
               \/ ReplaceRules \/ Crash
        PROVE  Kept
    BY <2>0, <2>5 DEF Upload, ReplaceWorkbook, Send, ReplaceRules, Crash,
       database, TypeOK
  <2>6. CASE UNCHANGED vars
    BY <2>6 DEF vars, database
  <2>7. ASSUME NEW p \in Requests,
               CommitExtract(p) \/ CommitAutomate(p) \/ CommitLost(p)
        PROVE  Kept
    BY <2>1, <2>2, <2>7 DEF CommitExtract, CommitAutomate, CommitLost
  <2> HIDE DEF Kept
  <2> QED
    BY <1>1, <2>3, <2>4, <2>5, <2>6, <2>7, NextSplit
<1>2. Coherent /\ [Next]_vars => [Kept]_vars
  BY <1>1
<1>3. Coherent /\ [Next]_vars => Coherent'
  BY CoherentStep
<1> QED
  BY <1>2, <1>3, CoherentInit, PTL DEF Spec, NeverSetBack

----------------------------------------------------------------------------
(* What the two reads are told                                             *)

\* What a step tells the client of p: nothing, or no more than a code; only a
\* summary and a finished download carry something that was read.
PlainReply(p) ==
    \/ reply'[p] = reply[p]
    \/ \E code \in Codes \ {"none", "ok"} :
          reply'[p] = [NoReply EXCEPT !.code = code]

\* Nobody but p was answered, and everybody is still the same request.
OthersAnswered(p) ==
    /\ UNCHANGED <<op, target>>
    /\ \A q \in Requests \ {p} : reply'[q] = reply[q]

LEMMA RespondReply ==
    ASSUME TypeOK, NEW p \in Requests, NEW code \in Codes, Respond(p, code)
    PROVE  /\ pc'[p] = "idle"
           /\ reply'[p] = [NoReply EXCEPT !.code = code]
           /\ OthersAnswered(p)
<1>1. /\ pc' = [pc EXCEPT ![p] = "idle"]
      /\ reply' = [reply EXCEPT ![p] = [NoReply EXCEPT !.code = code]]
      /\ UNCHANGED <<op, target>>
  BY DEF Respond, Answer, Goto, asked
<1>2. pc \in [Requests -> Pcs] /\ reply \in [Requests -> Reply]
  BY DEF TypeOK
<1>3. reply'[p] = [NoReply EXCEPT !.code = code]
  BY <1>1, <1>2
<1> QED
  BY <1>1, <1>2, <1>3 DEF OthersAnswered

LEMMA RespondPlain ==
    ASSUME TypeOK, NEW p \in Requests, NEW code \in Codes \ {"none", "ok"},
           Respond(p, code)
    PROVE  pc'[p] = "idle" /\ PlainReply(p) /\ OthersAnswered(p)
  BY RespondReply DEF PlainReply

LEMMA RaisePlain ==
    ASSUME TypeOK, NEW p \in Requests, NEW why, Raise(p, why)
    PROVE  /\ pc'[p] \in {"idle", "fail"}
           /\ PlainReply(p) /\ OthersAnswered(p)
<1>1. CASE op[p] \in Writes
  <2>1. /\ pc' = [pc EXCEPT ![p] = "fail"]
        /\ UNCHANGED <<op, target, reply>>
    BY <1>1 DEF Raise, Goto, asked
  <2> QED
    BY <2>1 DEF TypeOK, PlainReply, OthersAnswered
<1>2. CASE op[p] \notin Writes
  <2>1. Respond(p, "error")
    BY <1>2 DEF Raise
  <2>2. "error" \in Codes \ {"none", "ok"}
    BY DEF Codes
  <2> QED
    BY <2>1, <2>2, RespondPlain
<1> QED
  BY <1>1, <1>2

LEMMA MovePlain ==
    ASSUME TypeOK, NEW p \in Requests, NEW l, Goto(p, l),
           UNCHANGED <<asked, reply>>
    PROVE  pc'[p] = l /\ PlainReply(p) /\ OthersAnswered(p)
  BY DEF TypeOK, Goto, PlainReply, OthersAnswered, asked

\* Which steps lead to a read, and which ones answer with what was read.
LEMMA LocalReads ==
    ASSUME TypeOK, NEW p \in Requests, Local(p)
    PROVE  /\ OthersAnswered(p)
           /\ PlainReply(p) \/ ReadSummary(p) \/ Export(p)
           /\ pc'[p] \in {"readSummary", "readCounts"} => Begin(p)
           /\ pc'[p] = "readRows" => ReadCounts(p)
           /\ pc'[p] = "verify" => ReadRows(p)
           /\ pc'[p] = "export" => Verify(p)
<1> DEFINE Goal == /\ OthersAnswered(p)
                   /\ PlainReply(p) \/ ReadSummary(p) \/ Export(p)
                   /\ pc'[p] \in {"readSummary", "readCounts"} => Begin(p)
                   /\ pc'[p] = "readRows" => ReadCounts(p)
                   /\ pc'[p] = "verify" => ReadRows(p)
                   /\ pc'[p] = "export" => Verify(p)
<1>1. ASSUME NEW code \in Codes \ {"none", "ok"}, Respond(p, code)
      PROVE  Goal
  BY <1>1, RespondPlain
<1>2. ASSUME NEW why, Raise(p, why)
      PROVE  Goal
  BY <1>2, RaisePlain
<1>3. ASSUME NEW l, Goto(p, l), UNCHANGED <<asked, reply>>,
             l \notin {"readSummary", "readCounts", "readRows", "verify",
                        "export"}
      PROVE  Goal
  BY <1>3, MovePlain
<1>4. CASE NotFound(p) \/ WrongStatus(p) \/ RulesUnavailable(p)
           \/ WorkbookMissing(p) \/ PoolTimeout(p) \/ EngineFails(p)
           \/ MarkFailedLost(p) \/ RefuseResult(p) \/ LoadError(p)
           \/ StepError(p)
  BY <1>1, <1>2, <1>4 DEF NotFound, WrongStatus, RulesUnavailable,
     WorkbookMissing, PoolTimeout, EngineFails, MarkFailedLost, RefuseResult,
     LoadError, StepError, Codes
<1>5. CASE InsertRows(p) \/ MarkExtracted(p) \/ Match(p) \/ UpdateRows(p)
           \/ Summarise(p) \/ MarkAutomated(p)
  BY <1>2, <1>3, <1>5 DEF InsertRows, MarkExtracted, Match, UpdateRows,
     Summarise, MarkAutomated
<1>6. CASE Engine(p) \/ Scope(p) \/ Fingerprint(p) \/ Digest(p)
           \/ Register(p) \/ LoadToFail(p)
  BY <1>1, <1>2, <1>3, <1>6 DEF Engine, Scope, Fingerprint, Digest, Register,
     LoadToFail, Codes
<1>7. CASE Begin(p)
  <2>1. /\ \E l : Goto(p, l)
        /\ UNCHANGED <<asked, reply>>
        /\ pc'[p] \in {"readSummary", "readCounts", "engine"}
    BY <1>7 DEF Begin, Goto, TypeOK
  <2> QED
    BY <1>7, <2>1, MovePlain
<1>8. CASE ReadCounts(p) \/ ReadRows(p)
  <2>1. CASE ReadCounts(p)
    <3>1. Goto(p, "readRows") /\ UNCHANGED <<asked, reply>>
      BY <2>1 DEF ReadCounts
    <3>2. pc'[p] = "readRows" /\ PlainReply(p) /\ OthersAnswered(p)
      BY <3>1, MovePlain
    <3> QED
      BY <2>1, <3>2
  <2>2. CASE ReadRows(p)
    <3>1. Goto(p, "verify") /\ UNCHANGED <<asked, reply>>
      BY <2>2 DEF ReadRows
    <3>2. pc'[p] = "verify" /\ PlainReply(p) /\ OthersAnswered(p)
      BY <3>1, MovePlain
    <3> QED
      BY <2>2, <3>2
  <2> QED
    BY <1>8, <2>1, <2>2
<1>9. CASE Verify(p)
  <2>1. CASE Goto(p, "export") /\ UNCHANGED <<asked, reply>>
    <3>1. pc'[p] = "export" /\ PlainReply(p) /\ OthersAnswered(p)
      BY <2>1, MovePlain
    <3> QED
      BY <1>9, <3>1
  <2>2. CASE Respond(p, "downloadFailed")
    BY <1>1, <2>2 DEF Codes
  <2> QED
    BY <1>9, <2>1, <2>2 DEF Verify
<1>10. CASE ReadSummary(p) \/ Export(p)
  <2>1. \/ \E r : Answer(p, r)
        \/ Respond(p, "downloadFailed")
    BY <1>10 DEF ReadSummary, Export
  <2>2. pc'[p] = "idle" /\ OthersAnswered(p)
    BY <2>1 DEF Respond, Answer, Goto, OthersAnswered, asked, TypeOK
  <2> QED
    BY <1>10, <2>2
<1> QED
  BY <1>4, <1>5, <1>6, <1>7, <1>8, <1>9, <1>10 DEF Local

\* What the environment tells the clients: nothing; a new request starts with
\* no reply.
LEMMA EnvironmentReads ==
    ASSUME TypeOK,
           \/ \E s \in Subs : Upload(s) \/ ReplaceWorkbook(s)
           \/ \E p \in Requests, o \in Ops, s \in Subs : Send(p, o, s)
           \/ ReplaceRules \/ Crash,
           NEW q \in Requests
    PROVE  \/ /\ reply'[q] = NoReply
              /\ pc'[q] = "load"
           \/ /\ reply'[q] = reply[q]
              /\ op'[q] = op[q] /\ target'[q] = target[q]
              /\ \/ pc'[q] = "idle"
                 \/ pc'[q] = pc[q] /\ work'[q] = work[q]
  BY DEF TypeOK, Upload, ReplaceWorkbook, Send, ReplaceRules, Crash, Goto,
     asked

\* A request that is about to look up a summary, having read AUTOMATED, finds
\* one; and AUTOMATED is only ever reported by a summary request.
SummaryRequest(p) ==
    /\ pc[p] = "readSummary" => op[p] = "summary"
    /\ pc[p] = "readSummary" /\ work[p].status = "AUTOMATED" =>
          Summarised(target[p])
    /\ reply[p].status = "AUTOMATED" =>
          op[p] = "summary" /\ reply[p].summarised

SummaryInv ==
    /\ BasicInv
    /\ \A p \in Requests : SummaryRequest(p)
    /\ \A s \in Subs : status[s] = "AUTOMATED" => Summarised(s)

\* A summary is never removed, and AUTOMATED is published with one.
LEMMA SummariesStay ==
    SummaryInv /\ [Next]_vars =>
       \A s \in Subs : /\ Summarised(s) => Summarised(s)'
                       /\ status'[s] = "AUTOMATED" => Summarised(s)'
<1> SUFFICES ASSUME SummaryInv, [Next]_vars
             PROVE  \A s \in Subs : /\ Summarised(s) => Summarised(s)'
                                    /\ status'[s] = "AUTOMATED" =>
                                          Summarised(s)'
  OBVIOUS
<1> DEFINE Goal == \A s \in Subs : /\ Summarised(s) => Summarised(s)'
                                   /\ status'[s] = "AUTOMATED" =>
                                         Summarised(s)'
<1>0. TypeOK /\ \A s \in Subs : status[s] = "AUTOMATED" => Summarised(s)
  BY DEF SummaryInv, BasicInv
<1>1. ASSUME UNCHANGED summaries,
             \A s \in Subs : status'[s] = "AUTOMATED" => status[s] = "AUTOMATED"
      PROVE  Goal
  BY <1>0, <1>1 DEF Summarised
<1>2. ASSUME NEW p \in Requests, PublishExtract(p)
      PROVE  Goal
  BY <1>0, <1>1, <1>2 DEF PublishExtract, TypeOK
<1>3. ASSUME NEW p \in Requests, PublishAutomate(p)
      PROVE  Goal
  <2>1. PICK m : m = [sub |-> target[p], ruleSet |-> work[p].digest,
                      doc |-> work[p].doc, sow |-> work[p].sow,
                      rowCount |-> Cardinality(RowsOf[work[p].book])]
    OBVIOUS
  <2>2. summaries' = summaries \cup {m} /\ m.sub = target[p]
    BY <1>3, <2>1 DEF PublishAutomate
  <2>3. \A s \in Subs \ {target[p]} : status'[s] = status[s]
    BY <1>0, <1>3 DEF PublishAutomate, TypeOK
  <2> QED
    BY <1>0, <2>2, <2>3 DEF Summarised
<1>4. ASSUME NEW p \in Requests, MarkFailed(p)
      PROVE  Goal
  BY <1>0, <1>1, <1>4 DEF MarkFailed, TypeOK
<1>5. ASSUME NEW p \in Requests, Local(p)
      PROVE  Goal
  BY <1>0, <1>1, <1>5, LocalStepTyped DEF Local, database
<1>6. ASSUME \/ \E s \in Subs : Upload(s) \/ ReplaceWorkbook(s)
             \/ \E p \in Requests, o \in Ops, s \in Subs : Send(p, o, s)
             \/ ReplaceRules \/ Crash
      PROVE  Goal
  <2>1. UNCHANGED summaries
    BY <1>6 DEF Upload, ReplaceWorkbook, Send, ReplaceRules, Crash, database
  <2>2. \A s \in Subs : status'[s] = "AUTOMATED" => status[s] = "AUTOMATED"
    BY <1>0, <1>6 DEF Upload, ReplaceWorkbook, Send, ReplaceRules, Crash,
       database, TypeOK
  <2> QED
    BY <1>1, <2>1, <2>2
<1>7. ASSUME UNCHANGED vars
      PROVE  Goal
  BY <1>1, <1>7 DEF vars, database
<1> HIDE DEF Goal
<1>8. ASSUME NEW p \in Requests,
             CommitExtract(p) \/ CommitAutomate(p) \/ CommitLost(p)
      PROVE  Goal
  BY <1>2, <1>3, <1>8 DEF CommitExtract, CommitAutomate, CommitLost
<1>9. Goal
  BY <1>4, <1>5, <1>6, <1>7, <1>8, NextSplit
<1> QED
  BY <1>9 DEF Goal

LEMMA SummaryRequestKept ==
    ASSUME NEW q \in Requests, SummaryRequest(q),
           op'[q] = op[q], target'[q] = target[q], reply'[q] = reply[q],
           \/ pc'[q] = "idle"
           \/ pc'[q] = pc[q] /\ work'[q] = work[q],
           Summarised(target[q]) => Summarised(target[q])'
    PROVE  SummaryRequest(q)'
  BY DEF SummaryRequest

LEMMA PlainSummaryRequest ==
    ASSUME NEW p \in Requests, SummaryRequest(p), PlainReply(p),
           op'[p] = op[p], pc'[p] # "readSummary"
    PROVE  SummaryRequest(p)'
<1>1. ASSUME NEW code \in Codes,
             reply'[p] = [NoReply EXCEPT !.code = code]
      PROVE  reply'[p].status # "AUTOMATED"
  BY <1>1 DEF NoReply
<1> QED
  BY <1>1 DEF SummaryRequest, PlainReply

LEMMA SummaryStep == SummaryInv /\ [Next]_vars => SummaryInv'
<1> SUFFICES ASSUME SummaryInv, [Next]_vars
             PROVE  SummaryInv'
  OBVIOUS
<1>0. /\ BasicInv /\ BasicInv' /\ TypeOK
      /\ \A q \in Requests : SummaryRequest(q) /\ target[q] \in Subs
      /\ \A s \in Subs : status[s] = "AUTOMATED" => Summarised(s)
  BY BasicStep DEF SummaryInv, BasicInv, TypeOK
<1>1. \A s \in Subs : /\ Summarised(s) => Summarised(s)'
                      /\ status'[s] = "AUTOMATED" => Summarised(s)'
  BY SummariesStay
<1> SUFFICES ASSUME NEW q \in Requests
             PROVE  SummaryRequest(q)'
  BY <1>0, <1>1 DEF SummaryInv
<1>2. ASSUME NEW p \in Requests, q # p, OthersKept(p), OthersAnswered(p)
      PROVE  SummaryRequest(q)'
  BY <1>0, <1>1, <1>2, SummaryRequestKept DEF OthersKept, OthersAnswered
<1>3. ASSUME NEW p \in Requests, PlainReply(p), OthersKept(p),
             OthersAnswered(p), pc'[p] # "readSummary"
      PROVE  SummaryRequest(q)'
  <2>1. op'[p] = op[p]
    BY <1>3 DEF OthersAnswered
  <2> QED
    BY <1>0, <1>2, <1>3, <2>1, PlainSummaryRequest
<1>4. ASSUME NEW p \in Requests, Local(p)
      PROVE  SummaryRequest(q)'
  <2>1. OthersKept(p) /\ OthersAnswered(p)
    BY <1>0, <1>4, ActorKept, LocalReads
  <2>2. CASE Begin(p) /\ pc'[p] = "readSummary"
    <3>1. /\ op[p] = "summary" /\ op'[p] = op[p]
          /\ work'[p].status = status[target[p]]
          /\ target'[p] = target[p] /\ reply'[p] = reply[p]
      BY <1>0, <2>2 DEF Begin, Goto, TypeOK, Work, asked
    <3>2. SummaryRequest(p)'
      BY <1>0, <1>1, <3>1 DEF SummaryRequest
    <3> QED
      BY <1>2, <2>1, <3>2
  <2>3. CASE ReadSummary(p)
    <3>1. /\ op[p] = "summary" /\ op'[p] = op[p]
          /\ pc'[p] = "idle"
          /\ reply'[p].status = work[p].status
          /\ reply'[p].summarised = Summarised(target[p])
      BY <1>0, <2>3 DEF ReadSummary, Answer, Goto, TypeOK, NoReply, asked,
         SummaryRequest
    <3>2. work[p].status = "AUTOMATED" => Summarised(target[p])
      BY <1>0, <2>3 DEF ReadSummary, SummaryRequest
    <3>3. SummaryRequest(p)'
      BY <3>1, <3>2 DEF SummaryRequest
    <3> QED
      BY <1>2, <2>1, <3>3
  <2>4. CASE Export(p)
    <3>1. \/ Respond(p, "downloadFailed")
          \/ Answer(p, [NoReply EXCEPT !.code = "ok",
                                      !.book = file[target[p]]])
      BY <2>4 DEF Export
    <3>2. pc'[p] = "idle"
      BY <1>0, <3>1 DEF Respond, Answer, Goto, TypeOK
    <3>3. \/ reply'[p] = [NoReply EXCEPT !.code = "downloadFailed"]
          \/ reply'[p] = [NoReply EXCEPT !.code = "ok",
                                        !.book = file[target[p]]]
      BY <1>0, <3>1 DEF Respond, Answer, TypeOK
    <3>4. reply'[p].status = "ABSENT"
      BY <3>3 DEF NoReply
    <3>5. SummaryRequest(p)'
      BY <3>2, <3>4 DEF SummaryRequest
    <3> QED
      BY <1>2, <2>1, <3>5
  <2> QED
    BY <1>0, <1>3, <1>4, <2>1, <2>2, <2>3, <2>4, LocalReads
<1>5. ASSUME NEW p \in Requests,
             CommitExtract(p) \/ CommitAutomate(p) \/ CommitLost(p)
                \/ MarkFailed(p)
      PROVE  SummaryRequest(q)'
  <2>1. \/ \E code : Respond(p, code)
        \/ \E why : Raise(p, why)
    BY <1>5 DEF CommitExtract, CommitAutomate, CommitLost, MarkFailed
  <2>2. pc'[p] \in {"idle", "fail"} /\ OthersKept(p)
    BY <1>0, <2>1, AnswerOrRaise
  <2>3. CASE CommitExtract(p) \/ CommitAutomate(p)
    <3>1. Respond(p, "ok")
      BY <2>3 DEF CommitExtract, CommitAutomate
    <3>2. reply'[p] = [NoReply EXCEPT !.code = "ok"] /\ OthersAnswered(p)
      BY <1>0, <3>1, RespondReply DEF Codes
    <3>3. reply'[p].status # "AUTOMATED"
      BY <3>2 DEF NoReply
    <3>4. SummaryRequest(p)'
      BY <2>2, <3>3 DEF SummaryRequest
    <3> QED
      BY <1>2, <2>2, <3>2, <3>4
  <2>4. CASE CommitLost(p) \/ MarkFailed(p)
    <3>1. PlainReply(p) /\ OthersAnswered(p)
      BY <1>0, <2>4, RaisePlain, RespondPlain DEF CommitLost, MarkFailed,
         Codes
    <3> QED
      BY <1>3, <2>2, <3>1
  <2> QED
    BY <1>5, <2>3, <2>4
<1>6. ASSUME \/ \E s \in Subs : Upload(s) \/ ReplaceWorkbook(s)
             \/ \E p \in Requests, o \in Ops, s \in Subs : Send(p, o, s)
             \/ ReplaceRules \/ Crash
      PROVE  SummaryRequest(q)'
  <2>1. CASE reply'[q] = NoReply /\ pc'[q] = "load"
    BY <2>1 DEF SummaryRequest, NoReply
  <2>2. CASE ~(reply'[q] = NoReply /\ pc'[q] = "load")
    BY <1>0, <1>1, <1>6, <2>2, EnvironmentReads, SummaryRequestKept
  <2> QED
    BY <2>1, <2>2
<1>7. CASE UNCHANGED vars
  BY <1>0, <1>1, <1>7, SummaryRequestKept DEF vars, asked
<1> QED
  BY <1>4, <1>5, <1>6, <1>7, NextSplit

LEMMA SummaryInit == Init => SummaryInv
<1> SUFFICES ASSUME Init
             PROVE  SummaryInv
  OBVIOUS
<1>1. \A p \in Requests : SummaryRequest(p)
  BY DEF Init, SummaryRequest, NoReply
<1> QED
  BY <1>1, BasicInit DEF SummaryInv, Init

\* GET summary never reports AUTOMATED without the counts, although it looks
\* up the summary in a statement of its own after the status: whatever other
\* requests do in between, a summary is there before the status says so and
\* is never removed.
THEOREM SummariesNeverHollow == Spec => []SummaryNeverHollow
<1>1. SummaryInv => SummaryNeverHollow
  BY DEF SummaryInv, SummaryRequest, SummaryNeverHollow
<1> QED
  BY <1>1, SummaryInit, SummaryStep, PTL DEF Spec

\* The step at which a request was one step earlier.
LEMMA LocalOrigin ==
    ASSUME TypeOK, NEW p \in Requests, Local(p)
    PROVE  /\ pc'[p] = "engine" => Begin(p)
           /\ pc'[p] \in ExtractPcs => pc[p] \in {"engine"} \cup ExtractPcs
           /\ pc'[p] \in AutomatePcs => pc[p] \in {"engine"} \cup AutomatePcs
           /\ pc'[p] = "markFailed" => LoadToFail(p)
<1> DEFINE Goal ==
      /\ pc'[p] = "engine" => Begin(p)
      /\ pc'[p] \in ExtractPcs => pc[p] \in {"engine"} \cup ExtractPcs
      /\ pc'[p] \in AutomatePcs => pc[p] \in {"engine"} \cup AutomatePcs
      /\ pc'[p] = "markFailed" => LoadToFail(p)
<1>1. ASSUME \/ \E r : Answer(p, r)
             \/ \E code : Respond(p, code)
             \/ \E why : Raise(p, why)
      PROVE  Goal
  BY <1>1, AnswerOrRaise DEF ExtractPcs, AutomatePcs
<1>2. ASSUME NEW l, Goto(p, l)
      PROVE  pc'[p] = l
  BY <1>2 DEF Goto, TypeOK
<1>3. CASE \/ NotFound(p) \/ WrongStatus(p) \/ RulesUnavailable(p)
           \/ WorkbookMissing(p) \/ PoolTimeout(p) \/ EngineFails(p)
           \/ MarkFailedLost(p) \/ ReadSummary(p) \/ RefuseResult(p)
           \/ Export(p) \/ LoadError(p) \/ StepError(p)
  BY <1>1, <1>3 DEF NotFound, WrongStatus, RulesUnavailable, WorkbookMissing,
     PoolTimeout, EngineFails, MarkFailedLost, ReadSummary, RefuseResult,
     Export, LoadError, StepError
<1>4. CASE \/ Begin(p) \/ LoadToFail(p) \/ ReadCounts(p) \/ ReadRows(p)
           \/ Verify(p)
  <2>1. CASE \E code : Respond(p, code)
    BY <1>1, <2>1
  <2>2. CASE ~\E code : Respond(p, code)
    BY <1>2, <1>4, <2>2 DEF Begin, LoadToFail, ReadCounts, ReadRows,
       Verify, ExtractPcs, AutomatePcs
  <2> QED
    BY <2>1, <2>2
<1>5. CASE Engine(p)
  BY <1>2, <1>5 DEF Engine, ExtractPcs, AutomatePcs
<1>6. CASE InsertRows(p) \/ MarkExtracted(p)
  <2>1. CASE \E why : Raise(p, why)
    BY <1>1, <2>1
  <2>2. CASE ~\E why : Raise(p, why)
    BY <1>2, <1>6, <2>2 DEF InsertRows, MarkExtracted, ExtractPcs,
       AutomatePcs
  <2> QED
    BY <2>1, <2>2
<1>7. CASE Scope(p) \/ Match(p) \/ UpdateRows(p) \/ Fingerprint(p)
           \/ Digest(p) \/ Register(p) \/ Summarise(p) \/ MarkAutomated(p)
  <2>1. CASE \E why : Raise(p, why)
    BY <1>1, <2>1
  <2>2. CASE ~\E why : Raise(p, why)
    BY <1>2, <1>7, <2>2 DEF Scope, Match, UpdateRows, Fingerprint, Digest,
       Register, Summarise, MarkAutomated, ExtractPcs, AutomatePcs
  <2> QED
    BY <2>1, <2>2
<1> QED
  BY <1>3, <1>4, <1>5, <1>6, <1>7 DEF Local

\* A download that reads the result works on a submission with a header row
\* and a summary, and holds what it read of both; an extraction that comes
\* second has read the workbook the header row was found in.
DownloadRequest(p) ==
    /\ pc[p] \in {"readCounts", "readRows"} =>
          /\ status[target[p]] # "ABSENT"
          /\ work[p].header = header[target[p]]
          /\ header[target[p]] # 0
          /\ Summarised(target[p])
    /\ pc[p] = "readRows" =>
          \E m \in summaries :
             /\ m.sub = target[p] /\ work[p].rowCount = m.rowCount
             /\ work[p].doc = m.doc /\ work[p].sow = m.sow
    /\ op[p] = "extract" /\ pc[p] \in {"engine"} \cup ExtractPcs =>
          header[target[p]] \in {0, HeaderOf[file[target[p]]]}

DownloadInv ==
    /\ Coherent
    /\ \A p \in Requests : DownloadRequest(p)

\* What no step takes from a submission once it was uploaded.
Settled(s) ==
    status[s] # "ABSENT" =>
       /\ status'[s] # "ABSENT"
       /\ header[s] # 0 => header'[s] = header[s]
       /\ header'[s] # 0 => \/ header'[s] = header[s]
                            \/ header'[s] = HeaderOf[file'[s]]
       /\ summaries \subseteq summaries'

\* Its workbook is only replaced while nobody works.
FileStays(s) ==
    \/ status[s] # "ABSENT" => file'[s] = file[s]
    \/ \A q \in Requests : pc'[q] = "idle"

LEMMA DownloadSettled ==
    WorkbooksStay /\ DownloadInv /\ [Next]_vars =>
       \A s \in Subs : Settled(s) /\ FileStays(s)
<1> SUFFICES ASSUME WorkbooksStay, DownloadInv, [Next]_vars
             PROVE  \A s \in Subs : Settled(s) /\ FileStays(s)
  OBVIOUS
<1> DEFINE Goal == \A s \in Subs : Settled(s) /\ FileStays(s)
<1>0. /\ TypeOK /\ BasicInv /\ Coherent
      /\ \A p \in Requests : DownloadRequest(p)
  BY DEF DownloadInv, Coherent, BasicInv
<1>1. ASSUME UNCHANGED <<header, summaries>>,
             \A s \in Subs : FileStays(s),
             \A s \in Subs : status[s] # "ABSENT" => status'[s] # "ABSENT"
      PROVE  Goal
  BY <1>1 DEF Settled
<1>2. ASSUME NEW p \in Requests, PublishExtract(p)
      PROVE  Goal
  <2>1. \A s \in Subs : Forward(s)
    BY <1>0, <1>2, PublishForward
  <2>2. UNCHANGED <<file, summaries>>
    BY <1>2 DEF PublishExtract, files
  <2>3. op[p] = "extract" /\ pc[p] \in ExtractPcs
    BY <1>0, <1>2 DEF BasicInv, RequestInv, PublishExtract, ExtractPcs
  <2>4. header[target[p]] # 0 => header'[target[p]] = header[target[p]]
    BY <1>0, <1>2, <2>3, ExtractPublished DEF DownloadRequest
  <2>5. ASSUME NEW s \in Subs
        PROVE  /\ header[s] # 0 => header'[s] = header[s]
               /\ header'[s] # 0 => \/ header'[s] = header[s]
                                    \/ header'[s] = HeaderOf[file'[s]]
    BY <1>0, <1>2, <2>2, <2>4, ExtractPublished
  <2> QED
    BY <2>1, <2>2, <2>5 DEF Settled, FileStays, Forward
<1>3. ASSUME NEW p \in Requests, PublishAutomate(p)
      PROVE  Goal
  <2>1. \A s \in Subs : Forward(s)
    BY <1>0, <1>3, PublishForward
  <2>2. /\ UNCHANGED <<header, file>>
        /\ summaries \subseteq summaries'
    BY <1>3 DEF PublishAutomate, files
  <2> QED
    BY <2>1, <2>2 DEF Settled, FileStays, Forward
<1>4. ASSUME NEW p \in Requests, MarkFailed(p)
      PROVE  Goal
  <2>1. \A s \in Subs : Forward(s)
    BY <1>0, <1>4, MarkFailedForward
  <2>2. UNCHANGED <<header, summaries, file>>
    BY <1>4 DEF MarkFailed, files
  <2> QED
    BY <1>1, <2>1, <2>2 DEF FileStays, Forward
<1>5. ASSUME NEW p \in Requests, Local(p)
      PROVE  Goal
  BY <1>0, <1>1, <1>5, LocalStepTyped DEF Local, database, files, FileStays
<1>6. ASSUME NEW s \in Subs, Upload(s)
      PROVE  Goal
  <2>1. /\ status[s] = "ABSENT"
        /\ \A t \in Subs \ {s} : /\ status'[t] = status[t]
                                 /\ file'[t] = file[t]
        /\ UNCHANGED <<header, summaries>>
    BY <1>0, <1>6 DEF Upload, TypeOK
  <2> QED
    BY <2>1 DEF Settled, FileStays
<1>7. ASSUME NEW s \in Subs, ReplaceWorkbook(s)
      PROVE  Goal
  <2>1. UNCHANGED database /\ \A q \in Requests : pc'[q] = "idle"
    BY <1>7 DEF ReplaceWorkbook, WorkbooksStay, Quiet, InFlight
  <2> QED
    BY <1>1, <2>1 DEF database, FileStays
<1>8. ASSUME \/ \E p \in Requests, o \in Ops, s \in Subs : Send(p, o, s)
             \/ ReplaceRules \/ Crash \/ UNCHANGED vars
      PROVE  Goal
  <2>1. UNCHANGED <<database, file>>
    BY <1>8 DEF Send, ReplaceRules, Crash, vars, files
  <2> QED
    BY <1>1, <2>1 DEF database, FileStays
<1> HIDE DEF Goal
<1>9. ASSUME NEW p \in Requests,
             CommitExtract(p) \/ CommitAutomate(p) \/ CommitLost(p)
      PROVE  Goal
  BY <1>2, <1>3, <1>9 DEF CommitExtract, CommitAutomate, CommitLost
<1>10. Goal
  BY <1>4, <1>5, <1>6, <1>7, <1>8, <1>9, NextSplit
<1> QED
  BY <1>10 DEF Goal

LEMMA DownloadKept ==
    ASSUME NEW q \in Requests, DownloadRequest(q), RequestInv(q),
           Settled(target[q]), FileStays(target[q]),
           op'[q] = op[q], target'[q] = target[q],
           \/ pc'[q] = "idle"
           \/ pc'[q] = pc[q] /\ work'[q] = work[q]
    PROVE  DownloadRequest(q)'
<1>1. CASE pc'[q] = "idle"
  BY <1>1 DEF DownloadRequest, ExtractPcs
<1>2. CASE /\ pc'[q] = pc[q] /\ work'[q] = work[q]
           /\ status[target[q]] # "ABSENT" => file'[target[q]] = file[target[q]]
  BY <1>2 DEF DownloadRequest, RequestInv, Settled, ExtractPcs, Summarised
<1> QED
  BY <1>1, <1>2 DEF FileStays

\* A request between these steps has promised nothing yet, or no more.
LEMMA PlainDownload ==
    ASSUME NEW p \in Requests,
           pc'[p] \notin {"readCounts", "readRows", "engine"} \cup ExtractPcs
    PROVE  DownloadRequest(p)'
  BY DEF DownloadRequest

LEMMA ActorDownload ==
    ASSUME DownloadInv, NEW p \in Requests, Local(p),
           UNCHANGED <<database, files>>
    PROVE  DownloadRequest(p)'
<1>0. /\ TypeOK /\ DownloadRequest(p) /\ RequestInv(p)
      /\ target[p] \in Subs
      /\ SubmissionInv(target[p]) /\ CoherentSubmission(target[p])
  BY DEF DownloadInv, Coherent, BasicInv, TypeOK
<1>1. /\ UNCHANGED <<status, header, summaries, file>>
      /\ UNCHANGED <<op, target>>
      /\ Summarised(target[p])' = Summarised(target[p])
  BY <1>0, LocalReads DEF database, files, Summarised, OthersAnswered
<1>2. CASE Begin(p)
  <2>1. /\ pc[p] = "load" /\ Accepted(p)
        /\ \/ op[p] = "summary" /\ pc'[p] = "readSummary"
           \/ op[p] = "download" /\ pc'[p] = "readCounts"
           \/ op[p] \in Writes /\ pc'[p] = "engine"
        /\ work'[p].header = header[target[p]]
    BY <1>0, <1>2 DEF Begin, Loading, Goto, TypeOK, Work
  <2>2. status[target[p]] # "ABSENT"
    BY <2>1 DEF Accepted
  <2>3. op[p] = "download" => status[target[p]] = "AUTOMATED"
    BY <2>1 DEF Accepted, Expected
  <2>4. op[p] = "download" => /\ header[target[p]] # 0
                              /\ Summarised(target[p])
    BY <1>0, <2>3 DEF SubmissionInv, CoherentSubmission, Summarised
  <2>5. op[p] = "extract" => status[target[p]] = "UPLOADED"
    BY <2>1 DEF Accepted, Expected
  <2>6. op[p] = "extract" => header[target[p]] = 0
    BY <1>0, <2>5 DEF SubmissionInv
  <2> QED
    BY <1>0, <1>1, <2>1, <2>2, <2>4, <2>6 DEF DownloadRequest, ExtractPcs
<1>3. CASE ReadCounts(p)
  <2>1. PICK m \in summaries :
             /\ m.sub = target[p]
             /\ work' = [work EXCEPT ![p].rowCount = m.rowCount,
                                     ![p].doc = m.doc, ![p].sow = m.sow]
    BY <1>3 DEF ReadCounts
  <2>2. /\ work'[p].rowCount = m.rowCount
        /\ work'[p].doc = m.doc /\ work'[p].sow = m.sow
        /\ work'[p].header = work[p].header
    BY <1>0, <2>1 DEF TypeOK, Work
  <2>3. pc[p] = "readCounts" /\ pc'[p] = "readRows"
    BY <1>0, <1>3 DEF ReadCounts, Goto, TypeOK
  <2> QED
    BY <1>0, <1>1, <2>1, <2>2, <2>3 DEF DownloadRequest, ExtractPcs
<1>4. CASE pc'[p] \in ExtractPcs
  <2>1. pc[p] \in {"engine"} \cup ExtractPcs
    BY <1>0, <1>4, LocalOrigin
  <2> QED
    BY <1>0, <1>1, <1>4, <2>1 DEF DownloadRequest, ExtractPcs
<1>5. CASE ~Begin(p) /\ ~ReadCounts(p) /\ pc'[p] \notin ExtractPcs
  <2>1. pc'[p] \notin {"readCounts", "readRows", "engine"}
    BY <1>0, <1>5, LocalReads, LocalOrigin
  <2> QED
    BY <1>5, <2>1, PlainDownload
<1> QED
  BY <1>2, <1>3, <1>4, <1>5

LEMMA DownloadStep ==
    WorkbooksStay /\ DownloadInv /\ [Next]_vars => DownloadInv'
<1> SUFFICES ASSUME WorkbooksStay, DownloadInv, [Next]_vars
             PROVE  DownloadInv'
  OBVIOUS
<1>0. /\ BasicInv /\ TypeOK /\ Coherent'
      /\ \A q \in Requests : /\ DownloadRequest(q) /\ RequestInv(q)
                             /\ target[q] \in Subs
  BY CoherentStep DEF DownloadInv, Coherent, BasicInv, TypeOK
<1>1. \A s \in Subs : Settled(s) /\ FileStays(s)
  BY DownloadSettled
<1> SUFFICES ASSUME NEW q \in Requests
             PROVE  DownloadRequest(q)'
  BY <1>0 DEF DownloadInv
<1>2. ASSUME NEW p \in Requests, q # p, OthersKept(p), OthersAnswered(p)
      PROVE  DownloadRequest(q)'
  BY <1>0, <1>1, <1>2, DownloadKept DEF OthersKept, OthersAnswered
<1>3. ASSUME NEW p \in Requests, Local(p)
      PROVE  DownloadRequest(q)'
  <2>1. OthersKept(p) /\ OthersAnswered(p) /\ UNCHANGED <<database, files>>
    BY <1>0, <1>3, ActorKept, LocalReads, LocalStepTyped DEF Local
  <2> QED
    BY <1>2, <1>3, <2>1, ActorDownload
<1>4. ASSUME NEW p \in Requests,
             \/ CommitExtract(p) \/ CommitAutomate(p)
             \/ CommitLost(p) \/ MarkFailed(p)
      PROVE  DownloadRequest(q)'
  <2>1. \/ \E code \in Codes : Respond(p, code)
        \/ \E why : Raise(p, why)
    BY <1>4 DEF CommitExtract, CommitAutomate, CommitLost, MarkFailed, Codes
  <2>2. pc'[p] \in {"idle", "fail"} /\ OthersKept(p) /\ OthersAnswered(p)
    BY <1>0, <2>1, AnswerOrRaise, RespondReply, RaisePlain
  <2>3. DownloadRequest(p)'
    BY <2>2, PlainDownload DEF ExtractPcs
  <2> QED
    BY <1>2, <2>2, <2>3
<1>5. ASSUME \/ \E s \in Subs : Upload(s) \/ ReplaceWorkbook(s)
             \/ \E p \in Requests, o \in Ops, s \in Subs : Send(p, o, s)
             \/ ReplaceRules \/ Crash
      PROVE  DownloadRequest(q)'
  <2>1. CASE reply'[q] = NoReply /\ pc'[q] = "load"
    BY <2>1, PlainDownload DEF ExtractPcs
  <2>2. CASE ~(reply'[q] = NoReply /\ pc'[q] = "load")
    BY <1>0, <1>1, <1>5, <2>2, EnvironmentReads, DownloadKept
  <2> QED
    BY <2>1, <2>2
<1>6. CASE UNCHANGED vars
  BY <1>0, <1>1, <1>6, DownloadKept DEF vars, asked
<1> QED
  BY <1>3, <1>4, <1>5, <1>6, NextSplit

LEMMA DownloadInit == Init => DownloadInv
<1> SUFFICES ASSUME Init
             PROVE  DownloadInv
  OBVIOUS
<1>1. \A p \in Requests : DownloadRequest(p)
  BY DEF Init, DownloadRequest, ExtractPcs
<1> QED
  BY <1>1, CoherentInit DEF DownloadInv

\* A download reads status, summary and rows one after the other and meets any
\* number of other requests in between; it still finds a summary and a header
\* row, then as many rows below that header as the summary it read had counted,
\* with the verdicts it had counted.  The rows and the summary agree at every
\* moment (Described), and no step takes a summary away (Settled): so the rows
\* read later still agree with the summary read earlier.
THEOREM DownloadsFindResults ==
    ASSUME WorkbooksStay
    PROVE  Spec => []DownloadFindsResultWhole
<1>1. ASSUME DownloadInv, NEW p \in Requests, pc[p] = "readCounts"
      PROVE  CountsFound(p)
  BY <1>1 DEF DownloadInv, DownloadRequest, CountsFound
<1>2. ASSUME DownloadInv, NEW p \in Requests, pc[p] = "readRows"
      PROVE  RowsAsRecorded(p) /\ VerdictsAsCounted(p)
  <2>1. /\ target[p] \in Subs
        /\ work[p].header = header[target[p]] /\ header[target[p]] # 0
    BY <1>2 DEF DownloadInv, DownloadRequest, Coherent, BasicInv, TypeOK
  <2>2. PICK m \in summaries :
             /\ m.sub = target[p] /\ work[p].rowCount = m.rowCount
             /\ work[p].doc = m.doc /\ work[p].sow = m.sow
    BY <1>2 DEF DownloadInv, DownloadRequest
  <2>3. Described(m)
    BY <1>2 DEF DownloadInv, Coherent
  <2>4. PICK b \in Books : /\ stored[target[p]] = RowsOf[b]
                           /\ header[target[p]] = HeaderOf[b]
    BY <1>2, <2>1 DEF DownloadInv, Coherent, CoherentSubmission
  <2>5. \A r \in stored[target[p]] : work[p].header < r
    BY <2>1, <2>4, RowsBelowHeader
  <2> QED
    BY <2>2, <2>3, <2>5 DEF Described, RowsAsRecorded, VerdictsAsCounted
<1>3. DownloadInv => DownloadFindsResultWhole
  BY <1>1, <1>2 DEF DownloadFindsResultWhole
<1>4. DownloadInv /\ [Next]_vars => DownloadInv'
  BY DownloadStep
<1> QED
  BY <1>3, <1>4, DownloadInit, PTL DEF Spec
============================================================================
