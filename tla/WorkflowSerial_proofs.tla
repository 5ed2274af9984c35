----------------------- MODULE WorkflowSerial_proofs -----------------------
(***************************************************************************)
(* Theorems about SubmissionWorkflow when every submission has at most one *)
(* extract or automate in flight, as one browser page sends them, beside   *)
(* any number of summaries and downloads: any number of submissions and    *)
(* requests, any workbooks and rules, replaced at any time.                *)
(* The last ones also need a connection for every request and a database   *)
(* that answers when a submission is loaded and when a commit is done;     *)
(* under these SubmissionWorkflow implements SubmissionLifecycle.          *)
(***************************************************************************)
EXTENDS SubmissionWorkflow_proofs

USE DEF Writes

\* What a request in flight may rely on when no other one writes.
SerialRequest(p) ==
    /\ op[p] = "extract" /\ pc[p] \in {"engine"} \cup ExtractPcs =>
          status[target[p]] = "UPLOADED"
    /\ op[p] = "automate" /\ pc[p] \in {"engine"} \cup AutomatePcs =>
          status[target[p]] = "EXTRACTED"
    /\ pc[p] \in {"fail", "markFailed"} => op[p] \in Writes /\ work[p].why # ""
    /\ pc[p] = "markFailed" => work[p].status = status[target[p]]
    /\ pc[p] \in {"readCounts", "readRows", "verify", "export"} =>
          op[p] = "download"
    /\ pc[p] = "readSummary" => op[p] = "summary"

Writing(p) == InFlight(p) /\ op[p] \in Writes

Alone(p, q) == p # q /\ Writing(p) /\ Writing(q) => target[p] # target[q]

SerialInv ==
    /\ BasicInv
    /\ \A p \in Requests : SerialRequest(p)
    /\ \A p, q \in Requests : Alone(p, q)
    /\ ReasonOnlyWhenFailed

LEMMA SerialKept ==
    ASSUME NEW q \in Requests, SerialRequest(q), op'[q] = op[q],
           target'[q] = target[q],
           \/ pc'[q] = "idle"
           \/ /\ pc'[q] = pc[q] /\ work'[q] = work[q]
              /\ Writing(q) => status'[target[q]] = status[target[q]]
    PROVE  SerialRequest(q)'
<1>1. CASE pc'[q] = "idle"
  BY <1>1 DEF SerialRequest, ExtractPcs, AutomatePcs
<1>2. CASE /\ pc'[q] = pc[q] /\ work'[q] = work[q]
           /\ Writing(q) => status'[target[q]] = status[target[q]]
  <2>1. CASE pc[q] = "idle"
    BY <1>1, <1>2, <2>1
  <2>2. CASE pc[q] # "idle"
    BY <1>2, <2>2 DEF SerialRequest, Writing, InFlight, ExtractPcs,
       AutomatePcs
  <2> QED
    BY <2>1, <2>2
<1> QED
  BY <1>1, <1>2

\* No request comes into flight but by Send.
LEMMA AloneKept ==
    ASSUME SerialInv,
           \A q \in Requests : Writing(q)' => /\ Writing(q)
                                              /\ target'[q] = target[q]
    PROVE  \A q, r \in Requests : Alone(q, r)'
  BY DEF SerialInv, Alone

LEMMA LocalInFlight ==
    ASSUME NEW p \in Requests, Local(p)
    PROVE  pc[p] # "idle"
<1> USE DEF Loading, Working, ExtractPcs, AutomatePcs, ReadPcs
<1>1. CASE \/ NotFound(p) \/ WrongStatus(p) \/ RulesUnavailable(p)
           \/ WorkbookMissing(p) \/ Begin(p) \/ PoolTimeout(p)
           \/ LoadError(p) \/ StepError(p) \/ LoadToFail(p)
           \/ MarkFailedLost(p) \/ ReadSummary(p) \/ ReadCounts(p)
           \/ ReadRows(p) \/ RefuseResult(p) \/ Verify(p) \/ Export(p)
  BY <1>1 DEF NotFound, WrongStatus, RulesUnavailable, WorkbookMissing, Begin,
     PoolTimeout, LoadError, StepError, LoadToFail, MarkFailedLost,
     ReadSummary, ReadCounts, ReadRows, RefuseResult, Verify, Export
<1>2. CASE \/ Engine(p) \/ EngineFails(p) \/ InsertRows(p) \/ MarkExtracted(p)
           \/ Scope(p) \/ Match(p) \/ UpdateRows(p) \/ Fingerprint(p)
           \/ Digest(p) \/ Register(p) \/ Summarise(p) \/ MarkAutomated(p)
  BY <1>2 DEF Engine, EngineFails, InsertRows, MarkExtracted, Scope, Match,
     UpdateRows, Fingerprint, Digest, Register, Summarise, MarkAutomated
<1> QED
  BY <1>1, <1>2 DEF Local

LEMMA RaiseFails ==
    ASSUME TypeOK, NEW p \in Requests, NEW why \in Reasons \ {""},
           Raise(p, why), pc'[p] = "fail"
    PROVE  op[p] \in Writes /\ work'[p].why # ""
<1>1. op[p] \in Writes
  BY DEF Raise, Respond, Answer, Goto, TypeOK
<1>2. work'[p] = [NoWork EXCEPT !.why = why]
  BY <1>1 DEF Raise, TypeOK
<1> QED
  BY <1>1, <1>2 DEF NoWork

\* Where a request that is about to record FAILED comes from.
LEMMA LocalFails ==
    ASSUME TypeOK, NEW p \in Requests, Local(p), pc'[p] = "fail"
    PROVE  /\ op[p] \in Writes /\ work'[p].why # ""
           /\ \/ WorkbookMissing(p) \/ PoolTimeout(p) \/ LoadError(p)
              \/ pc[p] \in Working
<1> DEFINE Fails == op[p] \in Writes /\ work'[p].why # ""
<1>1. ASSUME NEW why \in Reasons \ {""}, Raise(p, why)
      PROVE  Fails
  BY <1>1, RaiseFails
<1>2. ASSUME NEW l, Goto(p, l)
      PROVE  l = "fail"
  BY <1>2 DEF Goto, TypeOK
<1>6. ASSUME \/ \E r : Answer(p, r)
             \/ \E code : Respond(p, code)
      PROVE  FALSE
  BY <1>6 DEF Respond, Answer, Goto, TypeOK
<1>3. CASE WorkbookMissing(p) \/ PoolTimeout(p) \/ LoadError(p)
  BY <1>1, <1>3 DEF WorkbookMissing, PoolTimeout, LoadError, Reasons
<1>4. CASE \/ EngineFails(p) \/ StepError(p) \/ InsertRows(p) \/ Match(p)
           \/ UpdateRows(p) \/ Fingerprint(p) \/ Digest(p) \/ Register(p)
           \/ Summarise(p)
  <2>1. pc[p] \in Working
    BY <1>4 DEF EngineFails, StepError, InsertRows, Match, UpdateRows,
       Fingerprint, Digest, Register, Summarise, Working, ExtractPcs,
       AutomatePcs
  <2>2. PICK why \in {"engine", "database", "constraint", "mismatch", "rules"} :
           Raise(p, why)
    BY <1>2, <1>4 DEF EngineFails, StepError, InsertRows, Match, UpdateRows,
       Fingerprint, Digest, Register, Summarise
  <2> QED
    BY <1>1, <2>1, <2>2 DEF Reasons
<1>5. CASE \/ NotFound(p) \/ WrongStatus(p) \/ RulesUnavailable(p)
           \/ MarkFailedLost(p) \/ ReadSummary(p) \/ RefuseResult(p)
           \/ Export(p)
  BY <1>5, <1>6 DEF NotFound, WrongStatus, RulesUnavailable, MarkFailedLost,
     ReadSummary, RefuseResult, Export
<1>7. CASE \/ Begin(p) \/ Engine(p) \/ MarkExtracted(p) \/ Scope(p)
           \/ MarkAutomated(p) \/ LoadToFail(p) \/ ReadCounts(p)
           \/ ReadRows(p) \/ Verify(p)
  <2>1. CASE \E code : Respond(p, code)
    BY <1>6, <2>1
  <2>2. CASE ~\E code : Respond(p, code)
    BY <1>2, <1>7, <2>2 DEF Begin, Engine, MarkExtracted, Scope,
       MarkAutomated, LoadToFail, ReadCounts, ReadRows, Verify
  <2> QED
    BY <2>1, <2>2
<1> QED
  BY <1>3, <1>4, <1>5, <1>7 DEF Local

LEMMA ActorSerial ==
    ASSUME SerialInv, NEW p \in Requests, Local(p), UNCHANGED status
    PROVE  SerialRequest(p)'
<1>0. /\ TypeOK /\ SerialRequest(p) /\ RequestInv(p)
      /\ UNCHANGED <<op, target>>
  BY LocalReads DEF SerialInv, BasicInv, OthersAnswered
<1>1. CASE Begin(p)
  <2>1. /\ Accepted(p)
        /\ \/ op[p] = "summary" /\ pc'[p] = "readSummary"
           \/ op[p] = "download" /\ pc'[p] = "readCounts"
           \/ op[p] \in Writes /\ pc'[p] = "engine"
    BY <1>0, <1>1 DEF Begin, Goto, TypeOK
  <2>2. /\ op[p] = "extract" => status[target[p]] = "UPLOADED"
        /\ op[p] = "automate" => status[target[p]] = "EXTRACTED"
    BY <2>1 DEF Accepted, Expected
  <2> QED
    BY <1>0, <2>1, <2>2 DEF SerialRequest, ExtractPcs, AutomatePcs
<1>2. CASE /\ ReadCounts(p) \/ ReadRows(p) \/ Verify(p)
           /\ pc'[p] # "idle"
  <2>1. /\ pc[p] \in {"readCounts", "readRows", "verify"}
        /\ pc'[p] \in {"readRows", "verify", "export"}
    BY <1>0, <1>2 DEF ReadCounts, ReadRows, Verify, Respond, Answer, Goto,
       TypeOK
  <2> QED
    BY <1>0, <2>1 DEF SerialRequest, ExtractPcs, AutomatePcs
<1>3. CASE pc'[p] = "fail"
  BY <1>0, <1>3, LocalFails DEF SerialRequest, ExtractPcs, AutomatePcs
<1>4. CASE pc'[p] = "markFailed"
  <2>1. pc[p] = "fail" /\ work'[p] = [work[p] EXCEPT
                                        !.status = status[target[p]]]
    BY <1>0, <1>4, LocalOrigin DEF LoadToFail, Respond, Answer, Goto, TypeOK
  <2>2. work[p] \in Work
    BY <1>0 DEF TypeOK
  <2>3. work'[p].why = work[p].why /\ work'[p].status = status[target[p]]
    BY <2>1, <2>2 DEF Work
  <2> QED
    BY <1>0, <1>4, <2>1, <2>3 DEF SerialRequest, ExtractPcs, AutomatePcs
<1>5. CASE pc'[p] \in ExtractPcs \cup AutomatePcs
  <2>1. \/ pc'[p] \in ExtractPcs /\ pc[p] \in {"engine"} \cup ExtractPcs
        \/ pc'[p] \in AutomatePcs /\ pc[p] \in {"engine"} \cup AutomatePcs
    BY <1>0, <1>5, LocalOrigin
  <2>2. RequestInv(p)'
    BY ActorKept DEF SerialInv
  <2>3. /\ pc'[p] \in ExtractPcs => op[p] = "extract"
        /\ pc'[p] \in AutomatePcs => op[p] = "automate"
    BY <1>0, <2>2 DEF RequestInv
  <2> QED
    BY <1>0, <2>1, <2>3 DEF SerialRequest, ExtractPcs, AutomatePcs
<1>6. CASE /\ ~Begin(p)
           /\ ~(ReadCounts(p) \/ ReadRows(p) \/ Verify(p)) \/ pc'[p] = "idle"
           /\ pc'[p] \notin {"fail", "markFailed"}
           /\ pc'[p] \notin ExtractPcs \cup AutomatePcs
  <2>1. pc'[p] \notin {"readSummary", "readCounts", "readRows", "verify",
                       "export", "engine"}
    BY <1>0, <1>6, LocalReads, LocalOrigin
  <2> QED
    BY <1>6, <2>1 DEF SerialRequest
<1> QED
  BY <1>1, <1>2, <1>3, <1>4, <1>5, <1>6

\* The commit of a request that is alone on its submission is that of a
\* transition the status allows.
LEMMA PublishAlone ==
    ASSUME SerialInv, NEW p \in Requests
    PROVE  /\ PublishExtract(p) =>
                 /\ status[target[p]] = "UPLOADED"
                 /\ status' = [status EXCEPT ![target[p]] = "EXTRACTED"]
                 /\ UNCHANGED reason
           /\ PublishAutomate(p) =>
                 /\ status[target[p]] = "EXTRACTED"
                 /\ status' = [status EXCEPT ![target[p]] = "AUTOMATED"]
                 /\ UNCHANGED reason
           /\ MarkFailed(p) =>
                 /\ status' = [status EXCEPT ![target[p]] = "FAILED"]
                 /\ reason' = [reason EXCEPT ![target[p]] = work[p].why]
                 /\ work[p].why # ""
<1>0. TypeOK /\ SerialRequest(p) /\ RequestInv(p) /\ target[p] \in Subs
  BY DEF SerialInv, BasicInv, TypeOK
<1>1. CASE PublishExtract(p)
  BY <1>0, <1>1 DEF PublishExtract, PublishAutomate, MarkFailed, RequestInv,
     SerialRequest, ExtractPcs
<1>2. CASE PublishAutomate(p)
  BY <1>0, <1>2 DEF PublishExtract, PublishAutomate, MarkFailed, RequestInv,
     SerialRequest, AutomatePcs
<1>3. CASE MarkFailed(p)
  <2>1. work[p].status = "FAILED" => status[target[p]] = "FAILED"
    BY <1>0, <1>3 DEF MarkFailed, SerialRequest
  <2>2. status' = [status EXCEPT ![target[p]] = "FAILED"]
    BY <1>0, <1>3, <2>1 DEF MarkFailed, TypeOK
  <2> QED
    BY <1>0, <1>3, <2>2 DEF PublishExtract, PublishAutomate, MarkFailed,
       SerialRequest
<1> QED
  BY <1>1, <1>2, <1>3

LEMMA ReasonKept ==
    ASSUME SerialInv, NEW p \in Requests,
           PublishExtract(p) \/ PublishAutomate(p) \/ MarkFailed(p)
    PROVE  /\ ReasonOnlyWhenFailed'
           /\ \A s \in Subs \ {target[p]} : status'[s] = status[s]
<1>1. TypeOK /\ ReasonOnlyWhenFailed /\ target[p] \in Subs
  BY DEF SerialInv, BasicInv, TypeOK
<1>2. CASE PublishExtract(p) \/ PublishAutomate(p)
  <2>1. PICK st \in {"EXTRACTED", "AUTOMATED"} :
           status' = [status EXCEPT ![target[p]] = st]
    BY <1>2, PublishAlone
  <2>2. status[target[p]] # "FAILED" /\ UNCHANGED reason
    BY <1>2, PublishAlone
  <2> QED
    BY <1>1, <2>1, <2>2 DEF TypeOK, ReasonOnlyWhenFailed
<1>3. CASE MarkFailed(p)
  <2>1. /\ status' = [status EXCEPT ![target[p]] = "FAILED"]
        /\ reason' = [reason EXCEPT ![target[p]] = work[p].why]
        /\ work[p].why # ""
    BY <1>3, PublishAlone
  <2> QED
    BY <1>1, <2>1 DEF TypeOK, ReasonOnlyWhenFailed
<1> QED
  BY <1>2, <1>3

LEMMA SerialStep == Serial /\ SerialInv /\ [Next]_vars => SerialInv'
<1> SUFFICES ASSUME Serial, SerialInv, [Next]_vars
             PROVE  SerialInv'
  OBVIOUS
<1> DEFINE Goal == /\ \A q \in Requests : SerialRequest(q)'
                   /\ \A q, r \in Requests : Alone(q, r)'
                   /\ ReasonOnlyWhenFailed'
<1>0. /\ TypeOK /\ BasicInv /\ BasicInv' /\ ReasonOnlyWhenFailed
      /\ \A q \in Requests : SerialRequest(q) /\ target[q] \in Subs
      /\ \A q, r \in Requests : Alone(q, r)
  BY BasicStep DEF SerialInv, BasicInv, TypeOK
<1>1. ASSUME NEW p \in Requests, OthersKept(p), InFlight(p),
             UNCHANGED status \/ Writing(p),
             UNCHANGED <<op, target>>, SerialRequest(p)', ReasonOnlyWhenFailed',
             \A s \in Subs \ {target[p]} : status'[s] = status[s]
      PROVE  Goal
  <2>1. ASSUME NEW q \in Requests \ {p}
        PROVE  SerialRequest(q)'
    <3>1. Writing(q) => status'[target[q]] = status[target[q]]
      BY <1>0, <1>1 DEF Alone
    <3> QED
      BY <1>0, <1>1, <3>1, SerialKept DEF OthersKept
  <2>2. \A q, r \in Requests : Alone(q, r)'
    BY <1>1, AloneKept DEF OthersKept, Writing, InFlight
  <2> QED
    BY <1>1, <2>1, <2>2
<1>2. ASSUME NEW p \in Requests, Local(p)
      PROVE  Goal
  <2>1. /\ UNCHANGED <<status, reason>> /\ UNCHANGED <<op, target>>
        /\ OthersKept(p) /\ InFlight(p)
    BY <1>0, <1>2, LocalStepTyped, ActorKept, LocalReads, LocalInFlight
    DEF Local, database, OthersAnswered, InFlight
  <2>2. SerialRequest(p)'
    BY <1>2, <2>1, ActorSerial
  <2>3. ReasonOnlyWhenFailed'
    BY <1>0, <2>1 DEF ReasonOnlyWhenFailed
  <2> QED
    BY <1>1, <2>1, <2>2, <2>3
<1>3. ASSUME NEW p \in Requests,
             CommitExtract(p) \/ CommitAutomate(p) \/ CommitLost(p)
                \/ MarkFailed(p)
      PROVE  Goal
  <2>1. PublishExtract(p) \/ PublishAutomate(p) \/ MarkFailed(p)
    BY <1>3 DEF CommitExtract, CommitAutomate, CommitLost
  <2>2. /\ OthersKept(p)
        /\ UNCHANGED <<op, target>>
        /\ \/ pc'[p] = "idle"
           \/ pc'[p] = "fail" /\ op[p] \in Writes /\ work'[p].why # ""
    <3>1. \/ Respond(p, "ok") \/ Respond(p, "failed")
          \/ Raise(p, "database")
      BY <1>3 DEF CommitExtract, CommitAutomate, CommitLost, MarkFailed
    <3>2. OthersKept(p) /\ pc'[p] \in {"idle", "fail"}
      BY <1>0, <3>1, AnswerOrRaise
    <3>3. pc'[p] = "fail" => op[p] \in Writes /\ work'[p].why # ""
      BY <1>0, <3>1, RaiseFails DEF Reasons, Respond, Answer, Goto, TypeOK
    <3>4. UNCHANGED <<op, target>>
      BY <3>1 DEF Raise, Respond, Answer, asked
    <3> QED
      BY <3>2, <3>3, <3>4
  <2>3. InFlight(p) /\ Writing(p)
    BY <1>0, <2>1 DEF PublishExtract, PublishAutomate, MarkFailed, InFlight,
       Writing, BasicInv, RequestInv, SerialRequest, ExtractPcs, AutomatePcs
  <2>4. SerialRequest(p)'
    BY <2>2 DEF SerialRequest, ExtractPcs, AutomatePcs
  <2> QED
    BY <1>1, <2>1, <2>2, <2>3, <2>4, ReasonKept
<1>4. ASSUME NEW s \in Subs, Upload(s)
      PROVE  Goal
  <2>1. /\ status[s] = "ABSENT"
        /\ status' = [status EXCEPT ![s] = "UPLOADED"]
        /\ UNCHANGED <<reason, pc, op, target, work>>
    BY <1>4 DEF Upload, asked
  <2>2. ReasonOnlyWhenFailed'
    BY <1>0, <2>1 DEF ReasonOnlyWhenFailed, TypeOK
  <2>3. ASSUME NEW q \in Requests
        PROVE  SerialRequest(q)'
    <3>1. target[q] # s => status'[target[q]] = status[target[q]]
      BY <1>0, <2>1 DEF TypeOK
    <3>2. CASE target[q] # s
      BY <1>0, <2>1, <3>1, <3>2, SerialKept
    <3>3. CASE target[q] = s
      <4>1. pc[q] \notin {"engine", "markFailed"} \cup ExtractPcs
                            \cup AutomatePcs
        BY <1>0, <2>1, <3>3 DEF BasicInv, RequestInv
      <4> QED
        BY <1>0, <2>1, <4>1 DEF SerialRequest
    <3> QED
      BY <3>2, <3>3
  <2>4. \A q, r \in Requests : Alone(q, r)'
    BY <1>0, <2>1 DEF Alone, Writing, InFlight
  <2> QED
    BY <2>2, <2>3, <2>4
<1>5. ASSUME NEW p \in Requests, NEW o \in Ops, NEW s \in Subs, Send(p, o, s)
      PROVE  Goal
  <2>1. /\ UNCHANGED <<status, reason>>
        /\ pc'[p] = "load" /\ OthersKept(p)
        /\ target'[p] = s /\ op'[p] = o
        /\ o \in Writes =>
              \A q \in Requests \ {p} : Writing(q) => target[q] # s
    BY <1>0, <1>5 DEF Send, Goto, TypeOK, OthersKept, database, Writing
  <2>2. \A q \in Requests \ {p} : SerialRequest(q)'
    BY <1>0, <2>1, SerialKept DEF OthersKept
  <2>3. SerialRequest(p)'
    BY <2>1 DEF SerialRequest, ExtractPcs, AutomatePcs
  <2>4. \A q, r \in Requests : Alone(q, r)'
    BY <1>0, <2>1 DEF Alone, OthersKept, Writing, InFlight
  <2>5. ReasonOnlyWhenFailed'
    BY <1>0, <2>1 DEF ReasonOnlyWhenFailed
  <2> QED
    BY <2>2, <2>3, <2>4, <2>5
<1>6. ASSUME \/ \E s \in Subs : ReplaceWorkbook(s)
             \/ ReplaceRules \/ Crash \/ UNCHANGED vars
      PROVE  Goal
  <2>1. /\ UNCHANGED <<status, reason, op, target>>
        /\ \A q \in Requests : \/ pc'[q] = "idle"
                               \/ pc'[q] = pc[q] /\ work'[q] = work[q]
    BY <1>6 DEF ReplaceWorkbook, ReplaceRules, Crash, vars, database, asked
  <2>2. \A q \in Requests : SerialRequest(q)'
    BY <1>0, <2>1, SerialKept
  <2>3. \A q, r \in Requests : Alone(q, r)'
    BY <2>1, AloneKept DEF Writing, InFlight
  <2>4. ReasonOnlyWhenFailed'
    BY <1>0, <2>1 DEF ReasonOnlyWhenFailed
  <2> QED
    BY <2>2, <2>3, <2>4
<1> HIDE DEF Goal
<1>7. Goal
  BY <1>2, <1>3, <1>4, <1>5, <1>6, NextSplit
<1> QED
  BY <1>0, <1>7 DEF SerialInv, Goal

LEMMA SerialInit == Init => SerialInv
<1> SUFFICES ASSUME Init
             PROVE  SerialInv
  OBVIOUS
<1>1. \A p \in Requests : SerialRequest(p)
  BY DEF Init, SerialRequest, ExtractPcs, AutomatePcs
<1>2. \A p, q \in Requests : Alone(p, q)
  BY DEF Init, Alone, Writing, InFlight
<1>3. ReasonOnlyWhenFailed
  BY DEF Init, ReasonOnlyWhenFailed
<1> QED
  BY <1>1, <1>2, <1>3, BasicInit DEF SerialInv

\* failure_reason is populated exactly while the status is FAILED
\* (persistence/models.py), as long as no two extracts or automates work on one
\* submission at a time, whoever reads it meanwhile: whatever fails,
\* _mark_failed writes both columns, and nothing that could still set the status
\* again is under way.
THEOREM ReasonsOnlyWhenFailed ==
    ASSUME Serial
    PROVE  Spec => []ReasonOnlyWhenFailed
<1>1. SerialInv => ReasonOnlyWhenFailed
  BY DEF SerialInv
<1>2. SerialInv /\ [Next]_vars => SerialInv'
  BY SerialStep
<1> QED
  BY <1>1, <1>2, SerialInit, PTL DEF Spec

----------------------------------------------------------------------------
(* The lifecycle is kept when failures come in time: a request that goes   *)
(* on to record FAILED has passed the status check, and its commit has not *)
(* taken effect                                                            *)

EnoughConnections ==
    IsFiniteSet(Requests) /\ Cardinality(Requests) <= PoolSize

FailuresInTime ==
    /\ Serial
    /\ EnoughConnections
    /\ "loadError" \notin Disturbances
    /\ "commitLost" \notin Disturbances

EffectiveRequest(p) ==
    /\ pc[p] \in {"fail", "markFailed"} =>
          status[target[p]] \in {"UPLOADED", "EXTRACTED"}
    /\ op[p] = "automate" /\ reply[p].code = "ok" =>
          status[target[p]] = "AUTOMATED"

EffectiveInv ==
    /\ SerialInv
    /\ \A p \in Requests : EffectiveRequest(p)

\* With a connection for every request, one that holds none finds one.
LEMMA ConnectionFree ==
    ASSUME EnoughConnections, NEW p \in Requests, pc[p] \notin InTransaction
    PROVE  FreeConnection
<1> DEFINE Held == {q \in Requests : pc[q] \in InTransaction}
<1>1. IsFiniteSet(Requests) /\ Cardinality(Requests) <= PoolSize
  BY DEF EnoughConnections
<1>2. Cardinality(Requests \ {p}) = Cardinality(Requests) - 1
  BY <1>1, FS_RemoveElement
<1>3. Held \subseteq Requests \ {p} /\ IsFiniteSet(Requests \ {p})
  BY <1>1, FS_RemoveElement
<1>4. Cardinality(Held) <= Cardinality(Requests \ {p})
  BY <1>3, FS_Subset
<1>5. /\ Cardinality(Held) \in Nat /\ Cardinality(Requests) \in Nat
      /\ PoolSize \in Nat
  BY <1>1, <1>3, FS_Subset, FS_CardinalityType, ConstantsAssumption
<1>6. Cardinality(Held) < PoolSize
  BY <1>1, <1>2, <1>4, <1>5
<1> QED
  BY <1>6 DEF FreeConnection

\* A request fails only after it was accepted.
LEMMA FailsInTime ==
    ASSUME FailuresInTime, SerialInv, NEW p \in Requests, Local(p),
           pc'[p] = "fail"
    PROVE  status[target[p]] \in {"UPLOADED", "EXTRACTED"}
<1>0. TypeOK /\ SerialRequest(p) /\ RequestInv(p)
  BY DEF SerialInv, BasicInv
<1>1. /\ op[p] \in Writes
      /\ \/ WorkbookMissing(p) \/ PoolTimeout(p) \/ LoadError(p)
         \/ pc[p] \in Working
  BY <1>0, LocalFails
<1>2. CASE WorkbookMissing(p)
  BY <1>1, <1>2 DEF WorkbookMissing, Accepted, Expected
<1>3. CASE PoolTimeout(p)
  <2>1. pc[p] \notin InTransaction
    BY <1>3 DEF PoolTimeout, InTransaction, Working, ExtractPcs, AutomatePcs,
       ReadPcs
  <2> QED
    BY <1>3, <2>1, ConnectionFree DEF PoolTimeout, FailuresInTime
<1>4. CASE LoadError(p)
  BY <1>4 DEF LoadError, FailuresInTime
<1>5. CASE pc[p] \in Working
  <2>1. pc[p] \notin ReadPcs
    BY <1>0, <1>1 DEF SerialRequest, ReadPcs
  <2>2. pc[p] \in {"engine"} \cup ExtractPcs \cup AutomatePcs
    BY <1>5, <2>1 DEF Working
  <2>3. /\ pc[p] \in ExtractPcs => op[p] = "extract"
        /\ pc[p] \in AutomatePcs => op[p] = "automate"
    BY <1>0 DEF RequestInv
  <2> QED
    BY <1>0, <1>1, <2>2, <2>3 DEF SerialRequest
<1> QED
  BY <1>1, <1>2, <1>3, <1>4, <1>5

\* Each step is a transition of the lifecycle or leaves all statuses alone.
Transition(s) ==
    \E st \in {"UPLOADED", "EXTRACTED", "AUTOMATED", "FAILED"} :
       /\ status' = [status EXCEPT ![s] = st]
       /\ status[s] \notin {"AUTOMATED", "FAILED"}

LEMMA ActorTransition ==
    ASSUME EffectiveInv, NEW p \in Requests,
           PublishExtract(p) \/ PublishAutomate(p) \/ MarkFailed(p)
    PROVE  Transition(target[p])
<1>1. SerialInv /\ EffectiveRequest(p)
  BY DEF EffectiveInv
<1>2. CASE PublishExtract(p) \/ PublishAutomate(p)
  BY <1>1, <1>2, PublishAlone DEF Transition
<1>3. CASE MarkFailed(p)
  <2>1. status[target[p]] \in {"UPLOADED", "EXTRACTED"}
    BY <1>1, <1>3 DEF MarkFailed, EffectiveRequest
  <2> QED
    BY <1>1, <1>3, <2>1, PublishAlone DEF Transition
<1> QED
  BY <1>2, <1>3

LEMMA FinishedKept ==
    EffectiveInv /\ [Next]_vars =>
       \A s \in Subs : status[s] \in {"AUTOMATED", "FAILED"} =>
                          status'[s] = status[s]
<1> SUFFICES ASSUME EffectiveInv, [Next]_vars
             PROVE  \A s \in Subs : status[s] \in {"AUTOMATED", "FAILED"} =>
                                       status'[s] = status[s]
  OBVIOUS
<1> DEFINE Goal == \A s \in Subs : status[s] \in {"AUTOMATED", "FAILED"} =>
                                      status'[s] = status[s]
<1>0. TypeOK
  BY DEF EffectiveInv, SerialInv, BasicInv
<1>1. ASSUME NEW s \in Subs, Transition(s)
      PROVE  Goal
  BY <1>0, <1>1 DEF Transition, TypeOK
<1>2. ASSUME NEW p \in Requests,
             CommitExtract(p) \/ CommitAutomate(p) \/ CommitLost(p)
                \/ MarkFailed(p)
      PROVE  Goal
  <2>1. target[p] \in Subs
    BY <1>0 DEF TypeOK
  <2> QED
    BY <1>1, <1>2, <2>1, ActorTransition DEF CommitExtract, CommitAutomate,
       CommitLost
<1>3. ASSUME NEW s \in Subs, Upload(s)
      PROVE  Goal
  BY <1>0, <1>3 DEF Upload, TypeOK
<1>4. ASSUME NEW p \in Requests, Local(p)
      PROVE  Goal
  BY <1>0, <1>4, LocalStepTyped DEF Local, database
<1>5. ASSUME \/ \E s \in Subs : ReplaceWorkbook(s)
             \/ \E p \in Requests, o \in Ops, s \in Subs : Send(p, o, s)
             \/ ReplaceRules \/ Crash \/ UNCHANGED vars
      PROVE  Goal
  BY <1>5 DEF ReplaceWorkbook, Send, ReplaceRules, Crash, vars, database
<1> HIDE DEF Goal
<1>6. Goal
  BY <1>2, <1>3, <1>4, <1>5, NextSplit
<1> QED
  BY <1>6 DEF Goal

LEMMA EffectiveKept ==
    ASSUME NEW q \in Requests, EffectiveRequest(q), op'[q] = op[q],
           target'[q] = target[q], reply'[q] = reply[q],
           status[target[q]] \in {"AUTOMATED", "FAILED"} =>
              status'[target[q]] = status[target[q]],
           \/ pc'[q] \notin {"fail", "markFailed"}
           \/ /\ pc'[q] = pc[q]
              /\ status'[target[q]] = status[target[q]]
    PROVE  EffectiveRequest(q)'
  BY DEF EffectiveRequest

LEMMA ActorEffective ==
    ASSUME FailuresInTime, EffectiveInv, NEW p \in Requests, Local(p),
           UNCHANGED status
    PROVE  EffectiveRequest(p)'
<1>0. /\ TypeOK /\ SerialInv /\ SerialRequest(p) /\ EffectiveRequest(p)
      /\ UNCHANGED <<op, target>>
  BY LocalReads DEF EffectiveInv, SerialInv, BasicInv, OthersAnswered
<1>1. pc'[p] = "fail" => status[target[p]] \in {"UPLOADED", "EXTRACTED"}
  BY <1>0, FailsInTime
<1>2. pc'[p] = "markFailed" => status[target[p]] \in {"UPLOADED", "EXTRACTED"}
  BY <1>0, LocalOrigin DEF LoadToFail, EffectiveRequest
<1>3. CASE PlainReply(p)
  <2>1. ASSUME NEW code \in Codes \ {"none", "ok"},
               reply'[p] = [NoReply EXCEPT !.code = code]
        PROVE  reply'[p].code # "ok"
    BY <2>1 DEF NoReply
  <2>2. reply'[p].code = "ok" => reply'[p] = reply[p]
    BY <1>3, <2>1 DEF PlainReply
  <2> QED
    BY <1>0, <1>1, <1>2, <2>2 DEF EffectiveRequest
<1>4. CASE ReadSummary(p) \/ Export(p)
  <2>1. op[p] # "automate"
    BY <1>0, <1>4 DEF ReadSummary, Export, SerialRequest
  <2> QED
    BY <1>0, <1>1, <1>2, <2>1 DEF EffectiveRequest
<1> QED
  BY <1>0, <1>3, <1>4, LocalReads

LEMMA EffectiveStep == FailuresInTime /\ EffectiveInv /\ [Next]_vars =>
                          EffectiveInv'
<1> SUFFICES ASSUME FailuresInTime, EffectiveInv, [Next]_vars
             PROVE  EffectiveInv'
  OBVIOUS
<1>0. /\ TypeOK /\ BasicInv /\ SerialInv /\ SerialInv'
      /\ \A q \in Requests : /\ EffectiveRequest(q) /\ SerialRequest(q)
                             /\ target[q] \in Subs
      /\ \A q, r \in Requests : Alone(q, r)
  BY SerialStep DEF EffectiveInv, FailuresInTime, SerialInv, BasicInv, TypeOK
<1>f. \A s \in Subs : status[s] \in {"AUTOMATED", "FAILED"} =>
                         status'[s] = status[s]
  BY FinishedKept
<1> SUFFICES ASSUME NEW q \in Requests
             PROVE  EffectiveRequest(q)'
  BY <1>0 DEF EffectiveInv
<1>1. ASSUME NEW p \in Requests, q # p, OthersKept(p), OthersAnswered(p),
             UNCHANGED status \/ Writing(p),
             \A s \in Subs \ {target[p]} : status'[s] = status[s]
      PROVE  EffectiveRequest(q)'
  <2>1. pc[q] \in {"fail", "markFailed"} =>
           status'[target[q]] = status[target[q]]
    BY <1>0, <1>1 DEF Alone, SerialRequest, Writing, InFlight
  <2> QED
    BY <1>0, <1>f, <1>1, <2>1, EffectiveKept DEF OthersKept, OthersAnswered
<1>2. ASSUME NEW p \in Requests, Local(p)
      PROVE  EffectiveRequest(q)'
  <2>1. OthersKept(p) /\ OthersAnswered(p) /\ UNCHANGED status
    BY <1>0, <1>2, ActorKept, LocalReads, LocalStepTyped DEF Local, database
  <2> QED
    BY <1>1, <1>2, <2>1, ActorEffective
<1>3. ASSUME NEW p \in Requests,
             CommitExtract(p) \/ CommitAutomate(p) \/ MarkFailed(p)
      PROVE  EffectiveRequest(q)'
  <2>1. /\ PublishExtract(p) \/ PublishAutomate(p) \/ MarkFailed(p)
        /\ Writing(p)
    BY <1>0, <1>3 DEF CommitExtract, CommitAutomate, PublishExtract,
       PublishAutomate, MarkFailed, InFlight, Writing, BasicInv, RequestInv,
       SerialRequest, ExtractPcs, AutomatePcs
  <2>2. \A s \in Subs \ {target[p]} : status'[s] = status[s]
    BY <1>0, <2>1, ReasonKept
  <2>3. PICK code \in {"ok", "failed"} :
           /\ Respond(p, code)
           /\ code = "ok" => \/ PublishAutomate(p)
                             \/ op[p] # "automate"
    BY <1>0, <1>3 DEF CommitExtract, CommitAutomate, MarkFailed, BasicInv,
       RequestInv, PublishExtract, ExtractPcs
  <2>4. /\ pc'[p] = "idle" /\ OthersKept(p) /\ OthersAnswered(p)
        /\ reply'[p] = [NoReply EXCEPT !.code = code]
    BY <1>0, <2>3, AnswerOrRaise, RespondReply DEF Codes
  <2>5. reply'[p].code = code
    BY <2>4 DEF NoReply
  <2>6. PublishAutomate(p) => status'[target[p]] = "AUTOMATED"
    BY <1>0, PublishAlone DEF TypeOK
  <2>7. EffectiveRequest(p)'
    BY <2>3, <2>4, <2>5, <2>6 DEF EffectiveRequest, OthersAnswered
  <2> QED
    BY <1>1, <2>1, <2>2, <2>4, <2>7
<1>4. ASSUME NEW p \in Requests, CommitLost(p)
      PROVE  EffectiveRequest(q)'
  BY <1>4 DEF CommitLost, FailuresInTime
<1>5. ASSUME NEW s \in Subs, Upload(s)
      PROVE  EffectiveRequest(q)'
  <2>1. /\ status[s] = "ABSENT"
        /\ \A t \in Subs \ {s} : status'[t] = status[t]
        /\ UNCHANGED <<pc, op, target, reply>>
    BY <1>0, <1>5 DEF Upload, TypeOK, asked
  <2>2. CASE target[q] # s
    BY <1>0, <1>f, <2>1, <2>2, EffectiveKept
  <2>3. CASE target[q] = s
    BY <1>0, <2>1, <2>3 DEF EffectiveRequest
  <2> QED
    BY <2>2, <2>3
<1>6. ASSUME \/ \E s \in Subs : ReplaceWorkbook(s)
             \/ \E p \in Requests, o \in Ops, s \in Subs : Send(p, o, s)
             \/ ReplaceRules \/ Crash
      PROVE  EffectiveRequest(q)'
  <2>1. UNCHANGED status
    BY <1>6 DEF ReplaceWorkbook, Send, ReplaceRules, Crash, database
  <2>2. CASE reply'[q] = NoReply /\ pc'[q] = "load"
    BY <2>2 DEF EffectiveRequest, NoReply
  <2>3. CASE ~(reply'[q] = NoReply /\ pc'[q] = "load")
    <3>1. /\ reply'[q] = reply[q]
          /\ op'[q] = op[q] /\ target'[q] = target[q]
          /\ pc'[q] = "idle" \/ pc'[q] = pc[q]
      BY <1>0, <1>6, <2>3, EnvironmentReads
    <3> QED
      BY <1>0, <2>1, <3>1, EffectiveKept
  <2> QED
    BY <2>2, <2>3
<1>7. CASE UNCHANGED vars
  <2>1. UNCHANGED <<status, pc, op, target, reply>>
    BY <1>7 DEF vars, database, asked
  <2> QED
    BY <1>0, <2>1, EffectiveKept
<1> QED
  BY <1>2, <1>3, <1>4, <1>5, <1>6, <1>7, NextSplit

LEMMA EffectiveInit == Init => EffectiveInv
<1> SUFFICES ASSUME Init
             PROVE  EffectiveInv
  OBVIOUS
<1>1. \A p \in Requests : EffectiveRequest(p)
  BY DEF Init, EffectiveRequest, NoReply
<1> QED
  BY <1>1, SerialInit DEF EffectiveInv

\* A client that was told its submission is automated keeps a result: with
\* one extract or automate per submission at a time, a connection for each
\* request, and no lost load or commit, nothing that comes later, crashes and replaced files
\* included, takes the status AUTOMATED away again.
THEOREM AcknowledgedResultsStand ==
    ASSUME FailuresInTime
    PROVE  Spec => []AcknowledgedResultStands
<1>1. EffectiveInv => AcknowledgedResultStands
  BY DEF EffectiveInv, EffectiveRequest, AcknowledgedResultStands
<1>2. EffectiveInv /\ [Next]_vars => EffectiveInv'
  BY EffectiveStep
<1> QED
  BY <1>1, <1>2, EffectiveInit, PTL DEF Spec

----------------------------------------------------------------------------
(* SubmissionWorkflow implements SubmissionLifecycle: the commit of an     *)
(* extraction or automation, the recording of FAILED and the upload are    *)
(* its transitions, and every other step leaves it as it is                *)

LEMMA LifecycleInit == Init => Lifecycle!Init
  BY DEF Init, Lifecycle!Init, Summarised

LEMMA LifecycleStill ==
    ASSUME UNCHANGED <<status, stored, summaries>>
    PROVE  [Lifecycle!Next]_(Lifecycle!vars)
  BY DEF Lifecycle!vars, Summarised

LEMMA ExtractIsTransition ==
    ASSUME EffectiveInv, NEW p \in Requests, PublishExtract(p)
    PROVE  Lifecycle!Extract(target[p])
<1>1. /\ TypeOK /\ BasicInv /\ SerialInv
      /\ target[p] \in Subs /\ work[p].book \in Books
  BY DEF EffectiveInv, SerialInv, BasicInv, TypeOK, RequestInv,
         PublishExtract, ExtractPcs
<1>2. stored[target[p]] \cup RowsOf[work[p].book] \in SUBSET SourceRows
  BY <1>1, ConstantsAssumption DEF TypeOK
<1>3. /\ stored' = [stored EXCEPT ![target[p]] =
                      @ \cup RowsOf[work[p].book]]
      /\ UNCHANGED summaries
  BY DEF PublishExtract
<1>4. \E R \in SUBSET SourceRows : stored' = [stored EXCEPT ![target[p]] = R]
  BY <1>2, <1>3
<1> QED
  BY <1>1, <1>3, <1>4, PublishAlone DEF Lifecycle!Extract, Summarised

LEMMA AutomateIsTransition ==
    ASSUME EffectiveInv, NEW p \in Requests, PublishAutomate(p)
    PROVE  Lifecycle!Automate(target[p])
<1>1. TypeOK /\ SerialInv /\ target[p] \in Subs
  BY DEF EffectiveInv, SerialInv, BasicInv, TypeOK
<1>2. PICK m : m = [sub |-> target[p], ruleSet |-> work[p].digest,
                    doc |-> work[p].doc, sow |-> work[p].sow,
                    rowCount |-> Cardinality(RowsOf[work[p].book])]
  OBVIOUS
<1>3. summaries' = summaries \cup {m} /\ m.sub = target[p] /\ UNCHANGED stored
  BY <1>2 DEF PublishAutomate
<1>4. ASSUME NEW s \in Subs
      PROVE  Summarised(s)' =
                IF s = target[p] THEN TRUE ELSE Summarised(s)
  <2>1. CASE s = target[p]
    BY <1>3, <2>1 DEF Summarised
  <2>2. CASE s # target[p]
    BY <1>3, <2>2 DEF Summarised
  <2> QED
    BY <2>1, <2>2
<1> DEFINE before == [s \in Subs |-> Summarised(s)]
           after == [s \in Subs |-> Summarised(s)']
<1>5. after = [before EXCEPT ![target[p]] = TRUE]
  <2>1. after = [s \in Subs |-> IF s = target[p] THEN TRUE
                                                 ELSE before[s]]
    BY <1>4, Zenon
  <2> HIDE DEF after
  <2>2. DOMAIN before = Subs
    OBVIOUS
  <2> HIDE DEF before
  <2> QED
    BY <1>1, <2>1, <2>2
<1> QED
  BY <1>1, <1>3, <1>5, PublishAlone DEF Lifecycle!Automate

LEMMA FailIsTransition ==
    ASSUME EffectiveInv, NEW p \in Requests, MarkFailed(p)
    PROVE  Lifecycle!Fail(target[p])
<1>1. SerialInv /\ EffectiveRequest(p)
  BY DEF EffectiveInv
<1>2. status[target[p]] \in {"UPLOADED", "EXTRACTED"}
  BY <1>1 DEF MarkFailed, EffectiveRequest
<1>3. UNCHANGED <<stored, summaries>>
  BY DEF MarkFailed
<1> QED
  BY <1>1, <1>2, <1>3, PublishAlone DEF Lifecycle!Fail, Summarised

LEMMA UploadIsTransition ==
    ASSUME NEW s \in Subs, Upload(s)
    PROVE  Lifecycle!Create(s)
  BY DEF Upload, Lifecycle!Create, Summarised

LEMMA LifecycleStep ==
    EffectiveInv /\ [Next]_vars => [Lifecycle!Next]_(Lifecycle!vars)
<1> SUFFICES ASSUME EffectiveInv, [Next]_vars
             PROVE  [Lifecycle!Next]_(Lifecycle!vars)
  OBVIOUS
<1> DEFINE Goal == [Lifecycle!Next]_(Lifecycle!vars)
<1>0. TypeOK /\ \A p \in Requests : target[p] \in Subs
  BY DEF EffectiveInv, SerialInv, BasicInv, TypeOK
<1>1. ASSUME NEW p \in Requests, Local(p)
      PROVE  Goal
  BY <1>0, <1>1, LocalStepTyped, LifecycleStill DEF Local, database
<1>2. ASSUME NEW p \in Requests,
             CommitExtract(p) \/ CommitAutomate(p) \/ CommitLost(p)
                \/ MarkFailed(p)
      PROVE  Goal
  <2>1. PublishExtract(p) \/ PublishAutomate(p) \/ MarkFailed(p)
    BY <1>2 DEF CommitExtract, CommitAutomate, CommitLost
  <2>2. \/ Lifecycle!Extract(target[p]) \/ Lifecycle!Automate(target[p])
        \/ Lifecycle!Fail(target[p])
    BY <2>1, ExtractIsTransition, AutomateIsTransition, FailIsTransition
  <2> QED
    BY <1>0, <2>2 DEF Lifecycle!Next
<1>3. ASSUME NEW s \in Subs, Upload(s)
      PROVE  Goal
  BY <1>3, UploadIsTransition DEF Lifecycle!Next
<1>4. ASSUME \/ \E s \in Subs : ReplaceWorkbook(s)
             \/ \E p \in Requests, o \in Ops, s \in Subs : Send(p, o, s)
             \/ ReplaceRules \/ Crash \/ UNCHANGED vars
      PROVE  Goal
  <2>1. UNCHANGED <<status, stored, summaries>>
    BY <1>4 DEF ReplaceWorkbook, Send, ReplaceRules, Crash, vars, database
  <2> QED
    BY <2>1, LifecycleStill
<1> HIDE DEF Goal
<1>5. Goal
  BY <1>1, <1>2, <1>3, <1>4, NextSplit
<1> QED
  BY <1>5 DEF Goal

\* Under the same conditions every behaviour of the workflow, transactions,
\* locks, failures and all, is one of SubmissionLifecycle: a submission goes
\* from UPLOADED over EXTRACTED to AUTOMATED or ends FAILED, its rows are
\* stored with EXTRACTED and its summary with AUTOMATED.
THEOREM WorkflowImplementsLifecycle ==
    ASSUME FailuresInTime
    PROVE  Spec => LifecycleSpec
<1>1. EffectiveInv /\ [Next]_vars => EffectiveInv'
  BY EffectiveStep
<1> QED
  BY <1>1, EffectiveInit, LifecycleInit, LifecycleStep, PTL
  DEF Spec, LifecycleSpec, Lifecycle!Spec

----------------------------------------------------------------------------
(* What was proved of the lifecycle holds of the program that keeps it     *)

Promise == INSTANCE SubmissionLifecycle_proofs
              WITH summarised <- [s \in Subs |-> Summarised(s)]

LEMMA SamePromise == LifecycleSpec => Promise!Spec
<1>1. Lifecycle!Init => Promise!Init
  BY DEF Lifecycle!Init, Promise!Init
<1>2. Lifecycle!Next => Promise!Next
  BY DEF Lifecycle!Next, Lifecycle!Create, Lifecycle!Extract,
     Lifecycle!Automate, Lifecycle!Fail, Promise!Next, Promise!Create,
     Promise!Extract, Promise!Automate, Promise!Fail
<1>3. UNCHANGED Lifecycle!vars => UNCHANGED Promise!vars
  BY DEF Lifecycle!vars, Promise!vars
<1> QED
  BY <1>1, <1>2, <1>3, PTL DEF LifecycleSpec, Lifecycle!Spec, Promise!Spec

\* "FAILED is terminal" (API_CONTRACT.md), and so is AUTOMATED: status, rows
\* and summary of a finished submission never change again.
THEOREM FinishedSubmissionsStay ==
    ASSUME FailuresInTime
    PROVE  Spec => Promise!FinishedIsFinal
<1>1. Spec => LifecycleSpec
  BY WorkflowImplementsLifecycle
<1> QED
  BY <1>1, SamePromise, Promise!FinishedStays, PTL

\* "No rows or summary survive without the status that says they are there"
\* (workflow_service.py): in the program, too, a summary exists exactly while
\* the status is AUTOMATED, and rows only after EXTRACTED.
THEOREM SubmissionsMatchStatus ==
    ASSUME FailuresInTime
    PROVE  Spec => []Promise!ResultMatchesStatus
<1>1. Spec => LifecycleSpec
  BY WorkflowImplementsLifecycle
<1> QED
  BY <1>1, SamePromise, Promise!ResultsMatchStatus, PTL
=============================================================================
