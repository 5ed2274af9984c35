------------------------ MODULE SubmissionLifecycle ------------------------
(***************************************************************************)
(* What the MDR workflow promises about one submission, with no requests,  *)
(* transactions, files or rules in sight:                                  *)
(*                                                                         *)
(*     UPLOADED -> EXTRACTED -> AUTOMATED                                  *)
(*         \           \                                                   *)
(*          `-----------`--> FAILED                                        *)
(*                                                                         *)
(* A submission's document rows appear with EXTRACTED and never change     *)
(* afterwards, its processing summary appears with AUTOMATED, and FAILED   *)
(* and AUTOMATED are never left.  SubmissionWorkflow is the detailed       *)
(* specification; it implements this one when each submission has at most  *)
(* one extract or automate in flight (run WorkflowSerial, proof            *)
(* WorkflowSerial_proofs).                                                 *)
(***************************************************************************)

CONSTANTS
    Subs,           \* submission identifiers
    SourceRows      \* row numbers of the QatarEnergy-TN sheet

VARIABLES
    status,         \* mdr_submissions.status, "ABSENT" before the upload
    stored,         \* the source rows held in mdr_document_rows
    summarised      \* whether a processing summary exists

vars == <<status, stored, summarised>>

Statuses == {"ABSENT", "UPLOADED", "EXTRACTED", "AUTOMATED", "FAILED"}

Init ==
    /\ status = [s \in Subs |-> "ABSENT"]
    /\ stored = [s \in Subs |-> {}]
    /\ summarised = [s \in Subs |-> FALSE]

Create(s) ==
    /\ status[s] = "ABSENT"
    /\ status' = [status EXCEPT ![s] = "UPLOADED"]
    /\ UNCHANGED <<stored, summarised>>

Extract(s) ==
    /\ status[s] = "UPLOADED"
    /\ status' = [status EXCEPT ![s] = "EXTRACTED"]
    /\ \E R \in SUBSET SourceRows : stored' = [stored EXCEPT ![s] = R]
    /\ UNCHANGED summarised

Automate(s) ==
    /\ status[s] = "EXTRACTED"
    /\ status' = [status EXCEPT ![s] = "AUTOMATED"]
    /\ summarised' = [summarised EXCEPT ![s] = TRUE]
    /\ UNCHANGED stored

Fail(s) ==
    /\ status[s] \in {"UPLOADED", "EXTRACTED"}
    /\ status' = [status EXCEPT ![s] = "FAILED"]
    /\ UNCHANGED <<stored, summarised>>

Next == \E s \in Subs : Create(s) \/ Extract(s) \/ Automate(s) \/ Fail(s)

Spec == Init /\ [][Next]_vars

----------------------------------------------------------------------------

TypeOK ==
    /\ status \in [Subs -> Statuses]
    /\ stored \in [Subs -> SUBSET SourceRows]
    /\ summarised \in [Subs -> BOOLEAN]

\* The promise: rows only once the workbook was extracted, a summary exactly
\* when the submission is AUTOMATED
\* (services/workflow_service.py, "no rows or summary survive without the
\* status that says they are there").
ResultMatchesStatus ==
    \A s \in Subs :
        /\ status[s] \in {"ABSENT", "UPLOADED"} => stored[s] = {}
        /\ summarised[s] <=> status[s] = "AUTOMATED"

\* A finished submission stays as it is, with the rows and the summary it has
\* (API_CONTRACT.md, "FAILED is terminal").
FinishedIsFinal ==
    [][\A s \in Subs :
          status[s] \in {"AUTOMATED", "FAILED"} =>
             /\ status'[s] = status[s]
             /\ stored'[s] = stored[s]
             /\ summarised'[s] = summarised[s]]_vars
============================================================================
