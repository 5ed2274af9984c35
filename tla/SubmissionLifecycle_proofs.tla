-------------------- MODULE SubmissionLifecycle_proofs ---------------------
(***************************************************************************)
(* What follows from the promise of SubmissionLifecycle.                   *)
(* WorkflowSerial_proofs proves that SubmissionWorkflow keeps it, so this  *)
(* holds of the program too, under the conditions stated there.            *)
(***************************************************************************)
EXTENDS SubmissionLifecycle, TLAPS

Inv == TypeOK /\ ResultMatchesStatus

LEMMA InitInv == Init => Inv
  BY DEF Init, Inv, TypeOK, ResultMatchesStatus, Statuses

LEMMA StepInv == Inv /\ [Next]_vars => Inv'
<1> SUFFICES ASSUME Inv, [Next]_vars
             PROVE  Inv'
  OBVIOUS
<1> USE DEF Inv, TypeOK, ResultMatchesStatus, Statuses
<1>1. ASSUME NEW s \in Subs, Create(s)
      PROVE  Inv'
  BY <1>1 DEF Create
<1>2. ASSUME NEW s \in Subs, Extract(s)
      PROVE  Inv'
  BY <1>2 DEF Extract
<1>3. ASSUME NEW s \in Subs, Automate(s)
      PROVE  Inv'
  BY <1>3 DEF Automate
<1>4. ASSUME NEW s \in Subs, Fail(s)
      PROVE  Inv'
  BY <1>4 DEF Fail
<1>5. CASE UNCHANGED vars
  BY <1>5 DEF vars
<1> QED
  BY <1>1, <1>2, <1>3, <1>4, <1>5 DEF Next

\* Rows appear only with EXTRACTED, and a summary exists exactly while the
\* submission is AUTOMATED: "no rows or summary survive without the status
\* that says they are there" (workflow_service.py, Transactions).
THEOREM ResultsMatchStatus == Spec => []ResultMatchesStatus
<1>1. Inv => ResultMatchesStatus
  BY DEF Inv
<1> QED
  BY <1>1, InitInv, StepInv, PTL DEF Spec

\* A submission that is AUTOMATED or FAILED never changes again
\* (API_CONTRACT.md, "FAILED is terminal").
THEOREM FinishedStays == Spec => FinishedIsFinal
<1>1. Inv /\ [Next]_vars =>
         [\A s \in Subs :
             status[s] \in {"AUTOMATED", "FAILED"} =>
                /\ status'[s] = status[s]
                /\ stored'[s] = stored[s]
                /\ summarised'[s] = summarised[s]]_vars
  <2> SUFFICES ASSUME Inv, [Next]_vars, NEW s \in Subs,
                      status[s] \in {"AUTOMATED", "FAILED"}
               PROVE  /\ status'[s] = status[s]
                      /\ stored'[s] = stored[s]
                      /\ summarised'[s] = summarised[s]
    OBVIOUS
  <2> USE DEF Inv, TypeOK
  <2> QED
    BY DEF Next, Create, Extract, Automate, Fail, vars
<1> QED
  BY <1>1, InitInv, StepInv, PTL DEF Spec, FinishedIsFinal
=============================================================================
