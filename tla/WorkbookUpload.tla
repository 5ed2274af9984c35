--------------------------- MODULE WorkbookUpload ---------------------------
(***************************************************************************)
(* services/workflow_service.py, upload_workbook: how a submission comes   *)
(* into being.  The bytes are checked, the plant is looked up, the file is *)
(* written under a fresh submission id, the plant's next number is read,   *)
(* the row is inserted and the transaction commits.  File and row live in  *)
(* two stores; only the order of the steps keeps them consistent.          *)
(*                                                                         *)
(* An upload is named by the submission id it draws.  The handler is async *)
(* and calls the service directly, so a server process runs one upload at  *)
(* a time; uploads overlap when there are several processes (replicas, or  *)
(* the old and the new one while a deployment is replaced).                *)
(***************************************************************************)
EXTENDS Naturals, FiniteSets

CONSTANTS
    Uploads,        \* upload requests, and the submission ids they draw
    Plants,         \* the registered plants
    UnknownPlant,   \* a plant id that no plant has
    Processes,      \* how many server processes there are
    Disturbances    \* what may go wrong, see Disturbance

Disturbance ==
    {"databaseError",   \* a query or the INSERT fails
     "writeError",      \* the disk is full while the file is written
     "commitError",     \* COMMIT fails and the transaction rolls back
     "commitLost",      \* COMMIT succeeds, its acknowledgement is lost
     "crash"}           \* the server process dies

ASSUME UploadAssumption ==
    /\ IsFiniteSet(Uploads)
    /\ UnknownPlant \notin Plants
    /\ Processes \in Nat \ {0}
    /\ Disturbances \subseteq Disturbance

VARIABLES
    file,           \* upload storage: what is under the upload's key
    row,            \* whether its mdr_submissions row is committed
    number,         \* the submission_no it drew, 0 before that
    plant,          \* the plant it names
    pc,             \* where the upload is
    reply           \* how it was answered

vars == <<file, row, number, plant, pc, reply>>

\* A bound on the numbers: every upload draws at most one.
Numbers == 1..Cardinality(Uploads)
AnyPlant == Plants \cup {UnknownPlant}
FileStates == {"none", "partial", "whole"}
Active == {"check", "lookup", "create", "write", "number", "insert", "commit"}
Replies == {"none", "created", "refused", "notFound", "error"}

Init ==
    /\ file = [u \in Uploads |-> "none"]
    /\ row = [u \in Uploads |-> FALSE]
    /\ number = [u \in Uploads |-> 0]
    /\ plant \in [Uploads -> AnyPlant]
    /\ pc = [u \in Uploads |-> "new"]
    /\ reply = [u \in Uploads |-> "none"]

\* u's committed row takes a number of plant q.
Takes(u, q, n) == row[u] /\ plant[u] = q /\ number[u] = n

\* u's inserted row, not committed, holds that key of the unique index on
\* (plant_id, submission_no).
Holds(u, q, n) == pc[u] = "commit" /\ plant[u] = q /\ number[u] = n

Goto(u, l) == pc' = [pc EXCEPT ![u] = l]

Answer(u, r) ==
    /\ Goto(u, "done")
    /\ reply' = [reply EXCEPT ![u] = r]

\* A process picks the request up; its event loop is busy until it is done.
Arrive(u) ==
    /\ pc[u] = "new"
    /\ Cardinality({v \in Uploads : pc[v] \in Active}) < Processes
    /\ Goto(u, "check")
    /\ UNCHANGED <<file, row, number, plant, reply>>

\* Empty, oversized, of another type, or not an MDR workbook; else it passes.
Check(u) ==
    /\ pc[u] = "check"
    /\ \/ Goto(u, "lookup") /\ UNCHANGED reply
       \/ Answer(u, "refused")
    /\ UNCHANGED <<file, row, number, plant>>

Lookup(u) ==
    /\ pc[u] = "lookup"
    /\ IF plant[u] \in Plants
       THEN Goto(u, "create") /\ UNCHANGED reply
       ELSE Answer(u, "notFound")
    /\ UNCHANGED <<file, row, number, plant>>

\* LocalWorkbookStorage.put: open for exclusive creation ...
Create(u) ==
    /\ pc[u] = "create"
    /\ file' = [file EXCEPT ![u] = "partial"]
    /\ Goto(u, "write")
    /\ UNCHANGED <<row, number, plant, reply>>

\* ... and write the bytes.
Write(u) ==
    /\ pc[u] = "write"
    /\ file' = [file EXCEPT ![u] = "whole"]
    /\ Goto(u, "number")
    /\ UNCHANGED <<row, number, plant, reply>>

\* next_submission_no: one more than the highest committed number.
ReadNumber(u) ==
    /\ pc[u] = "number"
    /\ \E n \in Numbers :
          /\ \A v \in Uploads :
                row[v] /\ plant[v] = plant[u] => number[v] < n
          /\ n = 1 \/ \E v \in Uploads : Takes(v, plant[u], n - 1)
          /\ number' = [number EXCEPT ![u] = n]
    /\ Goto(u, "insert")
    /\ UNCHANGED <<file, row, plant, reply>>

\* Mutant: the file is moved aside.
DiscardMoves(u) ==
    /\ file' = [file EXCEPT ![u] = "moved"]
    /\ Answer(u, "error")

\* The except clause around SubmissionRepository.add: the file goes again.
Discard(u) ==
    /\ file' = [file EXCEPT ![u] = "none"]
    /\ Answer(u, "error")

\* Mutants: there is no unique index; a number that is taken is waited for.
InsertUnchecked(u) ==
    /\ pc[u] = "insert"
    /\ Goto(u, "commit")
    /\ UNCHANGED <<file, row, number, plant, reply>>

InsertWaits(u) ==
    /\ pc[u] = "insert"
    /\ \A v \in Uploads \ {u} :
          ~Holds(v, plant[u], number[u]) /\ ~Takes(v, plant[u], number[u])
    /\ Goto(u, "commit")
    /\ UNCHANGED <<file, row, number, plant, reply>>

\* The INSERT waits for an uncommitted row with the same key.
Insert(u) ==
    /\ pc[u] = "insert"
    /\ \A v \in Uploads \ {u} : ~Holds(v, plant[u], number[u])
    /\ IF \E v \in Uploads : Takes(v, plant[u], number[u])
       THEN Discard(u)
       ELSE Goto(u, "commit") /\ UNCHANGED <<file, reply>>
    /\ UNCHANGED <<row, number, plant>>

Commit(u) ==
    /\ pc[u] = "commit"
    /\ row' = [row EXCEPT ![u] = TRUE]
    /\ Answer(u, "created")
    /\ UNCHANGED <<file, number, plant>>

----------------------------------------------------------------------------
(* What may go wrong                                                       *)

\* Before put: nothing is stored.  Inside add: the file is removed.
DatabaseError(u) ==
    /\ "databaseError" \in Disturbances
    /\ \/ pc[u] = "lookup" /\ Answer(u, "error") /\ UNCHANGED file
       \/ pc[u] \in {"number", "insert"} /\ Discard(u)
    /\ UNCHANGED <<row, number, plant>>

\* Mutant: a short write goes unnoticed.
WriteErrorIgnored(u) ==
    /\ "writeError" \in Disturbances
    /\ pc[u] = "write"
    /\ Goto(u, "number")
    /\ UNCHANGED <<file, row, number, plant, reply>>

\* put is called outside the try: what was written stays.
WriteError(u) ==
    /\ "writeError" \in Disturbances
    /\ pc[u] = "write"
    /\ Answer(u, "error")
    /\ UNCHANGED <<file, row, number, plant>>

\* session_scope commits after the try: rolled back, the file stays.
CommitError(u) ==
    /\ "commitError" \in Disturbances
    /\ pc[u] = "commit"
    /\ Answer(u, "error")
    /\ UNCHANGED <<file, row, number, plant>>

CommitLost(u) ==
    /\ "commitLost" \in Disturbances
    /\ pc[u] = "commit"
    /\ row' = [row EXCEPT ![u] = TRUE]
    /\ Answer(u, "error")
    /\ UNCHANGED <<file, number, plant>>

Crash(u) ==
    /\ "crash" \in Disturbances
    /\ pc[u] \in Active
    /\ Goto(u, "done")
    /\ UNCHANGED <<file, row, number, plant, reply>>

----------------------------------------------------------------------------

Advance(u) ==
    \/ Check(u) \/ Lookup(u) \/ Create(u) \/ Write(u)
    \/ ReadNumber(u) \/ Insert(u) \/ Commit(u)

Disturb(u) ==
    \/ DatabaseError(u) \/ WriteError(u) \/ CommitError(u) \/ CommitLost(u)
    \/ Crash(u)

\* No more uploads: the model stops, the server does not.
Finished ==
    /\ \A u \in Uploads : pc[u] = "done"
    /\ UNCHANGED vars

Next ==
    \/ \E u \in Uploads : Arrive(u) \/ Advance(u) \/ Disturb(u)
    \/ Finished

Spec == Init /\ [][Next]_vars

\* An upload that a process picked up runs; nothing says one is picked up.
FairSpec == Spec /\ \A u \in Uploads : WF_vars(Advance(u))

----------------------------------------------------------------------------
(* Properties                                                              *)

\* Every variable has its type.
TypeOK ==
    /\ file \in [Uploads -> FileStates]
    /\ row \in [Uploads -> BOOLEAN]
    /\ number \in [Uploads -> Numbers \cup {0}]
    /\ plant \in [Uploads -> AnyPlant]
    /\ pc \in [Uploads -> Active \cup {"new", "done"}]
    /\ reply \in [Uploads -> Replies]

\* "The file is stored before the row so the database never references a
\* workbook that is not there" (upload_workbook): whatever fails, crashes or
\* loses a race, a committed row has its complete file.
RowHasFile == \A u \in Uploads : row[u] => file[u] = "whole"

\* A plant's submissions are MDR #1, #2, ... without a repetition or a gap
\* "that reads as a lost submission" (next_submission_no), although the
\* number is read in one statement and written in a later one.
NumbersDense ==
    \A u \in Uploads :
       row[u] =>
          /\ \A v \in Uploads \ {u} : ~Takes(v, plant[u], number[u])
          /\ number[u] > 1 =>
                \E v \in Uploads : Takes(v, plant[u], number[u] - 1)

\* Every upload a process picked up ends: an INSERT waits only for uploads
\* that wait for nobody.
UploadEnds == \A u \in Uploads : pc[u] \in Active ~> pc[u] = "done"
=============================================================================
