----------------------- MODULE WorkbookUpload_proofs -----------------------
(***************************************************************************)
(* Theorems about WorkbookUpload for any set of uploads and plants, any    *)
(* number of processes and every disturbance.                              *)
(***************************************************************************)
EXTENDS WorkbookUpload, FiniteSetTheorems, TLAPS

LEMMA NumbersNat == Numbers \subseteq Nat \ {0}
  BY FS_CardinalityType, UploadAssumption DEF Numbers

----------------------------------------------------------------------------
(* Type correctness                                                        *)

LEMMA TypeStep == TypeOK /\ [Next]_vars => TypeOK'
<1> SUFFICES ASSUME TypeOK, [Next]_vars
             PROVE  TypeOK'
  OBVIOUS
<1> USE DEF TypeOK, Goto, Answer, Active, FileStates, Replies
<1>1. ASSUME NEW u \in Uploads, Arrive(u) \/ Advance(u)
      PROVE  TypeOK'
  <2>1. CASE Arrive(u)
    BY <2>1 DEF Arrive
  <2>2. CASE Check(u)
    BY <2>2 DEF Check
  <2>3. CASE Lookup(u)
    BY <2>3 DEF Lookup
  <2>4. CASE Create(u)
    BY <2>4 DEF Create
  <2>5. CASE Write(u)
    BY <2>5 DEF Write
  <2>6. CASE ReadNumber(u)
    BY <2>6 DEF ReadNumber
  <2>7. CASE Insert(u)
    BY <2>7 DEF Insert, Discard
  <2>8. CASE Commit(u)
    BY <2>8 DEF Commit
  <2> QED
    BY <1>1, <2>1, <2>2, <2>3, <2>4, <2>5, <2>6, <2>7, <2>8 DEF Advance
<1>2. ASSUME NEW u \in Uploads, Disturb(u)
      PROVE  TypeOK'
  BY <1>2 DEF Disturb, DatabaseError, Discard, WriteError, CommitError,
              CommitLost, Crash
<1>3. CASE UNCHANGED vars
  BY <1>3 DEF vars
<1> QED
  BY <1>1, <1>2, <1>3 DEF Next, Finished

\* Every variable keeps its type in every reachable state.
THEOREM UploadTypeCorrect == Spec => []TypeOK
<1>1. Init => TypeOK
  BY DEF Init, TypeOK, FileStates, Active, Replies
<1> QED
  BY <1>1, TypeStep, PTL DEF Spec

----------------------------------------------------------------------------
(* Rows and files                                                          *)

\* What RowHasFile rests on: the file is complete before the row is inserted
\* and nothing touches it once the upload has ended.
FileFirst ==
    \A u \in Uploads :
       /\ pc[u] \in {"number", "insert", "commit"} => file[u] = "whole"
       /\ row[u] => pc[u] = "done" /\ file[u] = "whole"

LEMMA FileFirstStep == TypeOK /\ FileFirst /\ [Next]_vars => FileFirst'
<1> SUFFICES ASSUME TypeOK, FileFirst, [Next]_vars
             PROVE  FileFirst'
  OBVIOUS
<1> USE DEF TypeOK, FileFirst, Goto, Answer
<1>1. ASSUME NEW u \in Uploads, Arrive(u) \/ Advance(u)
      PROVE  FileFirst'
  <2>1. CASE Arrive(u) \/ Check(u) \/ Lookup(u) \/ Create(u) \/ Write(u)
    BY <2>1 DEF Arrive, Check, Lookup, Create, Write
  <2>2. CASE ReadNumber(u)
    BY <2>2 DEF ReadNumber
  <2>3. CASE Insert(u)
    BY <2>3 DEF Insert, Discard
  <2>4. CASE Commit(u)
    BY <2>4 DEF Commit
  <2> QED
    BY <1>1, <2>1, <2>2, <2>3, <2>4 DEF Advance
<1>2. ASSUME NEW u \in Uploads, Disturb(u)
      PROVE  FileFirst'
  BY <1>2 DEF Disturb, DatabaseError, Discard, WriteError, CommitError,
              CommitLost, Crash, Active
<1>3. CASE UNCHANGED vars
  BY <1>3 DEF vars
<1> QED
  BY <1>1, <1>2, <1>3 DEF Next, Finished

\* The database never references a workbook that is not there, whatever
\* fails or crashes on the way (upload_workbook stores before it inserts).
THEOREM RowsHaveFiles == Spec => []RowHasFile
<1>1. Init => TypeOK /\ FileFirst
  BY DEF Init, TypeOK, FileFirst, FileStates, Active, Replies
<1>2. FileFirst => RowHasFile
  BY DEF FileFirst, RowHasFile
<1> QED
  BY <1>1, <1>2, TypeStep, FileFirstStep, PTL DEF Spec

----------------------------------------------------------------------------
(* Submission numbers                                                      *)

\* Draws(u): u has drawn its number and may still insert its row.
Draws(u) == pc[u] \in {"insert", "commit"}

\* A number drawn is not zero and at most one more than some committed one;
\* committing a neighbour can only make more of the numbers below it taken.
DrawnIsNext ==
    \A u \in Uploads :
       Draws(u) =>
          /\ number[u] # 0
          /\ number[u] > 1 =>
                \E v \in Uploads : Takes(v, plant[u], number[u] - 1)

\* The unique index: an inserted row's number is nobody else's.
KeyIsExclusive ==
    \A u, v \in Uploads :
       pc[u] = "commit" /\ u # v =>
          ~Takes(v, plant[u], number[u]) /\ ~Holds(v, plant[u], number[u])

NumberInv ==
    /\ TypeOK
    /\ FileFirst
    /\ DrawnIsNext
    /\ KeyIsExclusive
    /\ NumbersDense

\* A step that takes no row away and leaves numbers of rows alone keeps
\* every number taken that was.
LEMMA TakenStays ==
    ASSUME TypeOK, FileFirst, [Next]_vars,
           NEW v \in Uploads, row[v]
    PROVE  row'[v] /\ number'[v] = number[v] /\ plant'[v] = plant[v]
<1> USE DEF TypeOK, FileFirst
<1>1. ASSUME NEW u \in Uploads, Arrive(u) \/ Advance(u)
      PROVE  row'[v] /\ number'[v] = number[v] /\ plant'[v] = plant[v]
  BY <1>1 DEF Advance, Arrive, Check, Lookup, Create, Write, ReadNumber,
              Insert, Commit
<1>2. ASSUME NEW u \in Uploads, Disturb(u)
      PROVE  row'[v] /\ number'[v] = number[v] /\ plant'[v] = plant[v]
  BY <1>2 DEF Disturb, DatabaseError, WriteError, CommitError, CommitLost,
              Crash
<1>3. CASE UNCHANGED vars
  BY <1>3 DEF vars
<1> QED
  BY <1>1, <1>2, <1>3 DEF Next, Finished

LEMMA DrawnStep == NumberInv /\ [Next]_vars => DrawnIsNext'
<1> SUFFICES ASSUME NumberInv, [Next]_vars,
                    NEW u \in Uploads, Draws(u)'
             PROVE  /\ number'[u] # 0
                    /\ number'[u] > 1 =>
                          \E v \in Uploads : Takes(v, plant[u], number[u] - 1)'
  BY DEF DrawnIsNext
<1>1. CASE Draws(u) /\ number'[u] = number[u] /\ plant'[u] = plant[u]
  <2>1. number[u] # 0
    BY <1>1 DEF NumberInv, DrawnIsNext
  <2>2. ASSUME number[u] > 1
        PROVE  \E v \in Uploads : Takes(v, plant[u], number[u] - 1)'
    <3>1. PICK v \in Uploads : Takes(v, plant[u], number[u] - 1)
      BY <1>1, <2>2 DEF NumberInv, DrawnIsNext
    <3> QED
      BY <1>1, <3>1, TakenStays DEF NumberInv, Takes
  <2> QED
    BY <1>1, <2>1, <2>2
<1>2. CASE ReadNumber(u)
  <2>1. PICK n \in Numbers :
           /\ n = 1 \/ \E v \in Uploads : Takes(v, plant[u], n - 1)
           /\ number' = [number EXCEPT ![u] = n]
    BY <1>2 DEF ReadNumber
  <2>2. n \in Nat \ {0} /\ number'[u] = n
    BY <2>1, NumbersNat DEF NumberInv, TypeOK
  <2>3. ASSUME n > 1
        PROVE  \E v \in Uploads : Takes(v, plant[u], number[u] - 1)'
    <3>1. PICK v \in Uploads : Takes(v, plant[u], n - 1)
      BY <2>1, <2>3
    <3>2. plant' = plant /\ row' = row
      BY <1>2 DEF ReadNumber
    <3>3. number'[v] = number[v]
      BY <3>1, TakenStays DEF NumberInv, Takes
    <3> QED
      BY <3>1, <3>2, <3>3, <2>2 DEF Takes
  <2> QED
    BY <2>2, <2>3
<1>3. CASE ~ReadNumber(u)
  <2>1. Draws(u) /\ number'[u] = number[u] /\ plant'[u] = plant[u]
    <3> USE DEF NumberInv, TypeOK, Draws, Goto, Answer
    <3>1. ASSUME NEW w \in Uploads, Arrive(w) \/ Advance(w)
          PROVE  Draws(u) /\ number'[u] = number[u] /\ plant'[u] = plant[u]
      BY <1>3, <3>1 DEF Advance, Arrive, Check, Lookup, Create, Write,
                        ReadNumber, Insert, Discard, Commit
    <3>2. ASSUME NEW w \in Uploads, Disturb(w)
          PROVE  Draws(u) /\ number'[u] = number[u] /\ plant'[u] = plant[u]
      BY <3>2 DEF Disturb, DatabaseError, Discard, WriteError, CommitError,
                  CommitLost, Crash
    <3>3. CASE UNCHANGED vars
      BY <3>3 DEF vars
    <3> QED
      BY <3>1, <3>2, <3>3 DEF Next, Finished
  <2> QED
    BY <1>1, <2>1
<1> QED
  BY <1>2, <1>3

\* The two parts that speak of the unique index, step by step.
LEMMA NumbersStep ==
    NumberInv /\ [Next]_vars => (KeyIsExclusive /\ NumbersDense)'
<1> SUFFICES ASSUME NumberInv, [Next]_vars
             PROVE  (KeyIsExclusive /\ NumbersDense)'
  OBVIOUS
<1> USE DEF NumberInv
<1>1. ASSUME NEW u \in Uploads,
             Commit(u) \/ CommitLost(u)
      PROVE  (KeyIsExclusive /\ NumbersDense)'
  <2>1. /\ pc[u] = "commit"
        /\ row' = [row EXCEPT ![u] = TRUE]
        /\ pc' = [pc EXCEPT ![u] = "done"]
        /\ UNCHANGED <<number, plant>>
    BY <1>1 DEF Commit, CommitLost, Answer, Goto
  <2>2. KeyIsExclusive'
    BY <2>1 DEF KeyIsExclusive, TypeOK, Takes, Holds
  <2>3. ASSUME NEW w \in Uploads, row'[w]
        PROVE  \A v \in Uploads \ {w} : ~Takes(v, plant[w], number[w])'
    BY <2>1, <2>3 DEF KeyIsExclusive, NumbersDense, TypeOK, Takes
  <2>4. ASSUME NEW w \in Uploads, row'[w], number'[w] > 1
        PROVE  \E v \in Uploads : Takes(v, plant[w], number[w] - 1)'
    <3>1. PICK v \in Uploads : Takes(v, plant[w], number[w] - 1)
      BY <2>1, <2>4 DEF DrawnIsNext, Draws, NumbersDense, TypeOK
    <3> QED
      BY <2>1, <3>1 DEF TypeOK, Takes
  <2> QED
    BY <2>2, <2>3, <2>4 DEF NumbersDense
<1>2. ASSUME row' = row, plant' = plant,
             \A v \in Uploads : row[v] => number'[v] = number[v]
      PROVE  NumbersDense'
  <2>1. ASSUME NEW w \in Uploads, row[w], number[w] > 1
        PROVE  \E v \in Uploads : Takes(v, plant[w], number[w] - 1)'
    BY <1>2, <2>1 DEF NumbersDense, Takes
  <2> QED
    BY <1>2, <2>1 DEF NumbersDense, Takes
<1>3. ASSUME NEW u \in Uploads, ReadNumber(u)
      PROVE  (KeyIsExclusive /\ NumbersDense)'
  <2>1. /\ pc[u] = "number"
        /\ row' = row /\ plant' = plant
        /\ pc' = [pc EXCEPT ![u] = "insert"]
        /\ \A v \in Uploads \ {u} : number'[v] = number[v]
    BY <1>3 DEF ReadNumber, Goto, TypeOK
  <2>2. ~row[u]
    BY <2>1 DEF FileFirst
  <2>3. KeyIsExclusive'
    BY <2>1, <2>2 DEF KeyIsExclusive, TypeOK, Takes, Holds
  <2> QED
    BY <1>2, <2>1, <2>2, <2>3
<1>4. ASSUME NEW u \in Uploads, Insert(u)
      PROVE  (KeyIsExclusive /\ NumbersDense)'
  <2>1. row' = row /\ plant' = plant /\ number' = number
    BY <1>4 DEF Insert
  <2>2. KeyIsExclusive'
    BY <1>4, <2>1 DEF Insert, Discard, Answer, Goto, KeyIsExclusive, TypeOK,
                      Takes, Holds
  <2> QED
    BY <1>2, <2>1, <2>2
<1>5. ASSUME NEW u \in Uploads, row' = row, plant' = plant, number' = number,
             NEW l \in Active \cup {"done"}, l # "commit",
             pc' = [pc EXCEPT ![u] = l]
      PROVE  (KeyIsExclusive /\ NumbersDense)'
  <2>1. KeyIsExclusive'
    BY <1>5 DEF KeyIsExclusive, TypeOK, Takes, Holds
  <2> QED
    BY <1>2, <1>5, <2>1
<1>6. ASSUME NEW u \in Uploads,
             \/ Arrive(u) \/ Check(u) \/ Lookup(u) \/ Create(u) \/ Write(u)
             \/ DatabaseError(u) \/ WriteError(u) \/ CommitError(u) \/ Crash(u)
      PROVE  (KeyIsExclusive /\ NumbersDense)'
  <2>1. /\ row' = row /\ plant' = plant /\ number' = number
        /\ \E l \in Active \cup {"done"} :
              l # "commit" /\ pc' = [pc EXCEPT ![u] = l]
    BY <1>6 DEF Arrive, Check, Lookup, Create, Write, DatabaseError, Discard,
                WriteError, CommitError, Crash, Answer, Goto, Active
  <2> QED
    BY <1>5, <2>1
<1>7. CASE UNCHANGED vars
  <2>1. KeyIsExclusive'
    BY <1>7 DEF vars, KeyIsExclusive, Takes, Holds
  <2> QED
    BY <1>2, <1>7, <2>1 DEF vars
<1> QED
  BY <1>1, <1>3, <1>4, <1>6, <1>7 DEF Next, Advance, Disturb, Finished

\* A plant's submissions are numbered 1, 2, ... without a repetition or a
\* gap, however uploads overlap and whatever fails: the number read by
\* next_submission_no is stale at worst in a way the unique index refuses.
THEOREM SubmissionNumbersDense == Spec => []NumbersDense
<1>1. Init => NumberInv
  BY DEF Init, NumberInv, TypeOK, FileFirst, DrawnIsNext, Draws,
         KeyIsExclusive, NumbersDense, FileStates, Active, Replies
<1>2. NumberInv /\ [Next]_vars => NumberInv'
  BY TypeStep, FileFirstStep, DrawnStep, NumbersStep DEF NumberInv
<1>3. NumberInv => NumbersDense
  BY DEF NumberInv
<1> QED
  BY <1>1, <1>2, <1>3, PTL DEF Spec
=============================================================================
