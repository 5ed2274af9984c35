------------------------------ MODULE MCUpload ------------------------------
(***************************************************************************)
(* Small instances of WorkbookUpload.  With three uploads and two plants,  *)
(* two of them race for a number that the third one has just taken or      *)
(* given up, or beside an upload to another plant.  No symmetry: the runs  *)
(* check liveness.                                                         *)
(***************************************************************************)
EXTENDS WorkbookUpload
=============================================================================
