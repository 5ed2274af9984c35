------------------------------ MODULE MCPage ------------------------------
(***************************************************************************)
(* Small instances of AutomatePage: workbooks the picker accepts and one   *)
(* it does not.                                                            *)
(***************************************************************************)
EXTENDS AutomatePage

\* The page never looks at the rows the backend stored.
MCRows == {}
===========================================================================
