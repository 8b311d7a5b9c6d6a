---------------------------- MODULE MCFileActions ----------------------------
(***************************************************************************)
(* Values for the constants of FileActions: a short and a long write of    *)
(* the same path, and a reader whose limit lies between them.              *)
(***************************************************************************)
EXTENDS FileActions

CONSTANTS short, long

Sizes == [w \in {short, long} |-> IF w = short THEN 1 ELSE 3]
=============================================================================
