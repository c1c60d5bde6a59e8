---------------------------- MODULE MCKeyedLocks ----------------------------
(* Two repositories, the first shared by three callers, and two paths: enough *)
(* for a table entry to be deleted and created again while two other callers  *)
(* still hold pointers into the table.                                        *)
EXTENDS KeyedLocks, TLC

CONSTANTS c1, c2, c3, c4, r1, r2

MCRepositoryOf == (c1 :> r1) @@ (c2 :> r1) @@ (c3 :> r1) @@ (c4 :> r2)
=============================================================================
