------------------------------ MODULE MCIntake ------------------------------
(***************************************************************************)
(* Two sources; a request for both that is sent twice, and another request *)
(* for one of them.  Two files; for one of them the commit is sent twice   *)
(* with its key and once with another.                                     *)
(***************************************************************************)
EXTENDS Intake

MCKeyOf == [r \in Request |-> IF r \in {"first", "again"} THEN "k1" ELSE "k2"]
MCSelected == [r \in Request |-> IF r \in {"first", "again"} THEN Source ELSE {"s1"}]

MCFileOf == [r \in Commit |-> IF r = "c4" THEN "f2" ELSE "f1"]
MCCommitKey == [r \in Commit |-> IF r \in {"c1", "c2"} THEN "k1" ELSE r]

(* All but the operation whose halves do harm to the licences of jobs. *)
MCOverlap == CatalogOp \ {"activate"}
=============================================================================
