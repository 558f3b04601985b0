----------------------------- MODULE MCMigrations -----------------------------
(* One terminal, a project of up to three migrations and one of a single   *)
(* migration.                                                              *)
EXTENDS Migrations

CONSTANTS p1, p2, s1

Bounds == [p \in Projects |-> IF p = p1 THEN 3 ELSE 1]
=============================================================================
