----------------------------- MODULE MCPgSession -----------------------------
(* One connection; the configuration has SCRAM-SHA-256 and a link that never fails. *)
EXTENDS PgSession
=============================================================================
