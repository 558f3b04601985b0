------------------------------ MODULE Database ------------------------------
(***************************************************************************)
(* The databases of a program: std/db (src/runtime/vader_db.c), which      *)
(* dispatches on the DSN to Postgres, MySQL or the embedded SQLite, and    *)
(* std/mongo.  One connection of one kind, the requests on it, the loop    *)
(* `while rows.next()` over a result, and the end of the connection.       *)
(*                                                                         *)
(* SQLite is a library: a statement is alive from sqlite3_prepare_v2 to    *)
(* sqlite3_finalize, and a connection with one alive cannot be closed.     *)
(***************************************************************************)
EXTENDS DbConnection

CONSTANTS Kinds,   \* the databases the run looks at
          Texts, FirstBatch, ToBson(_), FromBson(_)  \* see MongoSession

ASSUME DatabaseAssumption ==
  FirstBatch \in Nat /\ Kinds \subseteq {"postgres", "mysql", "mongo", "sqlite"}

VARIABLES
  kind,      \* VDB.kind, or "mongo"
  loop,      \* the loop over the rows of the last query: "none", "open",
             \* "ended" (vader_db_next returned 0), "left" (by break)
  seen,      \* how many rows it has seen
  alive,     \* how many SQLite statements are prepared and not finalized
  abandoned, \* how many loops were left by break
  posted     \* see MongoSession

program == <<kind, loop, seen, alive, abandoned>>
vars    == <<conn, program, posted>>

Pg == INSTANCE PgSession
My == INSTANCE MySession
Mg == INSTANCE MongoSession

Init ==
  /\ kind \in Kinds
  /\ CASE kind = "postgres" -> Pg!Init /\ posted = {}
       [] kind = "mysql"    -> My!Init /\ posted = {}
       [] kind = "mongo"    -> Mg!Init
       [] kind = "sqlite"   -> ConnInit /\ ~tls /\ valid /\ method = "file" /\ posted = {}
  /\ loop = "none" /\ seen = 0 /\ alive = 0 /\ abandoned = 0

-----------------------------------------------------------------------------
(* SQLite: open, exec, query.  The library answers at once; `srv`, the     *)
(* link and the password play no part.                                     *)

SqliteOpen ==
  /\ kind = "sqlite" /\ cl = "connect"
  /\ \/ cl' = "idle" /\ sock' = TRUE
     \/ cl' = "failed" /\ UNCHANGED sock
  /\ UNCHANGED <<q, op, rows, errout, tls, server, link, program, posted>>

(* Statements of one text are run one by one: the ones before a failing    *)
(* one have taken effect.                                                  *)
SqliteExec ==
  /\ kind = "sqlite" /\ cl = "idle" /\ loop # "open"
  /\ q < NQueries
  /\ q' = q + 1 /\ op' = "exec"
  /\ rows' = <<>> /\ produced' = <<>> /\ loop' = "none" /\ seen' = 0
  /\ outcome' \in {"done", "half", "failed"}
  /\ errout' = (outcome' # "done")
  /\ UNCHANGED <<cl, sock, tls, srv, method, valid, link, kind, alive, abandoned, posted>>

(* vader_db_query: a null result when the statement cannot be prepared. *)
SqliteQuery ==
  /\ kind = "sqlite" /\ cl = "idle" /\ loop # "open"
  /\ q < NQueries
  /\ q' = q + 1 /\ op' = "query"
  /\ rows' = <<>> /\ seen' = 0 /\ errout' = FALSE
  /\ \/ /\ loop' = "open" /\ alive' = alive + 1 /\ outcome' = "none"
        /\ \E n \in 0 .. MaxRows : produced' = [k \in 1 .. n |-> <<q', k>>]
     \/ /\ loop' = "ended" /\ outcome' = "failed" /\ produced' = <<>>
        /\ UNCHANGED alive
  /\ UNCHANGED <<cl, sock, tls, srv, method, valid, link, kind, abandoned, posted>>

(* Mutant of SqliteNext: the statement is finalized when it has no more    *)
(* rows, and not when it fails.                                            *)
SqliteNextDoneOnly ==
  /\ kind = "sqlite" /\ loop = "open"
  /\ \/ /\ seen < Len(produced)
        /\ rows' = Append(rows, produced[seen + 1])
        /\ seen' = seen + 1
        /\ UNCHANGED <<outcome, loop, alive>>
     \/ /\ outcome' \in {"failed"} \cup (IF seen = Len(produced) THEN {"done"} ELSE {})
        /\ loop' = "ended"
        /\ alive' = IF outcome' = "done" THEN alive - 1 ELSE alive
        /\ UNCHANGED <<rows, seen>>
  /\ UNCHANGED <<cl, q, op, errout, sock, tls, srv, method, valid, produced, link, kind, abandoned, posted>>

(* vader_db_next on a statement: a row, or its end, which is also what an  *)
(* error looks like; either way the statement is finalized.                *)
SqliteNext ==
  /\ kind = "sqlite" /\ loop = "open"
  /\ \/ /\ seen < Len(produced)
        /\ rows' = Append(rows, produced[seen + 1])
        /\ seen' = seen + 1
        /\ UNCHANGED <<outcome, loop, alive>>
     \/ /\ outcome' \in {"failed"} \cup (IF seen = Len(produced) THEN {"done"} ELSE {})
        /\ loop' = "ended" /\ alive' = alive - 1
        /\ UNCHANGED <<rows, seen>>
  /\ UNCHANGED <<cl, q, op, errout, sock, tls, srv, method, valid, produced, link, kind, abandoned, posted>>

(* vader_db_close: sqlite3_close refuses while a statement is alive, and   *)
(* the refusal is not looked at.                                           *)
SqliteClose ==
  /\ kind = "sqlite" /\ cl = "idle" /\ loop # "open"
  /\ cl' = "closed"
  /\ sock' = (alive > 0)
  /\ UNCHANGED <<q, op, rows, errout, tls, server, link, program, posted>>

(* Without a connection: exec is an error, query a null result. *)
SqliteInvalid ==
  /\ kind = "sqlite" /\ cl = "failed"
  /\ \E o \in {"exec", "query"} : Begin(o) /\ errout' = (o = "exec")
  /\ UNCHANGED <<cl, rows, sock, tls, srv, method, valid, produced, link, program, posted>>

Sqlite == SqliteOpen \/ SqliteExec \/ SqliteQuery \/ SqliteNext \/ SqliteClose \/ SqliteInvalid

-----------------------------------------------------------------------------
(* Postgres and MySQL behind std/db *)

Wire == kind \in {"postgres", "mysql"}

(* A driver step that is not the begin of a request. *)
Opening     == \/ kind = "postgres" /\ Pg!Opening
               \/ kind = "mysql" /\ My!Opening
ClientReads == \/ kind = "postgres" /\ Pg!ClientReads
               \/ kind = "mysql" /\ My!ClientReads
Close       == \/ kind = "postgres" /\ Pg!Close
               \/ kind = "mysql" /\ My!Close
ServerStep  == \/ kind = "postgres" /\ Pg!ServerStep
               \/ kind = "mysql" /\ My!ServerStep
Query       == \/ kind = "postgres" /\ (Pg!Query \/ Pg!QueryInvalid)
               \/ kind = "mysql" /\ (My!Query \/ My!QueryInvalid)

(* vader_db_exec and vader_db_query; after a query the program loops over  *)
(* its rows, whether there was an error or not.                            *)
WireRequest ==
  /\ loop # "open"
  /\ Query
  /\ loop' = IF op' = "query" THEN "open" ELSE "none"
  /\ seen' = 0
  /\ UNCHANGED <<kind, alive, abandoned, posted>>

(* Mutant of WireNext: the last row is taken for the end. *)
WireNextShort ==
  /\ Wire /\ loop = "open" /\ Settled
  /\ IF seen + 1 < Len(rows) THEN seen' = seen + 1 /\ UNCHANGED loop
                             ELSE loop' = "ended" /\ UNCHANGED seen
  /\ UNCHANGED <<conn, kind, alive, abandoned, posted>>

(* vader_pg_next, vader_my_next: the rows are in memory already. *)
WireNext ==
  /\ Wire /\ loop = "open" /\ Settled
  /\ IF seen < Len(rows) THEN seen' = seen + 1 /\ UNCHANGED loop
                         ELSE loop' = "ended" /\ UNCHANGED seen
  /\ UNCHANGED <<conn, kind, alive, abandoned, posted>>

(* The program leaves the loop by break or return. *)
Break ==
  /\ loop = "open" /\ Settled
  /\ loop' = "left"
  /\ abandoned' = abandoned + 1
  /\ UNCHANGED <<conn, kind, seen, alive, posted>>

WireStep == Wire /\ (Opening \/ ClientReads \/ Close \/ ServerStep) /\ UNCHANGED <<program, posted>>

-----------------------------------------------------------------------------
(* std/mongo *)
MongoStep == kind = "mongo" /\ Mg!Next /\ UNCHANGED program

WireDrop == Wire /\ Drop /\ UNCHANGED <<program, posted>>

(* Nothing is left to do with the connection. *)
Finished == Over /\ UNCHANGED vars

Next == Sqlite \/ WireStep \/ WireRequest \/ WireNext \/ Break \/ MongoStep \/ WireDrop \/ Finished

Spec == Init /\ [][Next]_vars

ClientWork ==
  \/ SqliteOpen
  \/ Wire /\ (Opening \/ ClientReads) /\ UNCHANGED <<program, posted>>
  \/ kind = "mongo" /\ (Mg!Opening \/ Mg!ClientReads) /\ UNCHANGED program

ServerWork ==
  \/ Wire /\ ServerStep /\ UNCHANGED <<program, posted>>
  \/ kind = "mongo" /\ Mg!ServerStep /\ UNCHANGED program

(* The client's thread runs, and a server that is up answers. *)
FairSpec == Spec /\ WF_vars(ClientWork) /\ WF_vars(ServerWork)

-----------------------------------------------------------------------------
(* What a driver hands over is, row by row, the answer to this request and *)
(* not to another; and it is the whole answer when no error is reported,   *)
(* but for MySQL when the link is lost (vader_mysql.c:382) and for MongoDB *)
(* beyond the first batch.                                                 *)
CompleteOrError ==
  CASE kind = "postgres" -> Pg!CompleteOrError
    [] kind = "mysql"    -> My!CompleteOrError
    [] kind = "sqlite"   -> rows = SubSeq(produced, 1, Len(rows))
    [] kind = "mongo"    -> Settled /\ op = "find" /\ outcome = "done" /\ up
                              => Len(rows) = Min({FirstBatch, Len(produced)})

(* A loop that came to its end has seen every row the database produced,   *)
(* unless the query failed or the link was lost: the loop itself cannot    *)
(* tell, as vader_db_query has no way to report an error.                  *)
Delivered ==
  loop = "ended" /\ outcome = "done" /\ (kind = "sqlite" \/ up) => seen = Len(produced)

(* The answer to a request that changes data is true.  No error: it took   *)
(* effect, but for an update or a delete that MongoDB rejected             *)
(* (vader_mongo.c:449, 468) and a MySQL statement that failed in the       *)
(* middle of its rows while the link was being lost.  An error on a link   *)
(* that holds: it did not take effect as a whole.                          *)
AnswerTrue ==
  Settled /\ op \in {"exec", "insert", "update", "delete"} =>
    IF errout THEN up => outcome # "done"
              ELSE \/ outcome = "done"
                   \/ kind = "mongo" /\ op # "insert" /\ outcome = "failed"
                   \/ kind = "mysql" /\ ~up /\ outcome = "failed"

(* Nothing stays behind: a connection that is closed has no descriptor, if *)
(* every loop over its rows came to its end, and a SQLite or MongoDB       *)
(* connection that could not be opened has none either.                    *)
Released ==
  /\ cl = "closed" /\ abandoned = 0 => ~sock
  /\ cl = "failed" /\ ~Wire => ~sock

Connected ==
  CASE kind = "postgres" -> Pg!Connected
    [] kind = "mysql"    -> My!Connected
    [] kind = "mongo"    -> Mg!Connected
    [] kind = "sqlite"   -> cl \in {"idle", "failed"}

(* An attempt to connect comes to its end, with a usable handle exactly    *)
(* when the server lets the program in and the link holds.  Postgres with  *)
(* SCRAM-SHA-256 is the exception (PgSession!ScramConnects).               *)
Connects == cl = "connect" /\ ~(kind = "postgres" /\ method = "scram") ~> Connected

Waiting == {"query", "drain", "first", "definitions", "definitionsEof", "rows", "reply"}

(* Every request returns, whatever the server answers and wherever the     *)
(* link is lost; the process dies only by SIGPIPE on a lost link, or by a  *)
(* MySQL statement that fails in the middle of its rows.                   *)
Returns ==
  cl \in Waiting ~> \/ cl = "idle"
                    \/ cl = "killed" /\ ~up
                    \/ cl = "crashed" /\ kind = "mysql" /\ outcome = "failed"
=============================================================================
