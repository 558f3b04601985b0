------------------------------ MODULE MySession ------------------------------
(***************************************************************************)
(* The MySQL driver of src/runtime/vader_mysql.c, one connection of it:    *)
(* vader_my_connect with its authentication loop, the queries (my_run) and *)
(* vader_my_close.  Every packet carries a sequence number within its      *)
(* exchange, and the server refuses one that is out of order.              *)
(***************************************************************************)
EXTENDS DbConnection

(* The server takes the scrambled password of its default plug-in, asks    *)
(* for that of another one, finds the password in its cache, asks for the  *)
(* password itself under its public key, or has no connection left.        *)
MyMethods == {"native", "switch", "cached", "full", "busy"}

P(tag, seq) == [tag |-> tag, seq |-> seq]
Row(i, n)   == [tag |-> "row", row |-> <<i, n>>]

vars == conn

Init == ConnInit /\ method \in AuthMethods \cap MyMethods

-----------------------------------------------------------------------------
(* vader_my_connect.  An attempt that fails sets fd to -1 and leaves the   *)
(* descriptor open.                                                        *)

Connect == Dial("dialed", BOOLEAN)

(* The greeting, of which the tag is not looked at: a server that refuses  *)
(* the connection outright is answered like any other.                     *)
GreetingRead ==
  /\ cl = "dialed"
  /\ \/ ReadFails /\ Goto("failed")
     \/ \E m \in ToSet(toCli) : Reads(m) /\ WriteGoto(P("response", 1), "auth")
  /\ UNCHANGED <<q, op, rows, errout, sock, tls, server, up>>

(* Mutant of React: the scramble is numbered like the first response. *)
ReactUnnumbered(m) ==
  CASE m.tag = "ok"     -> Goto("idle")
    [] m.tag = "switch" -> WriteGoto(P("scramble", 1), "auth")
    [] m.tag = "fast"   -> Goto("auth")
    [] m.tag = "full" /\ tls -> WriteGoto(P("keyrequest", m.seq + 1), "key")
    [] OTHER            -> Goto("failed")

(* The handling of one packet of the authentication loop; the answer is    *)
(* numbered after the packet (rseq).                                       *)
React(m) ==
  CASE m.tag = "ok"     -> Goto("idle")
    [] m.tag = "switch" -> WriteGoto(P("scramble", m.seq + 1), "auth")
    [] m.tag = "fast"   -> Goto("auth")
    [] m.tag = "full" /\ tls -> WriteGoto(P("keyrequest", m.seq + 1), "key")
    [] OTHER            -> Goto("failed")

AuthRead ==
  /\ cl = "auth"
  /\ \/ ReadFails /\ Goto("failed")
     \/ \E m \in ToSet(toCli) : Reads(m) /\ React(m)
  /\ UNCHANGED <<q, op, rows, errout, sock, tls, server, up>>

(* Full authentication, in a build with --tls: whatever comes is taken for  *)
(* the key of the server, and the encryption fails if it is none.           *)
KeyRead ==
  /\ cl = "key"
  /\ \/ ReadFails /\ Goto("failed")
     \/ \E m \in ToSet(toCli) :
          /\ Reads(m)
          /\ IF m.tag = "pem" THEN WriteGoto(P("secret", m.seq + 1), "auth")
                              ELSE Goto("failed")
  /\ UNCHANGED <<q, op, rows, errout, sock, tls, server, up>>

-----------------------------------------------------------------------------
(* my_run, behind vader_my_exec and vader_my_query *)

Query ==
  /\ cl = "idle"
  /\ \E o \in {"exec", "query"} : Begin(o)
  /\ rows'   = <<>>
  /\ errout' = FALSE
  /\ WriteGoto([tag |-> "Q", id |-> q', seq |-> 0], "first")
  /\ UNCHANGED <<sock, tls, srv, method, valid, produced, toCli, up>>

QueryInvalid ==
  /\ cl \in {"failed", "closed"}
  /\ \E o \in {"exec", "query"} : Begin(o)
  /\ rows'   = <<>>
  /\ errout' = TRUE
  /\ UNCHANGED <<cl, sock, tls, srv, method, valid, produced, link>>

(* The first packet of the answer: an error, OK, or a number of columns. *)
FirstRead ==
  /\ cl = "first"
  /\ \/ /\ ReadFails
        /\ cl' = "idle"
        /\ errout' = TRUE
     \/ \E m \in ToSet(toCli) :
          /\ Reads(m)
          /\ errout' = (m.tag = "err")
          /\ cl' = IF m.tag = "columns" THEN "definitions" ELSE "idle"
  /\ UNCHANGED <<q, op, rows, sock, tls, server, toSrv, up>>

(* The definition of the column and the EOF after it are read and dropped, *)
(* without a look at what they are or whether there was one.               *)
SkipRead ==
  /\ cl \in {"definitions", "definitionsEof"}
  /\ ReadFails \/ \E m \in ToSet(toCli) : Reads(m)
  /\ Goto(IF cl = "definitions" THEN "definitionsEof" ELSE "rows")
  /\ UNCHANGED <<q, op, rows, errout, sock, tls, server, up>>

(* The rows, up to EOF or to the end of the connection, which is no error  *)
(* here.  An error packet is taken for a row whose first length is its     *)
(* code and state: the copy of that many bytes ends the process.           *)
RowRead ==
  /\ cl = "rows"
  /\ \/ ReadFails /\ cl' = "idle" /\ UNCHANGED rows
     \/ \E m \in ToSet(toCli) :
          /\ Reads(m)
          /\ rows' = IF m.tag = "row" THEN Append(rows, m.row) ELSE rows
          /\ cl'   = CASE m.tag = "eof" -> "idle"
                       [] m.tag = "err" -> "crashed"
                       [] OTHER         -> cl
  /\ UNCHANGED <<q, op, errout, sock, tls, server, toSrv, up>>

(* vader_my_close *)
Close ==
  /\ cl = "idle"
  /\ WriteGoto([tag |-> "quit", seq |-> 0], "closed")
  /\ up'   = (up /\ cl' # "closed")
  /\ sock' = (sock /\ cl' # "closed")
  /\ UNCHANGED <<q, op, rows, errout, tls, server, toCli>>

-----------------------------------------------------------------------------
(* The server *)

Greet ==
  /\ srv = "listen" /\ sock /\ up
  /\ IF method = "busy" THEN Refuse(<<P("err", 0)>>)
                        ELSE Answer(<<P("greeting", 0)>>, "response") /\ UNCHANGED up
  /\ UNCHANGED <<method, valid, produced, outcome, toSrv, client>>

(* The packet the server waits for, and its number. *)
Expected ==
  CASE srv = "response" -> P("response", 1)
    [] srv = "switched" -> P("scramble", 3)
    [] srv = "key"      -> P("keyrequest", 3)
    [] srv = "secret"   -> P("secret", 5)

Admit(seq) == IF valid THEN Answer(<<P("ok", seq)>>, "ready") /\ UNCHANGED up
                       ELSE Refuse(<<P("err", seq)>>)

Authenticate ==
  /\ srv \in {"response", "switched", "key", "secret"}
  /\ \E m \in ToSet(toSrv) :
       /\ ServerHears(m)
       /\ CASE m # Expected -> Answer(<<P("err", m.seq + 1)>>, "gone") /\ UNCHANGED up
            [] m = Expected /\ srv = "response" ->
                 CASE method = "native" -> Admit(2)
                   [] method = "switch" -> Answer(<<P("switch", 2)>>, "switched") /\ UNCHANGED up
                   [] method = "cached" /\ valid ->
                        Answer(<<P("fast", 2), P("ok", 3)>>, "ready") /\ UNCHANGED up
                   [] OTHER -> Answer(<<P("full", 2)>>, "key") /\ UNCHANGED up
            [] m = Expected /\ srv = "key" -> Answer(<<P("pem", 4)>>, "secret") /\ UNCHANGED up
            [] m = Expected /\ srv \in {"switched", "secret"} -> Admit(m.seq + 1)
  /\ UNCHANGED <<method, valid, produced, outcome, client>>

(* The answer to a statement: an error, OK, or the columns, the rows and   *)
(* EOF; a statement may also fail after some of its rows were sent.        *)
Execute ==
  /\ srv = "ready"
  /\ \E m \in ToSet(toSrv) :
       /\ ServerHears(m)
       /\ m.tag = "Q"
       /\ \/ /\ \E tag \in {"ok", "err"} :
                  /\ outcome' = IF tag = "ok" THEN "done" ELSE "failed"
                  /\ Answer(<<P(tag, 1)>>, srv)
             /\ produced' = <<>>
          \/ \E n \in 0 .. MaxRows, end \in {"eof", "err"} :
               /\ outcome'  = IF end = "eof" THEN "done" ELSE "failed"
               /\ produced' = [k \in 1 .. n |-> <<m.id, k>>]
               /\ Answer(<<P("columns", 1), P("definition", 2), P("eof", 3)>>
                           \o [k \in 1 .. n |-> Row(m.id, k)] \o <<P(end, 4 + n)>>, srv)
  /\ UNCHANGED <<method, valid, up, client>>

-----------------------------------------------------------------------------
Opening     == Connect \/ GreetingRead
ClientReads == AuthRead \/ KeyRead \/ FirstRead \/ SkipRead \/ RowRead
ServerStep  == Greet \/ Authenticate \/ Execute

Next == Opening \/ ClientReads \/ Query \/ QueryInvalid \/ Close \/ ServerStep \/ Drop

Spec == Init /\ [][Next]_vars

FairSpec ==
  /\ Spec
  /\ WF_vars(Opening \/ ClientReads)
  /\ WF_vars(ServerStep)

-----------------------------------------------------------------------------
(* The rows are those of this query, in order; they are all of them unless *)
(* an error is reported or the link was lost, which is no error once the   *)
(* first packet of the answer has come.                                    *)
CompleteOrError ==
  /\ Settled /\ ~errout => rows = produced \/ ~up
  /\ \A i \in 1 .. Len(rows) : rows[i] = <<q, i>>

(* vader_my_connect returns: with a usable connection when the password is *)
(* right and the way in is one the build knows, with none otherwise.       *)
Connected ==
  \/ cl = "failed" /\ (~valid \/ ~up \/ (method = "full" /\ ~tls))
  \/ cl = "killed" /\ ~up
  \/ cl = "idle" /\ valid /\ method # "busy"
=============================================================================
