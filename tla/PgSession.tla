------------------------------ MODULE PgSession ------------------------------
(***************************************************************************)
(* The Postgres driver of src/runtime/vader_pg.c, one connection of it:    *)
(* vader_pg_connect with its TLS negotiation and authentication loop, the  *)
(* queries (pg_run) and vader_pg_close, against a server that speaks the   *)
(* backend side of the v3 protocol.                                        *)
(***************************************************************************)
EXTENDS DbConnection

PgMethods == {"trust", "clear", "md5", "scram", "gss"}

R(code) == [type |-> "R", code |-> code]
M(type) == [type |-> type]
D(i, n) == [type |-> "D", row |-> <<i, n>>]

vars == conn

Init == ConnInit /\ method \in AuthMethods \cap PgMethods

-----------------------------------------------------------------------------
(* vader_pg_connect.  An attempt that fails sets fd to -1 and leaves the   *)
(* descriptor open.                                                        *)

Connect == Dial("dialed", BOOLEAN)

(* SSLRequest, in a build with --tls; a write that fails is skipped. *)
RequestTls ==
  /\ cl = "dialed" /\ tls
  /\ \/ WriteGoto(M("ssl"), "tls")
     \/ ~up /\ Goto("plain")
  /\ UNCHANGED <<q, op, rows, errout, sock, tls, server, toCli, up>>

(* The one-byte answer.  SSL_connect needs a link; whatever is not "S", or *)
(* no answer at all, means plain text.                                     *)
TlsAnswer ==
  /\ cl = "tls"
  /\ \/ ReadFails /\ Goto("plain")
     \/ \E m \in ToSet(toCli) :
          /\ Reads(m)
          /\ Goto(IF m.type = "S" /\ ~up THEN "failed" ELSE "plain")
  /\ UNCHANGED <<q, op, rows, errout, sock, tls, server, up>>

(* The startup packet is the one write whose result is looked at. *)
SendStartup ==
  /\ cl = "plain" \/ (cl = "dialed" /\ ~tls)
  /\ \/ WriteGoto(M("startup"), "auth")
     \/ ~up /\ Goto("failed")
  /\ UNCHANGED <<q, op, rows, errout, sock, tls, server, toCli, up>>

(* The authentication loop.  Anything that is not 'R' or 'E' is skipped. *)
AuthRead ==
  /\ cl = "auth"
  /\ \/ ReadFails /\ Goto("failed")
     \/ \E m \in ToSet(toCli) :
          /\ Reads(m)
          /\ CASE m.type = "E"             -> Goto("failed")
               [] m.type \notin {"R", "E"} -> Goto("auth")
               [] m.type = "R" /\ m.code = 0        -> Goto("settle")
               [] m.type = "R" /\ m.code \in {3, 5} -> WriteGoto(M("p"), "auth")
               [] m.type = "R" /\ m.code = 10       -> WriteGoto(M("p"), "sasl1")
               [] OTHER                             -> Goto("failed")
  /\ UNCHANGED <<q, op, rows, errout, sock, tls, server, up>>

(* scram_auth: each of its three reads gives up on anything unexpected; on *)
(* success it returns to the top of the authentication loop.               *)
SaslRead ==
  /\ cl \in {"sasl1", "sasl2", "sasl3"}
  /\ \/ ReadFails /\ Goto("failed")
     \/ \E m \in ToSet(toCli) :
          /\ Reads(m)
          /\ CASE cl = "sasl1" /\ m = R(11) -> WriteGoto(M("p"), "sasl2")
               [] cl = "sasl2" /\ m = R(12) -> Goto("sasl3")
               [] cl = "sasl2" /\ m = R(0)  -> Goto("auth")
               [] cl = "sasl3" /\ m = R(0)  -> Goto("auth")
               [] OTHER                     -> Goto("failed")
  /\ UNCHANGED <<q, op, rows, errout, sock, tls, server, up>>

(* pg_consume_until_ready *)
SettleRead ==
  /\ cl = "settle"
  /\ \/ ReadFails /\ Goto("failed")
     \/ \E m \in ToSet(toCli) :
          /\ Reads(m)
          /\ Goto(CASE m.type = "E" -> "failed"
                    [] m.type = "Z" -> "idle"
                    [] OTHER        -> cl)
  /\ UNCHANGED <<q, op, rows, errout, sock, tls, server, up>>

-----------------------------------------------------------------------------
(* pg_run, behind vader_pg_exec and vader_pg_query: the same but for what   *)
(* is done with the error, which vader_pg_query drops.                      *)

Query ==
  /\ cl = "idle"
  /\ \E o \in {"exec", "query"} : Begin(o)
  /\ rows'   = <<>>
  /\ errout' = FALSE
  /\ WriteGoto([type |-> "Q", id |-> q'], "query")
  /\ UNCHANGED <<sock, tls, srv, method, valid, produced, toCli, up>>

(* With fd = -1 (failed or closed) a query is an error and nothing is sent.*)
QueryInvalid ==
  /\ cl \in {"failed", "closed"}
  /\ \E o \in {"exec", "query"} : Begin(o)
  /\ rows'   = <<>>
  /\ errout' = TRUE
  /\ UNCHANGED <<cl, sock, tls, srv, method, valid, produced, link>>

(* Mutant of QueryRead: a broken connection ends the result like any other. *)
QueryReadTrusting ==
  /\ cl = "query"
  /\ \/ ReadFails /\ cl' = "idle" /\ UNCHANGED <<rows, errout>>
     \/ \E m \in ToSet(toCli) :
          /\ Reads(m)
          /\ rows'   = IF m.type = "D" THEN Append(rows, m.row) ELSE rows
          /\ errout' = (errout \/ m.type = "E")
          /\ cl'     = CASE m.type = "E" -> "drain"
                         [] m.type = "Z" -> "idle"
                         [] OTHER        -> cl
  /\ UNCHANGED <<q, op, sock, tls, server, toSrv, up>>

QueryRead ==
  /\ cl = "query"
  /\ \/ /\ ReadFails
        /\ cl' = "idle"
        /\ errout' = TRUE
        /\ UNCHANGED rows
     \/ \E m \in ToSet(toCli) :
          /\ Reads(m)
          /\ rows'   = IF m.type = "D" THEN Append(rows, m.row) ELSE rows
          /\ errout' = (errout \/ m.type = "E")
          /\ cl'     = CASE m.type = "E" -> "drain"
                         [] m.type = "Z" -> "idle"
                         [] OTHER        -> cl
  /\ UNCHANGED <<q, op, sock, tls, server, toSrv, up>>

(* Mutants of DrainRead: one message only; and reading on after a failure. *)
DrainReadOne ==
  /\ cl = "drain"
  /\ ReadFails \/ \E m \in ToSet(toCli) : Reads(m)
  /\ Goto("idle")
  /\ UNCHANGED <<q, op, rows, errout, sock, tls, server, up>>

DrainReadOn ==
  /\ cl = "drain"
  /\ \/ ReadFails /\ Goto(cl)
     \/ \E m \in ToSet(toCli) :
          /\ Reads(m)
          /\ Goto(IF m.type = "Z" THEN "idle" ELSE cl)
  /\ UNCHANGED <<q, op, rows, errout, sock, tls, server, up>>

(* After an error: up to ReadyForQuery, or to the end of the connection. *)
DrainRead ==
  /\ cl = "drain"
  /\ \/ ReadFails /\ Goto("idle")
     \/ \E m \in ToSet(toCli) :
          /\ Reads(m)
          /\ Goto(IF m.type = "Z" THEN "idle" ELSE cl)
  /\ UNCHANGED <<q, op, rows, errout, sock, tls, server, up>>

(* vader_pg_close; nothing happens on a handle without a connection. *)
Close ==
  /\ cl = "idle"
  /\ WriteGoto(M("X"), "closed")
  /\ up'   = (up /\ cl' # "closed")
  /\ sock' = (sock /\ cl' # "closed")
  /\ UNCHANGED <<q, op, rows, errout, tls, server, toCli>>

-----------------------------------------------------------------------------
(* The server *)

(* Authentication done: AuthenticationOk, parameters, key, ready. *)
Welcome == <<R(0), M("S"), M("K"), M("Z")>>

AnswerTls ==
  /\ srv = "listen"
  /\ ServerHears(M("ssl"))
  /\ \E type \in {"S", "N"} : Answer(<<M(type)>>, srv)
  /\ UNCHANGED <<method, valid, produced, outcome, up, client>>

Startup ==
  /\ srv = "listen"
  /\ ServerHears(M("startup"))
  /\ CASE method = "trust" -> Answer(Welcome, "ready")
       [] method = "clear" -> Answer(<<R(3)>>, "password")
       [] method = "md5"   -> Answer(<<R(5)>>, "password")
       [] method = "scram" -> Answer(<<R(10)>>, "sasl")
       [] method = "gss"   -> Answer(<<R(7)>>, "password")
  /\ UNCHANGED <<method, valid, produced, outcome, up, client>>

CheckPassword ==
  /\ srv \in {"password", "sasl", "proof"}
  /\ ServerHears(M("p"))
  /\ CASE srv = "sasl"                -> Answer(<<R(11)>>, "proof") /\ UNCHANGED up
       [] srv # "sasl" /\ ~valid      -> Refuse(<<M("E")>>)
       [] srv = "password" /\ valid   -> Answer(Welcome, "ready") /\ UNCHANGED up
       [] srv = "proof" /\ valid      -> Answer(<<R(12)>> \o Welcome, "ready") /\ UNCHANGED up
  /\ UNCHANGED <<method, valid, produced, outcome, client>>

(* The answer to a text of one or two statements: n rows, completion after *)
(* the first k when there are two, then completion or an error, possibly a *)
(* notice, and the server is ready again.  The text is one transaction.    *)
Execute ==
  /\ srv = "ready"
  /\ \E m \in ToSet(toSrv) :
       /\ ServerHears(m)
       /\ m.type = "Q"
       /\ \E n \in 0 .. MaxRows, end \in {<<M("C")>>, <<M("E")>>, <<M("E"), M("N")>>} :
            LET data == [k \in 1 .. n |-> D(m.id, k)] IN
            /\ produced' = [k \in 1 .. n |-> <<m.id, k>>]
            /\ outcome'  = IF end = <<M("C")>> THEN "done" ELSE "failed"
            /\ \/ Answer(<<M("T")>> \o data \o end \o <<M("Z")>>, srv)
               \/ \E k \in 0 .. n :
                    Answer(<<M("T")>> \o SubSeq(data, 1, k) \o <<M("C"), M("T")>>
                             \o SubSeq(data, k + 1, n) \o end \o <<M("Z")>>, srv)
  /\ UNCHANGED <<method, valid, up, client>>

-----------------------------------------------------------------------------
Opening     == Connect \/ RequestTls \/ TlsAnswer \/ SendStartup
ClientReads == AuthRead \/ SaslRead \/ SettleRead \/ QueryRead \/ DrainRead
ServerStep  == AnswerTls \/ Startup \/ CheckPassword \/ Execute

Next == Opening \/ ClientReads \/ Query \/ QueryInvalid \/ Close \/ ServerStep \/ Drop

Spec == Init /\ [][Next]_vars

(* The client's thread runs, and a server that is up answers. *)
FairSpec ==
  /\ Spec
  /\ WF_vars(Opening \/ ClientReads)
  /\ WF_vars(ServerStep)

-----------------------------------------------------------------------------
(* A result without an error is the whole result, and of this query: a     *)
(* dropped connection or a server error is never taken for the last row.   *)
CompleteOrError ==
  /\ Settled /\ ~errout => rows = produced
  /\ \A i \in 1 .. Len(rows) : rows[i] = <<q, i>>

(* vader_pg_connect returns: with a usable connection when the password is *)
(* right, with an invalid one (or none) otherwise; it never waits for      *)
(* ever for a server that has answered.                                    *)
Connected ==
  \/ cl = "failed" /\ (~valid \/ method = "gss" \/ ~up)
  \/ cl = "killed" /\ ~up
  \/ cl = "idle" /\ (valid \/ method = "trust")

(* The same of SCRAM-SHA-256, which the documentation lists with the other *)
(* ways to authenticate.                                                   *)
ScramConnects == cl = "connect" /\ method = "scram" ~> Connected

=============================================================================
