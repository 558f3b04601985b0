---------------------------- MODULE DbConnection ----------------------------
(***************************************************************************)
(* What the network drivers of src/runtime (vader_pg.c, vader_mysql.c and  *)
(* vader_mongo.c) have in common: a program with one connection to one     *)
(* server, one request at a time.  Each driver extends this module with    *)
(* its protocol; Database puts the drivers together.                       *)
(*                                                                         *)
(* The drivers read one message at a time and block without a timeout.     *)
(* The link is a FIFO in each direction.  It may go down at any moment,    *)
(* losing what the client has not read; a write on a dead link is either   *)
(* swallowed by the kernel or kills the process (SIGPIPE is not handled).  *)
(***************************************************************************)
EXTENDS Integers, Sequences, SequencesExt

CONSTANTS
  AuthMethods,  \* the ways in which a server may let the program in
  NQueries,     \* bound on the requests the program makes
  MaxRows,      \* bound on the rows of a result, the documents of a collection
  MayDrop       \* whether the link can go down

ASSUME ConnectionAssumption ==
  NQueries \in Nat /\ MaxRows \in Nat /\ MayDrop \in BOOLEAN

VARIABLES
  cl,       \* where the client is: "connect", "dialed", then phases of the
            \* driver; "idle" (a usable handle, no request under way),
            \* "failed" (no usable handle came back), "closed", "killed" (by
            \* SIGPIPE), "crashed" (by its own memory error)
  q,        \* the number of the current request
  op,       \* its kind
  rows,     \* its result: rows->cells, or the documents of a batch
  errout,   \* whether the driver reported an error for it
  sock,     \* whether the descriptor of the connection is open
  tls,      \* whether the program was built with --tls
  srv,      \* where the server is: "listen", phases of the protocol,
            \* "ready", "gone"
  method,   \* how this server lets this program in
  valid,    \* whether the password is right
  produced, \* the rows the server sent, the documents its collection holds
  outcome,  \* what the server made of the current request: "none", "done",
            \* "failed", "half" (part of it took effect)
  toSrv, toCli, up

client == <<cl, q, op, rows, errout, sock, tls>>
server == <<srv, method, valid, produced, outcome>>
link   == <<toSrv, toCli, up>>
conn   == <<client, server, link>>

ConnInit ==
  /\ cl = "connect" /\ q = 0 /\ op = "none" /\ rows = <<>> /\ errout = FALSE
  /\ sock = FALSE /\ tls \in BOOLEAN
  /\ srv = "listen" /\ valid \in BOOLEAN /\ produced = <<>> /\ outcome = "none"
  /\ toSrv = <<>> /\ toCli = <<>> /\ up = TRUE

-----------------------------------------------------------------------------
(* The client's side of the link *)

(* A write, followed by the client moving to l. *)
WriteGoto(m, l) ==
  \/ /\ cl' = l
     /\ toSrv' = IF up THEN Append(toSrv, m) ELSE toSrv
  \/ /\ ~up
     /\ cl' = "killed"
     /\ UNCHANGED toSrv

(* A read returns message m. *)
Reads(m) == toCli # <<>> /\ m = Head(toCli) /\ toCli' = Tail(toCli)

(* A read returns -1 or 0. *)
ReadFails == toCli = <<>> /\ ~up /\ UNCHANGED toCli

(* The client moves without writing. *)
Goto(l) == cl' = l /\ UNCHANGED toSrv

(* getaddrinfo, socket and connect.  When the server cannot be reached, the *)
(* descriptor of the socket is among the values of leak.                    *)
Dial(l, leak) ==
  /\ cl = "connect"
  /\ \/ up /\ cl' = l /\ sock' = TRUE
     \/ ~up /\ cl' = "failed" /\ sock' \in leak
  /\ UNCHANGED <<q, op, rows, errout, tls, server, link>>

(* A request of kind o begins: its number, and nothing of the one before. *)
Begin(o) ==
  /\ q < NQueries
  /\ q' = q + 1
  /\ op' = o
  /\ outcome' = "none"

-----------------------------------------------------------------------------
(* The server's side, and the network *)

ServerHears(m) == up /\ toSrv # <<>> /\ m = Head(toSrv) /\ toSrv' = Tail(toSrv)

Answer(ms, s) == toCli' = toCli \o ms /\ srv' = s

(* It answers and hangs up. *)
Refuse(ms) == Answer(ms, "gone") /\ up' = FALSE

Drop ==
  /\ MayDrop
  /\ up
  /\ up' = FALSE
  /\ \E n \in 0 .. Len(toCli) : toCli' = SubSeq(toCli, 1, n)
  /\ srv' = "gone"
  /\ UNCHANGED <<method, valid, produced, outcome, toSrv, client>>

-----------------------------------------------------------------------------
(* The connection is over, and the program done with it. *)
Over == cl \in {"closed", "failed", "killed", "crashed"}

(* The program has the answer to its last request in its hands. *)
Settled == cl \in {"idle", "failed", "closed"} /\ q > 0

(* The conversation stays in step: whenever the driver is between requests *)
(* on a live connection there is no message left over for the next request *)
(* to take for its own, after an error in the middle of a result included. *)
InStep == cl = "idle" /\ up /\ srv = "ready" => toCli = <<>> /\ toSrv = <<>>
=============================================================================
