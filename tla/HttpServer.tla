------------------------------ MODULE HttpServer ------------------------------
(***************************************************************************)
(* The HTTP server of the runtime: vader_http_accept / respond             *)
(* (src/runtime/vader_http.c) driven by vader_router_serve                 *)
(* (src/runtime/vader_router.c), one thread that serves one connection at  *)
(* a time, and the clients at the other end of the sockets.                *)
(*                                                                         *)
(* A client connects once, sends a header (which announces a body or not), *)
(* the body, and may close its end at any moment.  Reads block without a   *)
(* timeout.  SIGPIPE keeps its default action: a write on a connection     *)
(* whose peer is gone may end the process.  accept() may fail at any time, *)
(* and that ends the server.  A write is taken to return: the response     *)
(* fits the buffer of the socket, whether the client reads it or not.      *)
(***************************************************************************)
EXTENDS Integers, Sequences, FiniteSets, SequencesExt

CONSTANTS
  Clients,
  NoClient,     \* cfd = -1, or a request field that is empty
  Routed,       \* clients whose method and path match a route
  WithBody,     \* clients that announce a body
  Oversized,    \* clients whose header does not end within the 64 KiB read
  Replies,      \* how many times a handler may call http.respond
  MaxFds,       \* connections the process may hold open at a time
  PipeKills     \* whether the second write to a closed peer raises SIGPIPE

ASSUME HttpAssumption ==
  /\ NoClient \notin Clients
  /\ Routed \subseteq Clients /\ WithBody \subseteq Clients
  /\ Oversized \subseteq Clients
  /\ Replies \subseteq Nat
  /\ MaxFds \in Nat \ {0}
  /\ PipeKills \in BOOLEAN

VARIABLES
  conn,     \* clients: "away", "queued" (in the backlog) or "open" (accepted)
  sent,     \* clients: "nothing", "header" or "all"
  hungUp,   \* clients that closed their end
  answer,   \* clients: the responses that were written to them, and to what
  backlog,  \* connections waiting for accept, oldest first
  pc,       \* server: "accept", "header", "body", "dispatch", "handler",
            \* "writing", "ended" (serve returned) or "killed"
  cfd,      \* s->cfd: the connection of the current request
  fds,      \* connections the process has not closed
  method, path, body,  \* the request fields: whose request they hold
  replies,  \* http.respond calls the handler has left to make
  silent    \* clients whose handler returned without responding

peers == <<conn, sent, hungUp>>
request == <<method, path, body>>
vars == <<peers, answer, backlog, pc, cfd, fds, request, replies, silent>>

Init ==
  /\ conn    = [c \in Clients |-> "away"]
  /\ sent    = [c \in Clients |-> "nothing"]
  /\ hungUp  = {}
  /\ answer  = [c \in Clients |-> <<>>]
  /\ backlog = <<>>
  /\ pc = "accept" /\ cfd = NoClient /\ fds = {}
  /\ method = NoClient /\ path = NoClient /\ body = NoClient
  /\ replies = 0 /\ silent = {}

-----------------------------------------------------------------------------
(* Clients *)

Dial(c) ==
  /\ conn[c] = "away"
  /\ conn'    = [conn EXCEPT ![c] = "queued"]
  /\ backlog' = Append(backlog, c)
  /\ UNCHANGED <<sent, hungUp, answer, pc, cfd, fds, request, replies, silent>>

SendMore(c) ==
  /\ conn[c] # "away" /\ c \notin hungUp /\ sent[c] # "all"
  /\ sent' = [sent EXCEPT ![c] = IF @ = "nothing" /\ c \in WithBody
                                 THEN "header" ELSE "all"]
  /\ UNCHANGED <<conn, hungUp, answer, backlog, pc, cfd, fds, request, replies, silent>>

HangUp(c) ==
  /\ conn[c] # "away" /\ c \notin hungUp
  /\ hungUp' = hungUp \cup {c}
  /\ UNCHANGED <<conn, sent, answer, backlog, pc, cfd, fds, request, replies, silent>>

-----------------------------------------------------------------------------
(* vader_http_accept *)

(* Mutant of Accept: the connection is not taken off the backlog. *)
AcceptPeeks ==
  /\ pc = "accept"
  /\ backlog # <<>>
  /\ Cardinality(fds) < MaxFds
  /\ conn' = [conn EXCEPT ![Head(backlog)] = "open"]
  /\ cfd'  = Head(backlog)
  /\ fds'  = fds \cup {cfd'}
  /\ method' = NoClient
  /\ pc' = "header"
  /\ UNCHANGED <<sent, hungUp, answer, backlog, path, body, replies, silent>>

Accept ==
  /\ pc = "accept"
  /\ backlog # <<>>
  /\ Cardinality(fds) < MaxFds
  /\ LET c == Head(backlog) IN
     /\ conn' = [conn EXCEPT ![c] = "open"]
     /\ cfd'  = c
     /\ fds'  = fds \cup {c}
  /\ backlog' = Tail(backlog)
  /\ method'  = NoClient
  /\ pc' = "header"
  /\ UNCHANGED <<sent, hungUp, answer, path, body, replies, silent>>

(* accept() fails: vader_http_accept returns 0, and vader_router_serve     *)
(* ends.  It must when no descriptor is left; it may at any other time (an *)
(* aborted connection, a signal, descriptors that handlers opened).        *)
AcceptFails ==
  /\ pc = "accept"
  /\ pc' = "ended"
  /\ UNCHANGED <<peers, answer, backlog, cfd, fds, request, replies, silent>>

(* The blank line is among the bytes that are read, ...                    *)
Complete == sent[cfd] # "nothing" /\ cfd \notin Oversized

(* ... or the bytes ended, or filled the buffer, without one.              *)
Incomplete == IF sent[cfd] = "nothing" THEN cfd \in hungUp ELSE cfd \in Oversized

(* Mutants of ReadHeader: the end of the connection is not noticed; and the *)
(* path of the request before stays when it is.                             *)
ReadHeaderBlind ==
  /\ pc = "header"
  /\ Complete
  /\ method' = cfd /\ path' = cfd
  /\ pc' = "body"
  /\ UNCHANGED <<peers, answer, backlog, cfd, fds, body, replies, silent>>

ReadHeaderStale ==
  /\ pc = "header"
  /\ \/ /\ Complete
        /\ method' = cfd /\ path' = cfd /\ pc' = "body"
     \/ /\ Incomplete
        /\ pc' = "dispatch"
        /\ UNCHANGED <<method, path>>
  /\ UNCHANGED <<peers, answer, backlog, cfd, fds, body, replies, silent>>

(* The read loop, up to the blank line, the end of the connection or that  *)
(* of the buffer.                                                          *)
ReadHeader ==
  /\ pc = "header"
  /\ \/ /\ Complete
        /\ method' = cfd
        /\ path'   = cfd
        /\ pc'     = "body"
        /\ UNCHANGED body
     \/ /\ Incomplete
        /\ path'   = NoClient
        /\ body'   = NoClient
        /\ pc'     = "dispatch"
        /\ UNCHANGED method
  /\ UNCHANGED <<peers, answer, backlog, cfd, fds, replies, silent>>

(* Mutant of ReadBody: without a body the field is not written. *)
ReadBodyStale ==
  /\ pc = "body"
  /\ cfd \in WithBody => sent[cfd] = "all" \/ cfd \in hungUp
  /\ body' = IF cfd \in WithBody THEN cfd ELSE body
  /\ pc'   = "dispatch"
  /\ UNCHANGED <<peers, answer, backlog, cfd, fds, method, path, replies, silent>>

(* The body: everything announced, or what came before the end. *)
ReadBody ==
  /\ pc = "body"
  /\ cfd \in WithBody => sent[cfd] = "all" \/ cfd \in hungUp
  /\ body' = cfd
  /\ pc'   = "dispatch"
  /\ UNCHANGED <<peers, answer, backlog, cfd, fds, method, path, replies, silent>>

-----------------------------------------------------------------------------
(* vader_router_serve: the first route with this method and path, or 404. *)
Matches == method \in Routed /\ path \in Routed

Dispatch ==
  /\ pc = "dispatch"
  /\ IF Matches
     THEN pc' = "handler" /\ replies' \in Replies
     ELSE pc' = "writing" /\ replies' = 0
  /\ UNCHANGED <<peers, answer, backlog, cfd, fds, request, silent>>

(* The handler calls http.respond, or returns to the loop. *)
Handler ==
  /\ pc = "handler"
  /\ IF replies > 0
     THEN pc' = "writing" /\ replies' = replies - 1
     ELSE pc' = "accept" /\ UNCHANGED replies
  /\ silent' = IF replies = 0 /\ cfd # NoClient THEN silent \cup {cfd} ELSE silent
  /\ UNCHANGED <<peers, answer, backlog, cfd, fds, request>>

Back == IF Matches THEN "handler" ELSE "accept"

(* Mutant of Respond: cfd is forgotten without being closed. *)
RespondUnclosed ==
  /\ pc = "writing"
  /\ answer' = IF cfd = NoClient THEN answer ELSE [answer EXCEPT ![cfd] = Append(@, path)]
  /\ cfd' = NoClient
  /\ pc'  = Back
  /\ UNCHANGED <<peers, backlog, fds, request, replies, silent>>

(* vader_http_respond: head and body are two writes; then close. *)
Respond ==
  /\ pc = "writing"
  /\ IF cfd = NoClient
     THEN pc' = Back /\ UNCHANGED <<answer, cfd, fds>>
     ELSE \/ /\ answer' = [answer EXCEPT ![cfd] = Append(@, path)]
             /\ fds' = fds \ {cfd}
             /\ cfd' = NoClient
             /\ pc'  = Back
          \/ /\ PipeKills
             /\ cfd \in hungUp
             /\ pc' = "killed"
             /\ UNCHANGED <<answer, cfd, fds>>
  /\ UNCHANGED <<peers, backlog, request, replies, silent>>

-----------------------------------------------------------------------------
Server ==
  Accept \/ ReadHeader \/ ReadBody \/ Dispatch \/ Handler \/ Respond

Next ==
  \/ Server
  \/ AcceptFails
  \/ \E c \in Clients : Dial(c) \/ SendMore(c) \/ HangUp(c)

Spec == Init /\ [][Next]_vars

(* The server's thread runs, and accept() fails when no descriptor is left *)
(* (it need not otherwise).  Nothing obliges a client to speak or to hang  *)
(* up: a silent one may hold the only thread for ever.                     *)
NoDescriptor == Cardinality(fds) >= MaxFds

FairSpec == Spec /\ WF_vars(Server) /\ WF_vars(NoDescriptor /\ AcceptFails)

(* Clients that eventually send what they announced, or hang up. *)
PoliteSpec == FairSpec /\ \A c \in Clients : WF_vars(SendMore(c))

-----------------------------------------------------------------------------
TypeOK ==
  /\ conn \in [Clients -> {"away", "queued", "open"}]
  /\ sent \in [Clients -> {"nothing", "header", "all"}]
  /\ pc \in {"accept", "header", "body", "dispatch", "handler", "writing",
             "ended", "killed"}
  /\ cfd \in Clients \cup {NoClient}
  /\ fds \subseteq {c \in Clients : conn[c] = "open"}
  /\ \A c \in Clients : c \in ToSet(backlog) <=> conn[c] = "queued"
  /\ {method, path, body} \subseteq Clients \cup {NoClient}

(* A client gets at most one response, however often the handler responds, *)
(* and it answers that client's own request: nothing of the request before *)
(* shows through, not even when a client hangs up before its header ends   *)
(* or its header never ends.                                               *)
AnswersOwnRequest ==
  \A c \in Clients :
    answer[c] \in
      {<<>>, <<IF sent[c] = "nothing" \/ c \in Oversized THEN NoClient ELSE c>>}

(* When the handler runs, the three request fields are those of the        *)
(* connection it is going to answer.                                       *)
FieldsAgree ==
  pc = "handler" /\ cfd # NoClient => method = cfd /\ path = cfd /\ body = cfd

(* A connection is closed by its answer and by nothing else; the server    *)
(* keeps open none but the one it is serving and those whose handler       *)
(* returned without responding (the next accept overwrites cfd, and        *)
(* nothing can close them any more): these alone between two requests, and *)
(* when serving ends, whatever made accept fail.                           *)
NoConnectionLeak ==
  /\ fds \subseteq {cfd} \cup silent
  /\ pc \in {"accept", "ended"} => fds \subseteq silent
  /\ \A c \in Clients : conn[c] = "open" => c \in fds \/ answer[c] # <<>>

(* Every client that waits in the backlog is answered in the end, whatever *)
(* the clients before it do, unless it hangs up, its own handler does not  *)
(* respond, or the server is gone (accept failed, or a write killed it).   *)
EveryoneServed ==
  \A c \in Clients :
    conn[c] = "queued" ~>
      answer[c] # <<>> \/ c \in hungUp \cup silent \/ pc \in {"ended", "killed"}
=============================================================================
