---------------------------- MODULE MongoSession ----------------------------
(***************************************************************************)
(* The MongoDB driver of src/runtime/vader_mongo.c, one connection of it:  *)
(* vader_mongo_connect with its SCRAM-SHA-256 conversation, the operations *)
(* on a collection, and vader_mongo_close.  An operation is one OP_MSG and *)
(* one reply.  Documents come from JSON text and go back to it; nothing    *)
(* here depends on how (module Documents).                                 *)
(***************************************************************************)
EXTENDS DbConnection

CONSTANTS
  Texts,        \* the JSON texts of the documents the program inserts
  FirstBatch,   \* how many documents the first batch of a cursor holds
  ToBson(_),    \* vader_json_parse and bson_doc: the document a text becomes
  FromBson(_)   \* bson_decode: the JSON value of a document (see Documents)

VARIABLE posted        \* the texts of which an insert was sent

(* The server asks for nothing; for credentials the program has, after     *)
(* which the conversation is over in two exchanges or in three; for        *)
(* credentials, and the program has none.                                  *)
MongoMethods == {"open", "scram", "scram3", "anonymous"}

vars == <<conn, posted>>

(* --tls makes no difference to this driver. *)
Init ==
  /\ ConnInit
  /\ ~tls
  /\ method \in AuthMethods \cap MongoMethods
  /\ posted = {}

-----------------------------------------------------------------------------
(* vader_mongo_connect *)

Connect ==
  /\ Dial(IF method \in {"scram", "scram3"} THEN "dialed" ELSE "idle", {FALSE})
  /\ UNCHANGED posted

(* mongo_auth gives up: the descriptor is closed, there is no handle. *)
GiveUp == Goto("failed") /\ sock' = FALSE

Converse(m, l) == \/ WriteGoto(m, l) /\ UNCHANGED sock
                  \/ ~up /\ GiveUp

SaslStart ==
  /\ cl = "dialed"
  /\ Converse([type |-> "start"], "start")
  /\ UNCHANGED <<q, op, rows, errout, tls, server, toCli, up, posted>>

(* The replies to saslStart, to saslContinue with the proof, and to the    *)
(* empty saslContinue that ends a conversation which is not done.          *)
SaslRead ==
  /\ cl \in {"start", "proof", "confirm"}
  /\ \/ ReadFails /\ GiveUp
     \/ \E m \in ToSet(toCli) :
          /\ Reads(m)
          /\ CASE ~m.ok -> GiveUp
               [] m.ok /\ cl = "start" -> Converse([type |-> "proof"], "proof")
               [] m.ok /\ cl = "proof" /\ ~m.done -> Converse([type |-> "confirm"], "confirm")
               [] OTHER -> Goto("idle") /\ UNCHANGED sock
  /\ UNCHANGED <<q, op, rows, errout, tls, server, up, posted>>

-----------------------------------------------------------------------------
(* Operations: one write, one reply.  Without a reply insert, update and   *)
(* delete are errors; find and aggregate return the empty array, as they   *)
(* do for any reply without a batch.                                       *)

Request(o, m) ==
  /\ cl = "idle"
  /\ Begin(o)
  /\ rows' = <<>>
  /\ \/ WriteGoto(m, "reply") /\ errout' = FALSE
     \/ ~up /\ Goto("idle") /\ errout' = (o # "find")
  /\ UNCHANGED <<sock, tls, srv, method, valid, produced, toCli, up>>

Insert(t) == /\ Request("insert", [type |-> "insert", doc |-> ToBson(t)])
             /\ posted' = posted \cup {t}
Find      == Request("find", [type |-> "find"]) /\ UNCHANGED posted
Update    == Request("update", [type |-> "update"]) /\ UNCHANGED posted
Delete    == Request("delete", [type |-> "delete"]) /\ UNCHANGED posted

(* With a null handle. *)
RequestInvalid ==
  /\ cl = "failed"
  /\ \E o \in {"insert", "find", "update", "delete"} : Begin(o) /\ errout' = (o # "find")
  /\ rows' = <<>>
  /\ UNCHANGED <<cl, sock, tls, srv, method, valid, produced, link, posted>>

(* Mutant of ReplyRead: a rejected document is not noticed. *)
ReplyReadTrusting ==
  /\ cl = "reply"
  /\ cl' = "idle"
  /\ \/ ReadFails /\ errout' = (op # "find") /\ UNCHANGED rows
     \/ \E m \in ToSet(toCli) :
          /\ Reads(m)
          /\ errout' = (op # "find" /\ ~m.ok)
          /\ rows' = [i \in 1 .. Len(m.batch) |-> FromBson(m.batch[i])]
  /\ UNCHANGED <<q, op, sock, tls, server, toSrv, up, posted>>

(* A document that was rejected (writeErrors) is an error of insert only. *)
ReplyRead ==
  /\ cl = "reply"
  /\ cl' = "idle"
  /\ \/ ReadFails /\ errout' = (op # "find") /\ UNCHANGED rows
     \/ \E m \in ToSet(toCli) :
          /\ Reads(m)
          /\ errout' = \/ op # "find" /\ ~m.ok
                       \/ op = "insert" /\ m.writeErrors
          /\ rows' = [i \in 1 .. Len(m.batch) |-> FromBson(m.batch[i])]
  /\ UNCHANGED <<q, op, sock, tls, server, toSrv, up, posted>>

(* vader_mongo_close frees the handle: nothing may use it afterwards. *)
Close ==
  /\ cl = "idle"
  /\ Goto("closed")
  /\ up' = FALSE
  /\ sock' = FALSE
  /\ UNCHANGED <<q, op, rows, errout, tls, server, toCli, posted>>

-----------------------------------------------------------------------------
(* The server *)

Authenticate ==
  /\ srv = "listen"
  /\ \E type \in {"start", "proof", "confirm"} :
       /\ ServerHears([type |-> type])
       /\ Answer(<<[ok   |-> type = "start" \/ valid,
                    done |-> type = "confirm" \/ (type = "proof" /\ method = "scram")]>>,
                 IF valid /\ (type = "confirm" \/ (type = "proof" /\ method = "scram"))
                   THEN "ready" ELSE "listen")
  /\ UNCHANGED <<method, valid, produced, outcome, up, client, posted>>

(* The server gives every document an _id of its own. *)
WithId(doc) == <<[key |-> <<"_id">>, type |-> 7, val |-> <<"hex">>]>> \o doc

(* A request on a connection that is not let in is refused.  Of the others *)
(* the command or the single write in it may fail.                         *)
Execute ==
  /\ srv = "ready" \/ method \in {"open", "anonymous"}
  /\ \E m \in ToSet(toSrv), ok, writeErrors \in BOOLEAN :
       /\ ServerHears(m)
       /\ m.type \in {"insert", "find", "update", "delete"}
       /\ method = "anonymous" => ~ok
       /\ writeErrors => ok /\ m.type # "find"
       /\ m.type = "insert" /\ ok => writeErrors \/ Len(produced) < MaxRows
       /\ outcome'  = IF ok /\ ~writeErrors THEN "done" ELSE "failed"
       /\ produced' = CASE m.type = "insert" /\ outcome' = "done" -> Append(produced, WithId(m.doc))
                        [] m.type = "delete" /\ outcome' = "done" -> <<>>
                        [] OTHER -> produced
       /\ Answer(<<[ok |-> ok, writeErrors |-> writeErrors,
                    batch |-> IF m.type = "find" /\ ok
                                THEN SubSeq(produced, 1, Min({FirstBatch, Len(produced)})) ELSE <<>>]>>, srv)
  /\ UNCHANGED <<method, valid, up, client, posted>>

-----------------------------------------------------------------------------
Opening     == Connect \/ SaslStart
ClientReads == SaslRead \/ ReplyRead
ServerStep  == Authenticate \/ Execute
Requests    == (\E t \in Texts : Insert(t)) \/ Find \/ Update \/ Delete \/ RequestInvalid
NetworkDrop == Drop /\ UNCHANGED posted

Next == Opening \/ ClientReads \/ Requests \/ Close \/ ServerStep \/ NetworkDrop

Spec == Init /\ [][Next]_vars

FairSpec ==
  /\ Spec
  /\ WF_vars(Opening \/ ClientReads)
  /\ WF_vars(ServerStep)

-----------------------------------------------------------------------------
Connected ==
  \/ cl = "failed" /\ (~valid \/ ~up)
  \/ cl = "killed" /\ ~up
  \/ cl = "idle" /\ (valid \/ method \in {"open", "anonymous"})
=============================================================================
