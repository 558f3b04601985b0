--------------------------- MODULE HttpServerProofs ---------------------------
(***************************************************************************)
(* Proofs about HttpServer, for any set of clients, any number of          *)
(* descriptors, any routes and however often the handlers respond.         *)
(***************************************************************************)
EXTENDS HttpServer, TLAPS

USE HttpAssumption

-----------------------------------------------------------------------------
(* The inductive invariant.  What TypeOK leaves open, ...                  *)
Types ==
  /\ TypeOK
  /\ hungUp \subseteq Clients
  /\ answer \in [Clients -> Seq(Clients \cup {NoClient})]
  /\ backlog \in Seq(Clients)
  /\ \A i, j \in 1 .. Len(backlog) : backlog[i] = backlog[j] => i = j
  /\ replies \in Nat
  /\ silent \subseteq Clients

(* ... which connections are not closed at which point of the server, ...  *)
Open ==
  /\ NoConnectionLeak
  /\ pc \in {"header", "body", "dispatch"} => cfd # NoClient
  /\ pc \in {"header", "body", "dispatch", "handler", "writing"} /\ cfd # NoClient
       => cfd \in fds

(* ... whose request the fields hold: that of the connection, or, when its *)
(* header is not read to its end, none; ...                                *)
Parsed(c)   == sent[c] # "nothing" /\ c \notin Oversized
Unparsed(c) == IF sent[c] = "nothing" THEN c \in hungUp ELSE c \in Oversized

Its    == method = cfd /\ path = cfd /\ Parsed(cfd)
NoneOf == method = NoClient /\ path = NoClient /\ Unparsed(cfd)

Fields ==
  /\ pc = "header" => method = NoClient
  /\ pc = "body" => Its
  /\ pc \in {"dispatch", "handler", "writing"} /\ cfd # NoClient
       => (Its /\ body = cfd) \/ NoneOf
  /\ pc = "handler" => Matches

(* ... and who has been answered: no connection that is waiting or open.   *)
Answered ==
  \A c \in Clients :
    \/ answer[c] = <<>>
    \/ /\ conn[c] = "open" /\ c \notin fds
       /\ \/ answer[c] = <<c>> /\ Parsed(c)
          \/ answer[c] = <<NoClient>> /\ Unparsed(c)

Inv == Types /\ Open /\ Fields /\ Answered

-----------------------------------------------------------------------------
(* The backlog as a queue without duplicates: both ends.                   *)
LEMMA Enqueue ==
  ASSUME NEW q \in Seq(Clients), NEW c \in Clients, c \notin ToSet(q),
         \A i, j \in 1 .. Len(q) : q[i] = q[j] => i = j
  PROVE  /\ Append(q, c) \in Seq(Clients)
         /\ ToSet(Append(q, c)) = ToSet(q) \cup {c}
         /\ \A i, j \in 1 .. Len(Append(q, c)) :
              Append(q, c)[i] = Append(q, c)[j] => i = j
BY DEF ToSet

LEMMA Dequeue ==
  ASSUME NEW q \in Seq(Clients), q # <<>>,
         \A i, j \in 1 .. Len(q) : q[i] = q[j] => i = j
  PROVE  /\ Head(q) \in Clients /\ Head(q) \in ToSet(q)
         /\ Tail(q) \in Seq(Clients)
         /\ ToSet(Tail(q)) = ToSet(q) \ {Head(q)}
         /\ \A i, j \in 1 .. Len(Tail(q)) : Tail(q)[i] = Tail(q)[j] => i = j
<1>1. /\ Len(Tail(q)) = Len(q) - 1
      /\ \A i \in 1 .. Len(q) - 1 : Tail(q)[i] = q[i + 1]
      /\ Head(q) = q[1] /\ Len(q) \in Nat /\ Len(q) >= 1
  OBVIOUS
<1>2. \A i, j \in 1 .. Len(Tail(q)) : Tail(q)[i] = Tail(q)[j] => i = j
  BY <1>1
<1>3. ToSet(Tail(q)) \subseteq ToSet(q) \ {Head(q)}
  BY <1>1 DEF ToSet
<1>4. ASSUME NEW x \in ToSet(q), x # Head(q)
      PROVE  x \in ToSet(Tail(q))
  <2>1. PICK i \in 1 .. Len(q) : x = q[i]
    BY DEF ToSet
  <2>2. i - 1 \in 1 .. Len(q) - 1 /\ Tail(q)[i - 1] = x
    BY <1>1, <1>4, <2>1
  <2>3. DOMAIN Tail(q) = 1 .. Len(Tail(q))
    BY <1>1
  <2>4. i - 1 \in DOMAIN Tail(q)
    BY <1>1, <2>2, <2>3
  <2> QED
    BY <2>2, <2>4 DEF ToSet
<1> QED
  BY <1>1, <1>2, <1>3, <1>4 DEF ToSet

-----------------------------------------------------------------------------
LEMMA InitInv == Init => Inv
<1> SUFFICES ASSUME Init PROVE Inv
  OBVIOUS
<1>1. Types
  BY DEF Init, Types, TypeOK, ToSet
<1>2. Open
  BY DEF Init, Open, NoConnectionLeak
<1>3. Fields /\ Answered
  BY DEF Init, Fields, Answered
<1> QED
  BY <1>1, <1>2, <1>3 DEF Inv

-----------------------------------------------------------------------------
(* The clients' steps. *)
LEMMA DialInv ==
  ASSUME Inv, NEW c \in Clients, Dial(c)
  PROVE  Inv'
<1> USE DEF Inv
<1>1. Types'
  <2>1. c \notin ToSet(backlog)
    BY DEF Types, TypeOK, Dial
  <2>2. /\ backlog' \in Seq(Clients)
        /\ ToSet(backlog') = ToSet(backlog) \cup {c}
        /\ \A i, j \in 1 .. Len(backlog') : backlog'[i] = backlog'[j] => i = j
    BY <2>1, Enqueue DEF Types, Dial
  <2>3. conn' \in [Clients -> {"away", "queued", "open"}]
    BY DEF Types, TypeOK, Dial
  <2>4. \A d \in Clients : d \in ToSet(backlog') <=> conn'[d] = "queued"
    BY <2>2 DEF Types, TypeOK, Dial
  <2>5. fds' \subseteq {d \in Clients : conn'[d] = "open"}
    BY DEF Types, TypeOK, Dial
  <2> QED
    BY <2>2, <2>3, <2>4, <2>5 DEF Types, TypeOK, Dial, request
<1>2. Open' /\ Fields'
  BY DEF Dial, request, Open, NoConnectionLeak, Fields, Its, NoneOf, Parsed, Unparsed, Matches
<1>3. Answered'
  BY DEF Dial, Types, TypeOK, Answered, Parsed, Unparsed
<1> QED
  BY <1>1, <1>2, <1>3

LEMMA SendMoreInv ==
  ASSUME Inv, NEW c \in Clients, SendMore(c)
  PROVE  Inv'
<1> USE DEF Inv
<1>1. Types'
  BY DEF SendMore, Types, TypeOK, request
<1>2. Open'
  BY DEF SendMore, Open, NoConnectionLeak
<1>3. /\ sent' \in [Clients -> {"nothing", "header", "all"}]
      /\ \A d \in Clients : d # c => sent'[d] = sent[d]
      /\ sent'[c] # "nothing" /\ c \notin hungUp
  BY DEF SendMore, Types, TypeOK
<1>4. Fields'
  BY <1>3 DEF SendMore, request, Types, TypeOK, Open, Fields, Its, NoneOf, Parsed, Unparsed, Matches
<1>5. Answered'
  BY <1>3 DEF SendMore, Answered, Parsed, Unparsed
<1> QED
  BY <1>1, <1>2, <1>4, <1>5

LEMMA HangUpInv ==
  ASSUME Inv, NEW c \in Clients, HangUp(c)
  PROVE  Inv'
<1> USE DEF Inv
<1>1. Types'
  BY DEF HangUp, Types, TypeOK, request
<1>2. Open' /\ Fields'
  BY DEF HangUp, request, Open, NoConnectionLeak, Fields, Its, NoneOf, Parsed, Unparsed, Matches
<1>3. Answered'
  BY DEF HangUp, Answered, Parsed, Unparsed
<1> QED
  BY <1>1, <1>2, <1>3

-----------------------------------------------------------------------------
(* The server's steps. *)
LEMMA AcceptInv ==
  ASSUME Inv, Accept
  PROVE  Inv'
<1> USE DEF Inv
<1> DEFINE c == Head(backlog)
<1>1. /\ c \in Clients /\ c \in ToSet(backlog)
      /\ backlog' \in Seq(Clients)
      /\ ToSet(backlog') = ToSet(backlog) \ {c}
      /\ \A i, j \in 1 .. Len(backlog') : backlog'[i] = backlog'[j] => i = j
  BY Dequeue DEF Accept, Types
<1>2. conn[c] = "queued"
  BY <1>1 DEF Types, TypeOK
<1> HIDE DEF c
<1>3. /\ conn' = [conn EXCEPT ![c] = "open"]
      /\ cfd' = c /\ fds' = fds \cup {c} /\ method' = NoClient
      /\ pc = "accept" /\ pc' = "header"
      /\ UNCHANGED <<sent, hungUp, answer, path, body, replies, silent>>
  BY DEF Accept, c
<1>4. Types'
  <2>1. conn' \in [Clients -> {"away", "queued", "open"}]
    BY <1>1, <1>3 DEF Types, TypeOK
  <2>2. fds' \subseteq {d \in Clients : conn'[d] = "open"}
    BY <1>1, <1>3 DEF Types, TypeOK
  <2>3. \A d \in Clients : d \in ToSet(backlog') <=> conn'[d] = "queued"
    BY <1>1, <1>3 DEF Types, TypeOK
  <2> QED
    BY <1>1, <1>3, <2>1, <2>2, <2>3 DEF Types, TypeOK
<1>5. Open'
  BY <1>1, <1>3 DEF Open, NoConnectionLeak
<1>6. Fields'
  BY <1>3 DEF Fields
<1>7. Answered'
  BY <1>1, <1>2, <1>3 DEF Answered, Parsed, Unparsed, Types, TypeOK
<1> QED
  BY <1>4, <1>5, <1>6, <1>7

LEMMA AcceptFailsInv ==
  ASSUME Inv, AcceptFails
  PROVE  Inv'
<1> USE DEF Inv
<1>1. Types'
  BY DEF AcceptFails, peers, request, Types, TypeOK
<1>2. Open'
  BY DEF AcceptFails, peers, Open, NoConnectionLeak
<1>3. Fields' /\ Answered'
  BY DEF AcceptFails, peers, request, Fields, Answered, Parsed, Unparsed
<1> QED
  BY <1>1, <1>2, <1>3

LEMMA ReadHeaderInv ==
  ASSUME Inv, ReadHeader
  PROVE  Inv'
<1> USE DEF Inv
<1>1. cfd \in Clients
  BY DEF ReadHeader, Types, TypeOK, Open
<1>2. Types'
  BY <1>1 DEF ReadHeader, peers, Types, TypeOK
<1>3. Open'
  BY DEF ReadHeader, peers, Open, NoConnectionLeak
<1>4. Fields'
  BY <1>1 DEF ReadHeader, Complete, Incomplete, peers, Fields, Its, NoneOf, Parsed, Unparsed
<1>5. Answered'
  BY DEF ReadHeader, peers, Answered, Parsed, Unparsed
<1> QED
  BY <1>2, <1>3, <1>4, <1>5

LEMMA ReadBodyInv ==
  ASSUME Inv, ReadBody
  PROVE  Inv'
<1> USE DEF Inv
<1>1. Types'
  BY DEF ReadBody, peers, Types, TypeOK
<1>2. Open'
  BY DEF ReadBody, peers, Open, NoConnectionLeak
<1>3. Fields'
  BY DEF ReadBody, peers, Fields, Its, NoneOf, Parsed, Unparsed
<1>4. Answered'
  BY DEF ReadBody, peers, Answered, Parsed, Unparsed
<1> QED
  BY <1>1, <1>2, <1>3, <1>4

LEMMA DispatchInv ==
  ASSUME Inv, Dispatch
  PROVE  Inv'
<1> USE DEF Inv
<1>0. pc' \in {"handler", "writing"} /\ replies' \in Nat
  <2>1. CASE Matches
    <3>1. pc' = "handler" /\ replies' \in Replies
      BY <2>1 DEF Dispatch
    <3>2. Replies \subseteq Nat
      BY DEF HttpAssumption
    <3> QED
      BY ONLY <3>1, <3>2
  <2>2. CASE ~Matches
    BY <2>2 DEF Dispatch
  <2> QED
    BY ONLY <2>1, <2>2
<1>1. Types'
  <2>1. UNCHANGED <<peers, answer, backlog, cfd, fds, request, silent>>
    BY DEF Dispatch
  <2> QED
    BY <1>0, <2>1 DEF peers, request, Types, TypeOK
<1>2. Open'
  BY DEF Dispatch, peers, Open, NoConnectionLeak
<1>3. Fields'
  BY DEF Dispatch, peers, request, Fields, Its, NoneOf, Parsed, Unparsed, Matches
<1>4. Answered'
  BY DEF Dispatch, peers, Answered, Parsed, Unparsed
<1> QED
  BY <1>1, <1>2, <1>3, <1>4

LEMMA HandlerInv ==
  ASSUME Inv, Handler
  PROVE  Inv'
<1> USE DEF Inv
<1>1. silent' \subseteq Clients
  BY DEF Handler, Types, TypeOK
<1>2. Types'
  BY <1>1 DEF Handler, peers, request, Types, TypeOK
<1>3. NoClient \notin fds
  BY DEF Types, TypeOK
<1>4. Open'
  BY <1>3 DEF Handler, peers, Types, TypeOK, Open, NoConnectionLeak
<1>5. Fields'
  BY DEF Handler, peers, request, Fields, Its, NoneOf, Parsed, Unparsed, Matches
<1>6. Answered'
  BY DEF Handler, peers, Answered, Parsed, Unparsed
<1> QED
  BY <1>2, <1>4, <1>5, <1>6

LEMMA RespondInv ==
  ASSUME Inv, Respond
  PROVE  Inv'
<1> USE DEF Inv
<1>0. Back \in {"handler", "accept"} /\ (Back = "handler" => Matches)
  BY DEF Back
<1>1. CASE cfd = NoClient
  <2>1. /\ pc' = Back /\ pc = "writing"
        /\ UNCHANGED <<answer, cfd, fds, peers, backlog, request, replies, silent>>
    BY <1>1 DEF Respond
  <2>2. Types'
    BY <1>0, <2>1 DEF peers, request, Types, TypeOK
  <2>3. Open'
    BY <1>0, <1>1, <2>1 DEF peers, Types, TypeOK, Open, NoConnectionLeak
  <2>4. Fields'
    BY <1>0, <1>1, <2>1 DEF request, Fields, Matches
  <2>5. Answered'
    BY <2>1 DEF peers, Answered, Parsed, Unparsed
  <2> QED
    BY <2>2, <2>3, <2>4, <2>5
<1>2. CASE cfd # NoClient /\ pc' # "killed"
  <2>1. /\ pc' = Back /\ pc = "writing"
        /\ answer' = [answer EXCEPT ![cfd] = Append(@, path)]
        /\ fds' = fds \ {cfd} /\ cfd' = NoClient
        /\ UNCHANGED <<peers, backlog, request, replies, silent>>
    BY <1>2 DEF Respond
  <2>2. cfd \in Clients /\ cfd \in fds /\ conn[cfd] = "open"
    BY <1>2, <2>1 DEF Types, TypeOK, Open
  <2>3. answer[cfd] = <<>>
    BY <2>2 DEF Answered, Parsed, Unparsed
  <2>4. path \in Clients \cup {NoClient} /\ answer'[cfd] = <<path>>
    BY <2>1, <2>2, <2>3 DEF Types, TypeOK
  <2>5. Types'
    <3>1. answer' \in [Clients -> Seq(Clients \cup {NoClient})]
      BY <2>1, <2>2, <2>4 DEF Types
    <3> QED
      BY <1>0, <2>1, <3>1 DEF peers, request, Types, TypeOK
  <2>6. Open'
    <3>1. \A c \in Clients : c # cfd => answer'[c] = answer[c]
      BY <2>1, <2>2 DEF Types
    <3>2. answer'[cfd] # <<>>
      BY <2>4
    <3>3. \A c \in Clients : conn'[c] = "open" => c \in fds' \/ answer'[c] # <<>>
      BY <2>1, <3>1, <3>2 DEF peers, Open, NoConnectionLeak
    <3> QED
      BY <1>0, <2>1, <3>3 DEF Open, NoConnectionLeak
  <2>7. Fields'
    BY <1>0, <2>1 DEF request, Fields, Matches
  <2>8. Answered'
    <3>1. SUFFICES ASSUME NEW c \in Clients, c # cfd
                   PROVE  answer'[c] = answer[c]
      BY <1>2, <2>1, <2>2, <2>4 DEF peers, Answered, Fields, Its, NoneOf, Parsed, Unparsed
    <3> QED
      BY <2>1, <2>2, <3>1 DEF Types
  <2> QED
    BY <2>5, <2>6, <2>7, <2>8
<1>3. CASE cfd # NoClient /\ pc' = "killed"
  <2>1. UNCHANGED <<answer, cfd, fds, peers, backlog, request, replies, silent>>
    BY <1>0, <1>3 DEF Respond
  <2> QED
    BY <1>3, <2>1 DEF peers, request, Types, TypeOK, Open, NoConnectionLeak, Fields,
       Answered, Parsed, Unparsed
<1> QED
  BY <1>1, <1>2, <1>3

-----------------------------------------------------------------------------
LEMMA NextInv == Inv /\ [Next]_vars => Inv'
<1> SUFFICES ASSUME Inv, [Next]_vars PROVE Inv'
  OBVIOUS
<1>1. CASE Server
  BY <1>1, AcceptInv, ReadHeaderInv, ReadBodyInv, DispatchInv, HandlerInv,
     RespondInv DEF Server
<1>2. CASE \E c \in Clients : Dial(c) \/ SendMore(c) \/ HangUp(c)
  BY <1>2, DialInv, SendMoreInv, HangUpInv
<1>3. CASE UNCHANGED vars
  BY <1>3 DEF vars, peers, request, Inv, Types, TypeOK, Open, NoConnectionLeak,
     Fields, Its, NoneOf, Parsed, Unparsed, Matches, Answered
<1> QED
  BY <1>1, <1>2, <1>3, AcceptFailsInv DEF Next

LEMMA InvHolds == Spec => []Inv
BY InitInv, NextInv, PTL DEF Spec

(* The server's state is of its types: in particular what is open was      *)
(* accepted, and the backlog holds the clients that wait and no other      *)
(* (vader_http.c:93-169).                                                  *)
THEOREM TypesHold == Spec => []TypeOK
<1>1. Inv => TypeOK
  BY DEF Inv, Types
<1> QED
  BY <1>1, InvHolds, PTL

(* A handler sees the request of the connection it answers, whatever the   *)
(* connections before it sent (vader_http_accept).                         *)
THEOREM FieldsHold == Spec => []FieldsAgree
<1>1. Inv => FieldsAgree
  BY DEF Inv, Types, TypeOK, Fields, FieldsAgree, Its, NoneOf, Parsed, Unparsed, Matches
<1> QED
  BY <1>1, InvHolds, PTL

(* One response for a connection, and to its own request                   *)
(* (vader_http_respond forgets cfd as it closes it).                       *)
THEOREM OwnAnswers == Spec => []AnswersOwnRequest
<1>1. Inv => AnswersOwnRequest
  BY DEF Inv, Answered, Parsed, Unparsed, AnswersOwnRequest
<1> QED
  BY <1>1, InvHolds, PTL

(* Only its answer closes a connection, and only a handler that does not   *)
(* respond leaves one open, whatever the clients do and whenever accept    *)
(* fails (vader_http_respond, vader_router_serve).                         *)
THEOREM NoLeak == Spec => []NoConnectionLeak
<1>1. Inv => NoConnectionLeak
  BY DEF Inv, Open
<1> QED
  BY <1>1, InvHolds, PTL
=============================================================================
