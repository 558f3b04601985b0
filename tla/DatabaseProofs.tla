--------------------------- MODULE DatabaseProofs ---------------------------
(***************************************************************************)
(* Proofs about Database, for any requests, any results, any documents and *)
(* any conversion of them, and a link that is lost at any point.           *)
(***************************************************************************)
EXTENDS Database, SequenceTheorems, TLAPS

-----------------------------------------------------------------------------
(* Sequences of whatever they are of. *)
IsSeq(s) == s \in Seq({s[i] : i \in DOMAIN s})

LEMMA SeqIs ==
  ASSUME NEW S, NEW s \in Seq(S)
  PROVE  IsSeq(s)
<1>1. Len(s) \in Nat /\ DOMAIN s = 1 .. Len(s) /\ s = [i \in 1 .. Len(s) |-> s[i]]
  OBVIOUS
<1>2. s \in [1 .. Len(s) -> {s[i] : i \in DOMAIN s}]
  BY <1>1
<1>3. QED
  BY <1>1, <1>2 DEF IsSeq

LEMMA SeqShape ==
  ASSUME NEW s, IsSeq(s)
  PROVE  /\ Len(s) \in Nat /\ DOMAIN s = 1 .. Len(s)
         /\ (s = <<>> <=> Len(s) = 0)
BY DEF IsSeq

LEMMA EmptyIs == IsSeq(<<>>)
<1>1. <<>> \in Seq({})
  OBVIOUS
<1>2. QED
  BY <1>1, SeqIs

LEMMA FunctionIs ==
  ASSUME NEW n \in Nat, NEW s, DOMAIN s = 1 .. n, s = [i \in 1 .. n |-> s[i]]
  PROVE  IsSeq(s) /\ Len(s) = n
<1>1. s \in [1 .. n -> {s[i] : i \in DOMAIN s}]
  OBVIOUS
<1>2. s \in Seq({s[i] : i \in DOMAIN s})
  BY <1>1
<1>3. QED
  BY <1>1, <1>2 DEF IsSeq

LEMMA TailIs ==
  ASSUME NEW s, IsSeq(s), s # <<>>
  PROVE  /\ IsSeq(Tail(s)) /\ Len(s) >= 1 /\ Len(Tail(s)) = Len(s) - 1
         /\ Head(s) = s[1]
         /\ \A i \in 1 .. Len(s) - 1 : Tail(s)[i] = s[i + 1]
<1>1. PICK S : s \in Seq(S)
  BY DEF IsSeq
<1>2. /\ Tail(s) \in Seq(S) /\ Len(Tail(s)) = Len(s) - 1
      /\ \A i \in 1 .. Len(Tail(s)) : Tail(s)[i] = s[i + 1]
  BY <1>1, HeadTailProperties
<1>3. Len(s) >= 1 /\ Head(s) = s[1]
  BY <1>1, EmptySeq
<1>4. QED
  BY <1>2, <1>3, SeqIs

LEMMA ConcatIs ==
  ASSUME NEW s, IsSeq(s), NEW t, IsSeq(t)
  PROVE  /\ IsSeq(s \o t) /\ Len(s \o t) = Len(s) + Len(t)
         /\ \A i \in 1 .. Len(s) : (s \o t)[i] = s[i]
         /\ \A i \in Len(s) + 1 .. Len(s) + Len(t) : (s \o t)[i] = t[i - Len(s)]
<1> DEFINE S == {s[i] : i \in DOMAIN s} \cup {t[i] : i \in DOMAIN t}
<1>1. s \in Seq(S) /\ t \in Seq(S)
  BY SeqShape DEF IsSeq
<1> HIDE DEF S
<1>2. /\ s \o t \in Seq(S) /\ Len(s \o t) = Len(s) + Len(t)
      /\ \A i \in 1 .. Len(s) + Len(t) : (s \o t)[i] =
           IF i <= Len(s) THEN s[i] ELSE t[i - Len(s)]
  BY <1>1, ConcatProperties
<1>3. Len(s) \in Nat /\ Len(t) \in Nat
  BY <1>1
<1>4. IsSeq(s \o t)
  BY <1>2, SeqIs
<1>5. ASSUME NEW i \in 1 .. Len(s) PROVE (s \o t)[i] = s[i]
  BY <1>2, <1>3
<1>6. ASSUME NEW i \in Len(s) + 1 .. Len(s) + Len(t) PROVE (s \o t)[i] = t[i - Len(s)]
  BY <1>2, <1>3
<1>7. QED
  BY <1>2, <1>4, <1>5, <1>6

LEMMA AppendIs ==
  ASSUME NEW s, IsSeq(s), NEW e
  PROVE  /\ IsSeq(Append(s, e)) /\ Len(Append(s, e)) = Len(s) + 1
         /\ \A i \in 1 .. Len(s) : Append(s, e)[i] = s[i]
         /\ Append(s, e)[Len(s) + 1] = e
<1> DEFINE S == {s[i] : i \in DOMAIN s} \cup {e}
<1>1. s \in Seq(S) /\ e \in S
  BY SeqShape DEF IsSeq
<1> HIDE DEF S
<1>2. /\ Append(s, e) \in Seq(S) /\ Len(Append(s, e)) = Len(s) + 1
      /\ \A i \in 1 .. Len(s) : Append(s, e)[i] = s[i]
      /\ Append(s, e)[Len(s) + 1] = e
  BY <1>1, AppendProperties
<1>3. QED
  BY <1>2, SeqIs

LEMMA PrefixIs ==
  ASSUME NEW s, IsSeq(s), NEW n \in 0 .. Len(s)
  PROVE  /\ IsSeq(SubSeq(s, 1, n)) /\ Len(SubSeq(s, 1, n)) = n
         /\ \A i \in 1 .. n : SubSeq(s, 1, n)[i] = s[i]
<1>1. Len(s) \in Nat /\ n \in Nat
  BY SeqShape
<1>2. SubSeq(s, 1, n) = [i \in 1 .. n |-> s[i]]
  BY <1>1
<1>3. QED
  BY <1>1, <1>2, FunctionIs

LEMMA OneIs == ASSUME NEW m PROVE IsSeq(<<m>>) /\ Len(<<m>>) = 1 /\ <<m>>[1] = m
<1>1. <<m>> \in Seq({m})
  OBVIOUS
<1>2. QED
  BY <1>1, SeqIs

LEMMA OneMessage ==
  ASSUME NEW m
  PROVE  <<m>> # <<>> /\ Head(<<m>>) = m /\ Tail(<<m>>) = <<>>
OBVIOUS

LEMMA AfterNothing == ASSUME NEW s, IsSeq(s) PROVE <<>> \o s = s
<1>1. s \in Seq({s[i] : i \in DOMAIN s})
  BY DEF IsSeq
<1>2. QED
  BY <1>1

-----------------------------------------------------------------------------
(* Parts that the drivers' invariants share. *)

(* The types of what a driver keeps. *)
Shapes ==
  /\ q \in Nat /\ errout \in BOOLEAN /\ up \in BOOLEAN /\ valid \in BOOLEAN
  /\ IsSeq(rows) /\ IsSeq(produced) /\ IsSeq(toCli) /\ IsSeq(toSrv)

(* No request has been made. *)
Fresh == q = 0 /\ rows = <<>> /\ produced = <<>> /\ ~errout /\ outcome = "none"

(* The rows of this request, from the first. *)
Numbered(s) == \A i \in 1 .. Len(s) : s[i] = <<q, i>>

LEMMA SameNumbered ==
  ASSUME NEW s, NEW t, IsSeq(s), IsSeq(t), Len(s) = Len(t), Numbered(s), Numbered(t)
  PROVE  s = t
<1>1. s \in Seq({s[i] : i \in DOMAIN s}) /\ t \in Seq({t[i] : i \in DOMAIN t})
  BY DEF IsSeq
<1>2. s = [i \in 1 .. Len(s) |-> s[i]] /\ t = [i \in 1 .. Len(t) |-> t[i]]
  BY <1>1
<1>3. \A i \in 1 .. Len(s) : s[i] = t[i]
  BY DEF Numbered
<1>4. QED
  BY <1>2, <1>3

(* Where the server is, and what is on the link. *)
Talk(s, out, in) == srv = s /\ toSrv = out /\ toCli = in

-----------------------------------------------------------------------------
(* The loops over the rows of a result that is in memory: while a request  *)
(* is under way the loop has not begun, and where the client rests it      *)
(* never has seen more rows than there are.                                *)
Resting == cl \in {"idle", "failed", "closed", "killed"}

LoopInv ==
  /\ loop \in {"none", "open", "ended", "left"}
  /\ seen \in 0 .. Len(rows)
  /\ ~Resting => seen = 0 /\ loop \in {"none", "open"}
  /\ loop = "ended" => seen = Len(rows)

(* The steps of a driver leave the loop alone. *)
LEMMA LoopSteps ==
  ASSUME LoopInv, UNCHANGED program, Len(rows') \in Nat,
         Resting => Resting' /\ UNCHANGED rows
  PROVE  LoopInv'
<1>1. UNCHANGED <<loop, seen>>
  BY DEF program
<1>2. CASE Resting
  BY <1>1, <1>2 DEF LoopInv
<1>3. CASE ~Resting
  BY <1>1, <1>3 DEF LoopInv
<1>4. QED
  BY <1>2, <1>3

LEMMA LoopRequest ==
  ASSUME WireRequest, Len(rows') \in Nat
  PROVE  LoopInv'
<1>1. seen' = 0 /\ loop' \in {"none", "open"}
  BY DEF WireRequest
<1>2. QED
  BY <1>1 DEF LoopInv

LEMMA LoopNext == LoopInv /\ WireNext => LoopInv'
<1> SUFFICES ASSUME LoopInv, WireNext PROVE LoopInv'
  OBVIOUS
<1>1. UNCHANGED <<cl, rows>> /\ loop = "open" /\ Resting
  BY DEF WireNext, conn, client, Settled, Resting
<1>2. Resting'
  BY <1>1 DEF Resting
<1>3. Len(rows) \in Nat \/ seen >= Len(rows) \/ seen < Len(rows)
  BY DEF LoopInv
<1>4. CASE seen < Len(rows)
  <2>1. seen' = seen + 1 /\ loop' = loop
    BY <1>4 DEF WireNext
  <2>2. QED
    BY <1>1, <1>2, <1>4, <2>1 DEF LoopInv
<1>5. CASE ~(seen < Len(rows))
  <2>1. seen' = seen /\ loop' = "ended"
    BY <1>5 DEF WireNext
  <2>2. QED
    BY <1>1, <1>2, <1>5, <2>1 DEF LoopInv
<1>6. QED
  BY <1>4, <1>5

LEMMA LoopBreak == LoopInv /\ Break => LoopInv'
<1> SUFFICES ASSUME LoopInv, Break PROVE LoopInv'
  OBVIOUS
<1>1. UNCHANGED <<cl, rows, seen>> /\ loop' = "left" /\ Resting
  BY DEF Break, conn, client, Settled, Resting
<1>2. QED
  BY <1>1 DEF LoopInv, Resting

-----------------------------------------------------------------------------
(* Postgres *)

PgFirst == {"connect", "dialed", "tls", "plain", "auth", "sasl1", "sasl2", "sasl3", "settle"}

(* What is left of Welcome. *)
Welcome1 == <<Pg!M("S"), Pg!M("K"), Pg!M("Z")>>
Welcome2 == <<Pg!M("K"), Pg!M("Z")>>
Welcome3 == <<Pg!M("Z")>>

(* Nothing follows ReadyForQuery; and an answer that has not been cut off  *)
(* ends with it.                                                           *)
ReadyLast == \A i \in 1 .. Len(toCli) : toCli[i].type = "Z" => i = Len(toCli)
Whole     == toCli # <<>> /\ toCli[Len(toCli)].type = "Z"

PgTypes ==
  /\ Shapes
  /\ cl \in PgFirst \cup {"idle", "query", "drain", "failed", "closed", "killed"}
  /\ method \in Pg!PgMethods
  /\ cl \in PgFirst => Fresh
  /\ cl = "idle" => toCli = <<>>
  /\ cl = "closed" => ~sock
  /\ ReadyLast

(* The conversation on a link that holds, phase by phase. *)
PgTalk ==
  /\ cl \in {"connect", "dialed", "plain"} => Talk("listen", <<>>, <<>>)
  /\ cl = "tls" => \/ Talk("listen", <<Pg!M("ssl")>>, <<>>)
                   \/ \E type \in {"S", "N"} : Talk("listen", <<>>, <<Pg!M(type)>>)
  /\ cl = "auth" =>
       \/ Talk("listen", <<Pg!M("startup")>>, <<>>)
       \/ Talk("password", <<Pg!M("p")>>, <<>>)
       \/ \E code \in {3, 5, 7} : Talk("password", <<>>, <<Pg!R(code)>>)
       \/ Talk("sasl", <<>>, <<Pg!R(10)>>)
       \/ Talk("ready", <<>>, Pg!Welcome)
       \/ \E w \in {Welcome1, Welcome2, Welcome3, <<>>} : Talk("ready", <<>>, w)
  /\ cl = "sasl1" => \/ Talk("sasl", <<Pg!M("p")>>, <<>>)
                     \/ Talk("proof", <<>>, <<Pg!R(11)>>)
  /\ cl = "sasl2" => \/ Talk("proof", <<Pg!M("p")>>, <<>>)
                     \/ Talk("ready", <<>>, <<Pg!R(12)>> \o Pg!Welcome)
  /\ cl = "sasl3" => Talk("ready", <<>>, Pg!Welcome)
  /\ cl = "settle" => \E w \in {Welcome1, Welcome2, Welcome3} : Talk("ready", <<>>, w)
  /\ cl = "idle" => Talk("ready", <<>>, <<>>)
  /\ cl = "query" => \/ Talk("ready", <<[type |-> "Q", id |-> q]>>, <<>>) /\ rows = <<>>
                     \/ srv = "ready" /\ toSrv = <<>> /\ Whole
  /\ cl = "drain" => srv = "ready" /\ toSrv = <<>> /\ Whole
  /\ cl = "failed" => toSrv = <<>>
  /\ cl \notin {"closed", "killed"}

(* c counts the rows the client has after each message of the answer. *)
Counts(c) ==
  /\ c \in [0 .. Len(toCli) -> Nat]
  /\ c[0] = Len(rows)
  /\ \A i \in 1 .. Len(toCli) :
       IF toCli[i].type = "D" THEN c[i] = c[i - 1] + 1 /\ toCli[i].row = <<q, c[i]>>
                              ELSE c[i] = c[i - 1]
  /\ Whole => c[Len(toCli)] = Len(produced)

(* The rest of an answer continues the rows the client has, up to the last *)
(* one if it is whole, and says how it ended.                              *)
PgAnswer ==
  /\ \E c : Counts(c)
  /\ Whole => /\ Numbered(produced)
              /\ (\E i \in 1 .. Len(toCli) : toCli[i].type = "E") => outcome = "failed"
              /\ (\A i \in 1 .. Len(toCli) : toCli[i].type # "E") => outcome = "done"

PgResult ==
  /\ Numbered(rows)
  /\ cl = "query" => ~errout /\ PgAnswer
  /\ cl = "drain" => errout /\ (up => outcome = "failed")
  /\ cl \in {"idle", "failed", "closed"} =>
       /\ errout /\ up => outcome # "done"
       /\ ~errout => rows = produced /\ (q > 0 => outcome = "done")

PgInv == PgTypes /\ (up => PgTalk) /\ PgResult

LEMMA ConsFour ==
  ASSUME NEW a, NEW b, NEW c, NEW d, NEW e
  PROVE  <<a>> \o <<b, c, d, e>> = <<a, b, c, d, e>>
<1> DEFINE S == {a, b, c, d, e}
           s == <<a>> \o <<b, c, d, e>>
<1>1. <<a>> \in Seq(S) /\ <<b, c, d, e>> \in Seq(S)
  OBVIOUS
<1>2. /\ s \in Seq(S) /\ Len(s) = 5
      /\ \A i \in 1 .. 5 : s[i] = IF i <= 1 THEN <<a>>[i] ELSE <<b, c, d, e>>[i - 1]
  BY <1>1, ConcatProperties
<1> HIDE DEF s
<1>3. s[1] = a /\ s[2] = b /\ s[3] = c /\ s[4] = d /\ s[5] = e
  BY <1>2
<1>4. <<a, b, c, d, e>> \in Seq(S) /\ Len(<<a, b, c, d, e>>) = 5
  OBVIOUS
<1>5. s = <<a, b, c, d, e>>
  BY <1>2, <1>3, <1>4, SeqEqual
<1>6. QED
  BY <1>5 DEF s

(* What is read of the messages that let the client in, one by one. *)
LEMMA Welcomes ==
  /\ Head(Pg!Welcome) = Pg!R(0) /\ Tail(Pg!Welcome) = Welcome1
  /\ Head(Welcome1) = Pg!M("S") /\ Tail(Welcome1) = Welcome2
  /\ Head(Welcome2) = Pg!M("K") /\ Tail(Welcome2) = Welcome3
  /\ Head(Welcome3) = Pg!M("Z") /\ Tail(Welcome3) = <<>>
<1>1. Head(Pg!Welcome) = Pg!R(0) /\ Tail(Pg!Welcome) = Welcome1
  BY DEF Pg!Welcome, Welcome1
<1>2. Head(Welcome1) = Pg!M("S") /\ Tail(Welcome1) = Welcome2
  BY DEF Welcome1, Welcome2
<1>3. Head(Welcome2) = Pg!M("K") /\ Tail(Welcome2) = Welcome3
  BY DEF Welcome2, Welcome3
<1>4. Head(Welcome3) = Pg!M("Z") /\ Tail(Welcome3) = <<>>
  BY DEF Welcome3
<1>5. QED
  BY <1>1, <1>2, <1>3, <1>4

LEMMA ProofThenWelcome ==
  /\ Head(<<Pg!R(12)>> \o Pg!Welcome) = Pg!R(12)
  /\ Tail(<<Pg!R(12)>> \o Pg!Welcome) = Pg!Welcome
<1>1. <<Pg!R(12)>> \o Pg!Welcome
        = <<Pg!R(12), Pg!R(0), Pg!M("S"), Pg!M("K"), Pg!M("Z")>>
  BY ConsFour DEF Pg!Welcome
<1>2. Head(<<Pg!R(12), Pg!R(0), Pg!M("S"), Pg!M("K"), Pg!M("Z")>>) = Pg!R(12)
  OBVIOUS
<1>3. Tail(<<Pg!R(12), Pg!R(0), Pg!M("S"), Pg!M("K"), Pg!M("Z")>>) = Pg!Welcome
  BY DEF Pg!Welcome
<1>4. QED
  BY <1>1, <1>2, <1>3

(* A step of the client on its way to a connection, and one of the server  *)
(* on that way.                                                            *)
LEMMA PgOpens ==
  ASSUME PgTypes, PgResult, cl \in PgFirst,
         UNCHANGED <<q, rows, errout, produced, outcome, method, valid, up>>,
         cl' \in PgFirst \cup {"idle", "failed", "killed"},
         toCli' = toCli \/ (toCli # <<>> /\ toCli' = Tail(toCli)),
         cl' = "idle" => toCli' = <<>>,
         toSrv' = toSrv \/ \E m : toSrv' = Append(toSrv, m)
  PROVE  PgTypes' /\ PgResult'
<1>1. IsSeq(toCli) /\ IsSeq(toSrv)
  BY DEF PgTypes, Shapes
<1>2. IsSeq(toSrv')
  <2>1. CASE toSrv' = toSrv
    BY <1>1, <2>1
  <2>2. ASSUME NEW m, toSrv' = Append(toSrv, m) PROVE IsSeq(toSrv')
    BY <1>1, <2>2, AppendIs
  <2>3. QED
    BY <2>1, <2>2
<1>3. IsSeq(toCli') /\ ReadyLast'
  <2>1. CASE toCli' = toCli
    BY <1>1, <2>1 DEF PgTypes, ReadyLast
  <2>2. CASE toCli # <<>> /\ toCli' = Tail(toCli)
    BY <1>1, <2>2, TailIs, SeqShape DEF PgTypes, ReadyLast
  <2>3. QED
    BY <2>1, <2>2
<1>4. Fresh /\ Fresh'
  BY DEF PgTypes, Fresh
<1>5. PgTypes'
  BY <1>2, <1>3, <1>4 DEF PgTypes, Shapes, PgFirst
<1>6. PgResult'
  BY <1>4 DEF PgResult, Fresh, Numbered, PgFirst
<1>7. QED
  BY <1>5, <1>6

LEMMA PgConnect == PgInv /\ Pg!Connect => PgInv'
<1> SUFFICES ASSUME PgInv, Pg!Connect PROVE PgInv'
  OBVIOUS
<1> USE DEF Pg!Connect, Pg!Dial
<1>1. PgTypes' /\ PgResult'
  BY PgOpens DEF PgInv, PgFirst, Pg!server, Pg!link
<1>2. up' => PgTalk'
  BY DEF PgInv, PgTalk, Talk, Pg!server, Pg!link
<1>3. QED
  BY <1>1, <1>2 DEF PgInv

LEMMA PgRequestTls == PgInv /\ Pg!RequestTls => PgInv'
<1> SUFFICES ASSUME PgInv, Pg!RequestTls PROVE PgInv'
  OBVIOUS
<1> USE DEF Pg!RequestTls, Pg!WriteGoto, Pg!Goto
<1>1. PgTypes' /\ PgResult'
  BY PgOpens DEF PgInv, PgFirst, Pg!server
<1>2. up' => PgTalk'
  BY DEF PgInv, PgTalk, Talk, Pg!server
<1>3. QED
  BY <1>1, <1>2 DEF PgInv

LEMMA PgTlsAnswer == PgInv /\ Pg!TlsAnswer => PgInv'
<1> SUFFICES ASSUME PgInv, Pg!TlsAnswer PROVE PgInv'
  OBVIOUS
<1> USE DEF Pg!TlsAnswer, Pg!Goto, Pg!Reads, Pg!ReadFails
<1>1. PgTypes' /\ PgResult'
  BY PgOpens DEF PgInv, PgFirst, Pg!server
<1>2. ASSUME up PROVE PgTalk'
  <2>1. cl' = "plain" /\ toSrv' = toSrv /\ srv' = srv /\ toCli # <<>> /\ toCli' = Tail(toCli)
    BY <1>2 DEF Pg!server
  <2>2. \E m : toCli = <<m>> /\ srv = "listen" /\ toSrv = <<>>
    BY <1>2, <2>1 DEF PgInv, PgTalk, Talk
  <2>3. QED
    BY <2>1, <2>2 DEF PgTalk, Talk
<1>3. QED
  BY <1>1, <1>2 DEF PgInv, Pg!server

LEMMA PgSendStartup == PgInv /\ Pg!SendStartup => PgInv'
<1> SUFFICES ASSUME PgInv, Pg!SendStartup PROVE PgInv'
  OBVIOUS
<1> USE DEF Pg!SendStartup, Pg!WriteGoto, Pg!Goto
<1>1. PgTypes' /\ PgResult'
  BY PgOpens DEF PgInv, PgFirst, Pg!server
<1>2. up' => PgTalk'
  BY DEF PgInv, PgTalk, Talk, Pg!server
<1>3. QED
  BY <1>1, <1>2 DEF PgInv
(* The reads of the authentication on a link that holds. *)
LEMMA PgAuthRead == PgInv /\ Pg!AuthRead => PgInv'
<1> SUFFICES ASSUME PgInv, Pg!AuthRead PROVE PgInv'
  OBVIOUS
<1>1. /\ cl = "auth" /\ UNCHANGED <<q, rows, errout, produced, outcome, method, valid, up, srv>>
  BY DEF Pg!AuthRead, Pg!server
<1>2. CASE Pg!ReadFails /\ Pg!Goto("failed")
  <2>1. PgTypes' /\ PgResult'
    BY <1>1, <1>2, PgOpens DEF PgInv, PgFirst, Pg!ReadFails, Pg!Goto
  <2>2. QED
    BY <1>1, <1>2, <2>1 DEF PgInv, Pg!ReadFails
<1>3. ASSUME NEW m, Pg!Reads(m),
             CASE m.type = "E"             -> Pg!Goto("failed")
               [] m.type \notin {"R", "E"} -> Pg!Goto("auth")
               [] m.type = "R" /\ m.code = 0        -> Pg!Goto("settle")
               [] m.type = "R" /\ m.code \in {3, 5} -> Pg!WriteGoto(Pg!M("p"), "auth")
               [] m.type = "R" /\ m.code = 10       -> Pg!WriteGoto(Pg!M("p"), "sasl1")
               [] OTHER                             -> Pg!Goto("failed")
      PROVE  PgInv'
  <2>1. toCli # <<>> /\ m = Head(toCli) /\ toCli' = Tail(toCli)
    BY <1>3 DEF Pg!Reads
  <2>2. /\ cl' \in {"auth", "settle", "sasl1", "failed", "killed"}
        /\ toSrv' = toSrv \/ toSrv' = Append(toSrv, Pg!M("p"))
    BY <1>3 DEF Pg!Goto, Pg!WriteGoto
  <2>3. PgTypes' /\ PgResult'
    BY <1>1, <2>1, <2>2, PgOpens DEF PgInv, PgFirst
  <2>4. ASSUME up PROVE PgTalk'
    <3>1. ASSUME NEW code \in {3, 5, 7, 10}, toCli = <<Pg!R(code)>>
          PROVE  PgTalk'
      <4>1. m.type = "R" /\ m.code = code /\ toCli' = <<>>
        BY <2>1, <3>1 DEF Pg!R
      <4>2. toSrv = <<>> /\ srv = IF code = 10 THEN "sasl" ELSE "password"
        <5>1. PgTalk
          BY <2>4 DEF PgInv
        <5>2. QED
          BY <1>1, <3>1, <5>1 DEF PgTalk, Talk, Pg!R, Pg!M, Welcome1, Welcome2, Welcome3, Pg!Welcome
      <4>3. CASE code \in {3, 5}
        <5>1. cl' = "auth" /\ toSrv' = <<Pg!M("p")>> /\ srv' = "password"
          BY <1>1, <1>3, <2>4, <4>1, <4>2, <4>3 DEF Pg!WriteGoto
        <5>2. QED
          BY <4>1, <5>1 DEF PgTalk, Talk
      <4>4. CASE code = 10
        <5>1. cl' = "sasl1" /\ toSrv' = <<Pg!M("p")>> /\ srv' = "sasl"
          BY <1>1, <1>3, <2>4, <4>1, <4>2, <4>4 DEF Pg!WriteGoto
        <5>2. QED
          BY <4>1, <5>1 DEF PgTalk, Talk
      <4>5. CASE code = 7
        <5>1. cl' = "failed" /\ toSrv' = <<>>
          BY <1>3, <4>1, <4>2, <4>5 DEF Pg!Goto
        <5>2. QED
          BY <5>1 DEF PgTalk
      <4>6. QED
        BY <4>3, <4>4, <4>5
    <3>2. ASSUME NEW w \in {Welcome1, Welcome2, Welcome3}, Talk("ready", <<>>, w)
          PROVE  PgTalk'
      <4>1. m.type \notin {"R", "E"} /\ toCli' \in {Welcome2, Welcome3, <<>>}
        BY <2>1, <3>2, Welcomes DEF Talk, Pg!M
      <4>2. cl' = "auth" /\ toSrv' = <<>> /\ srv' = "ready"
        BY <1>1, <1>3, <3>2, <4>1 DEF Pg!Goto, Talk
      <4>3. QED
        BY <4>1, <4>2 DEF PgTalk, Talk
    <3>3. CASE Talk("ready", <<>>, Pg!Welcome)
      <4>1. m.type = "R" /\ m.code = 0 /\ toCli' = Welcome1
        BY <2>1, <3>3 DEF Talk, Pg!R, Welcome1, Pg!Welcome
      <4>2. cl' = "settle" /\ toSrv' = <<>> /\ srv' = "ready"
        BY <1>1, <1>3, <3>3, <4>1 DEF Pg!Goto, Talk
      <4>3. QED
        BY <4>1, <4>2 DEF PgTalk, Talk
    <3>4. PgTalk
      BY <2>4 DEF PgInv
    <3>5. QED
      BY <1>1, <2>1, <3>1, <3>2, <3>3, <3>4 DEF PgTalk, Talk
  <2>5. QED
    BY <1>1, <2>3, <2>4 DEF PgInv
<1>4. QED
  BY <1>2, <1>3 DEF Pg!AuthRead

LEMMA PgSaslRead == PgInv /\ Pg!SaslRead => PgInv'
<1> SUFFICES ASSUME PgInv, Pg!SaslRead PROVE PgInv'
  OBVIOUS
<1>1. /\ cl \in {"sasl1", "sasl2", "sasl3"}
      /\ UNCHANGED <<q, rows, errout, produced, outcome, method, valid, up, srv>>
  BY DEF Pg!SaslRead, Pg!server
<1>2. CASE Pg!ReadFails /\ Pg!Goto("failed")
  <2>1. PgTypes' /\ PgResult'
    BY <1>1, <1>2, PgOpens DEF PgInv, PgFirst, Pg!ReadFails, Pg!Goto
  <2>2. QED
    BY <1>1, <1>2, <2>1 DEF PgInv, Pg!ReadFails
<1>3. ASSUME NEW m, Pg!Reads(m),
             CASE cl = "sasl1" /\ m = Pg!R(11) -> Pg!WriteGoto(Pg!M("p"), "sasl2")
               [] cl = "sasl2" /\ m = Pg!R(12) -> Pg!Goto("sasl3")
               [] cl = "sasl2" /\ m = Pg!R(0)  -> Pg!Goto("auth")
               [] cl = "sasl3" /\ m = Pg!R(0)  -> Pg!Goto("auth")
               [] OTHER                     -> Pg!Goto("failed")
      PROVE  PgInv'
  <2>1. toCli # <<>> /\ m = Head(toCli) /\ toCli' = Tail(toCli)
    BY <1>3 DEF Pg!Reads
  <2>2. /\ cl' \in {"auth", "sasl2", "sasl3", "failed", "killed"}
        /\ toSrv' = toSrv \/ toSrv' = Append(toSrv, Pg!M("p"))
    BY <1>3 DEF Pg!Goto, Pg!WriteGoto
  <2>3. PgTypes' /\ PgResult'
    BY <1>1, <2>1, <2>2, PgOpens DEF PgInv, PgFirst
  <2>4. ASSUME up PROVE PgTalk'
    <3> PgTalk
      BY <2>4 DEF PgInv
    <3>1. CASE cl = "sasl1"
      <4>1. srv = "proof" /\ toSrv = <<>> /\ m = Pg!R(11) /\ toCli' = <<>>
        <5>1. \/ srv = "sasl" /\ toCli = <<>>
              \/ srv = "proof" /\ toSrv = <<>> /\ toCli = <<Pg!R(11)>>
          BY <3>1 DEF PgTalk, Talk
        <5>2. QED
          BY <2>1, <5>1, OneMessage
      <4>2. cl' = "sasl2" /\ toSrv' = <<Pg!M("p")>>
        BY <1>3, <2>4, <3>1, <4>1 DEF Pg!WriteGoto
      <4>3. QED
        BY <1>1, <4>1, <4>2 DEF PgTalk, Talk
    <3>2. CASE cl = "sasl2"
      <4>1. srv = "ready" /\ toSrv = <<>> /\ m = Pg!R(12) /\ toCli' = Pg!Welcome
        BY <2>1, <3>2, ProofThenWelcome DEF PgTalk, Talk
      <4>2. cl' = "sasl3" /\ toSrv' = <<>>
        <5>1. m # Pg!R(0) /\ m # Pg!R(11)
          BY <4>1 DEF Pg!R
        <5>2. QED
          BY <1>3, <3>2, <4>1, <5>1 DEF Pg!Goto
      <4>3. QED
        BY <1>1, <4>1, <4>2 DEF PgTalk, Talk
    <3>3. CASE cl = "sasl3"
      <4>1. srv = "ready" /\ toSrv = <<>> /\ m = Pg!R(0) /\ toCli' = Welcome1
        BY <2>1, <3>3, Welcomes DEF PgTalk, Talk
      <4>2. cl' = "auth" /\ toSrv' = <<>>
        BY <1>3, <3>3, <4>1 DEF Pg!Goto
      <4>3. QED
        BY <1>1, <4>1, <4>2 DEF PgTalk, Talk
    <3>4. QED
      BY <1>1, <3>1, <3>2, <3>3
  <2>5. QED
    BY <1>1, <2>3, <2>4 DEF PgInv
<1>4. QED
  BY <1>2, <1>3 DEF Pg!SaslRead

LEMMA PgSettleRead == PgInv /\ Pg!SettleRead => PgInv'
<1> SUFFICES ASSUME PgInv, Pg!SettleRead PROVE PgInv'
  OBVIOUS
<1>1. cl = "settle" /\ UNCHANGED <<q, rows, errout, produced, outcome, method, valid, up, srv>>
  BY DEF Pg!SettleRead, Pg!server
<1>2. CASE Pg!ReadFails /\ Pg!Goto("failed")
  <2>1. PgTypes' /\ PgResult'
    BY <1>1, <1>2, PgOpens DEF PgInv, PgFirst, Pg!ReadFails, Pg!Goto
  <2>2. QED
    BY <1>1, <1>2, <2>1 DEF PgInv, Pg!ReadFails
<1>3. ASSUME NEW m, Pg!Reads(m),
             Pg!Goto(CASE m.type = "E" -> "failed"
                       [] m.type = "Z" -> "idle"
                       [] OTHER        -> cl)
      PROVE  PgInv'
  <2>1. toCli # <<>> /\ m = Head(toCli) /\ toCli' = Tail(toCli) /\ toSrv' = toSrv
    BY <1>3 DEF Pg!Reads, Pg!Goto
  <2>2. /\ m.type = "E" => cl' = "failed"
        /\ m.type = "Z" => cl' = "idle"
        /\ m.type \notin {"E", "Z"} => cl' = "settle"
    BY <1>1, <1>3 DEF Pg!Goto
  <2>3. m.type = "Z" => toCli' = <<>>
    <3>1. IsSeq(toCli) /\ ReadyLast
      BY DEF PgInv, PgTypes, Shapes
    <3>2. QED
      BY <2>1, <3>1, TailIs, SeqShape DEF ReadyLast
  <2>4. PgTypes' /\ PgResult'
    BY <1>1, <2>1, <2>2, <2>3, PgOpens DEF PgInv, PgFirst
  <2>5. ASSUME up PROVE PgTalk'
    <3>1. srv = "ready" /\ toSrv = <<>> /\ toCli \in {Welcome1, Welcome2, Welcome3}
      BY <1>1, <2>5 DEF PgInv, PgTalk, Talk
    <3>2. CASE toCli \in {Welcome1, Welcome2}
      <4>1. m.type \in {"S", "K"} /\ toCli' \in {Welcome2, Welcome3}
        BY <2>1, <3>2, Welcomes DEF Pg!M
      <4>2. QED
        BY <1>1, <2>1, <2>2, <3>1, <4>1 DEF PgTalk, Talk
    <3>3. CASE toCli = Welcome3
      <4>1. m.type = "Z" /\ toCli' = <<>>
        BY <2>1, <3>3 DEF Pg!M, Welcome3
      <4>2. QED
        BY <1>1, <2>1, <2>2, <3>1, <4>1 DEF PgTalk, Talk
    <3>4. QED
      BY <3>1, <3>2, <3>3
  <2>6. QED
    BY <1>1, <2>4, <2>5 DEF PgInv
<1>4. QED
  BY <1>2, <1>3 DEF Pg!SettleRead

(* Requests, and the end of the connection. *)
LEMMA PgQuery == PgInv /\ Pg!Query => PgInv'
<1> SUFFICES ASSUME PgInv, Pg!Query PROVE PgInv'
  OBVIOUS
<1>1. /\ cl = "idle" /\ q' = q + 1 /\ rows' = <<>> /\ errout' = FALSE /\ outcome' = "none"
      /\ UNCHANGED <<sock, srv, method, valid, produced, toCli, up>>
  BY DEF Pg!Query, Pg!Begin
<1>2. \/ /\ cl' = "query"
         /\ toSrv' = IF up THEN Append(toSrv, [type |-> "Q", id |-> q']) ELSE toSrv
      \/ ~up /\ cl' = "killed" /\ toSrv' = toSrv
  BY DEF Pg!Query, Pg!WriteGoto
<1>3. toCli = <<>> /\ Shapes /\ method \in Pg!PgMethods
  BY <1>1 DEF PgInv, PgTypes
<1>4. Shapes'
  <2>1. IsSeq(toSrv)
    BY <1>3 DEF Shapes
  <2>2. IsSeq(toSrv')
    <3>1. CASE toSrv' = toSrv
      BY <2>1, <3>1
    <3>2. CASE toSrv' = Append(toSrv, [type |-> "Q", id |-> q'])
      BY <2>1, <3>2, AppendIs
    <3>3. QED
      BY <1>2, <3>1, <3>2
  <2>3. IsSeq(rows')
    BY <1>1, EmptyIs
  <2>4. q' \in Nat /\ errout' \in BOOLEAN
    <3>1. q \in Nat
      BY <1>3 DEF Shapes
    <3>2. q' \in Nat
      BY <1>1, <3>1
    <3>3. errout' \in BOOLEAN
      BY <1>1
    <3>4. QED
      BY <3>2, <3>3
  <2>5. IsSeq(produced') /\ IsSeq(toCli') /\ up' \in BOOLEAN /\ valid' \in BOOLEAN
    BY <1>1, <1>3 DEF Shapes
  <2>6. QED
    BY <2>2, <2>3, <2>4, <2>5 DEF Shapes
<1>5. PgTypes'
  <2>1. ReadyLast'
    BY <1>1, <1>3 DEF ReadyLast
  <2>2. QED
    BY <1>1, <1>2, <1>3, <1>4, <2>1 DEF PgTypes, PgFirst
<1>6. up' => PgTalk'
  <2> SUFFICES ASSUME up' PROVE PgTalk'
    OBVIOUS
  <2>1. up /\ srv = "ready" /\ toSrv = <<>>
    BY <1>1 DEF PgInv, PgTalk, Talk
  <2>2. cl' = "query" /\ toSrv' = <<[type |-> "Q", id |-> q']>>
    BY <1>2, <2>1
  <2>3. QED
    BY <1>1, <1>3, <2>1, <2>2 DEF PgTalk, Talk
<1>7. PgResult'
  <2>1. Numbered(rows)'
    BY <1>1 DEF Numbered
  <2>2. toCli' = <<>> /\ ~Whole'
    BY <1>1, <1>3 DEF Whole
  <2>3. Counts([i \in {0} |-> 0])'
    BY <1>1, <2>2 DEF Counts
  <2>4. PgAnswer'
    BY <2>2, <2>3 DEF PgAnswer
  <2>5. QED
    BY <1>1, <1>2, <2>1, <2>4 DEF PgResult
<1>8. QED
  BY <1>5, <1>6, <1>7 DEF PgInv

LEMMA PgQueryInvalid == PgInv /\ Pg!QueryInvalid => PgInv'
<1> SUFFICES ASSUME PgInv, Pg!QueryInvalid PROVE PgInv'
  OBVIOUS
<1>1. /\ cl \in {"failed", "closed"} /\ q' = q + 1 /\ rows' = <<>> /\ errout' = TRUE
      /\ outcome' = "none"
      /\ UNCHANGED <<cl, sock, srv, method, valid, produced, toSrv, toCli, up>>
  BY DEF Pg!QueryInvalid, Pg!Begin, Pg!link
<1>2. PgTypes'
  BY <1>1, EmptyIs DEF PgInv, PgTypes, Shapes, PgFirst, ReadyLast
<1>3. up' => PgTalk'
  BY <1>1 DEF PgInv, PgTalk
<1>4. PgResult'
  BY <1>1 DEF PgResult, Numbered
<1>5. QED
  BY <1>2, <1>3, <1>4 DEF PgInv

LEMMA PgClose == PgInv /\ Pg!Close => PgInv'
<1> SUFFICES ASSUME PgInv, Pg!Close PROVE PgInv'
  OBVIOUS
<1>1. cl = "idle" /\ UNCHANGED <<q, rows, errout, srv, method, valid, produced, outcome, toCli>>
  BY DEF Pg!Close, Pg!server
<1>2. \/ /\ cl' = "closed" /\ up' = FALSE /\ sock' = FALSE
         /\ toSrv' = toSrv \/ toSrv' = Append(toSrv, Pg!M("X"))
      \/ cl' = "killed" /\ up' = FALSE /\ toSrv' = toSrv
  BY DEF Pg!Close, Pg!WriteGoto
<1>3. IsSeq(toSrv')
  <2>1. IsSeq(toSrv)
    BY DEF PgInv, PgTypes, Shapes
  <2>2. CASE toSrv' = toSrv
    BY <2>1, <2>2
  <2>3. CASE toSrv' = Append(toSrv, Pg!M("X"))
    BY <2>1, <2>3, AppendIs
  <2>4. QED
    BY <1>2, <2>2, <2>3
<1>4. PgTypes'
  BY <1>1, <1>2, <1>3 DEF PgInv, PgTypes, Shapes, PgFirst, ReadyLast
<1>5. PgResult'
  BY <1>1, <1>2 DEF PgInv, PgResult, Numbered
<1>6. QED
  BY <1>2, <1>4, <1>5 DEF PgInv

-----------------------------------------------------------------------------
(* Reading an answer.  Only its last message is ReadyForQuery, and it stays*)
(* whole until that is read; each row read is the next one.                *)
LEMMA PgTail ==
  ASSUME PgTypes, toCli # <<>>, toCli' = Tail(toCli)
  PROVE  /\ IsSeq(toCli') /\ ReadyLast'
         /\ Head(toCli).type = "Z" => toCli' = <<>> /\ Whole
         /\ Head(toCli).type # "Z" => (Whole' <=> Whole)
<1> DEFINE n == Len(toCli)
<1>1. IsSeq(toCli) /\ ReadyLast
  BY DEF PgTypes, Shapes
<1>2. /\ IsSeq(toCli') /\ n >= 1 /\ Len(toCli') = n - 1
      /\ Head(toCli) = toCli[1]
      /\ \A i \in 1 .. n - 1 : toCli'[i] = toCli[i + 1]
  BY <1>1, TailIs
<1>3. n \in Nat /\ (toCli' = <<>> <=> n = 1)
  BY <1>1, <1>2, SeqShape
<1>4. ReadyLast'
  <2>1. ASSUME NEW i \in 1 .. n - 1, toCli'[i].type = "Z" PROVE i = n - 1
    <3>1. i + 1 \in 1 .. n /\ toCli[i + 1].type = "Z"
      BY <1>2, <1>3, <2>1
    <3>2. i + 1 = n
      BY <1>1, <3>1 DEF ReadyLast
    <3>3. QED
      BY <1>3, <3>2
  <2>2. QED
    BY <1>2, <2>1 DEF ReadyLast
<1>5. ASSUME Head(toCli).type = "Z" PROVE toCli' = <<>> /\ Whole
  <2>1. toCli[1].type = "Z" /\ 1 \in 1 .. n
    BY <1>2, <1>3, <1>5
  <2>2. n = 1
    BY <1>1, <2>1 DEF ReadyLast
  <2>3. QED
    BY <1>3, <2>1, <2>2 DEF Whole
<1>6. ASSUME Head(toCli).type # "Z" PROVE Whole' <=> Whole
  <2>1. CASE n = 1
    <3>1. toCli' = <<>> /\ toCli[n].type # "Z"
      BY <1>2, <1>3, <1>6, <2>1
    <3>2. QED
      BY <3>1 DEF Whole
  <2>2. CASE n > 1
    <3>1. n - 1 \in 1 .. n - 1 /\ (n - 1) + 1 = n
      BY <1>3, <2>2
    <3>2. toCli' # <<>> /\ toCli'[Len(toCli')] = toCli[n]
      BY <1>2, <1>3, <2>2, <3>1
    <3>3. QED
      BY <3>2 DEF Whole
  <2>3. QED
    BY <1>2, <1>3, <2>1, <2>2
<1>7. QED
  BY <1>2, <1>4, <1>5, <1>6

LEMMA PgQueryRead == PgInv /\ Pg!QueryRead => PgInv'
<1> SUFFICES ASSUME PgInv, Pg!QueryRead PROVE PgInv'
  OBVIOUS
<1>1. /\ cl = "query" /\ ~errout /\ PgAnswer /\ Numbered(rows)
      /\ UNCHANGED <<q, sock, srv, method, valid, produced, outcome, toSrv, up>>
  BY DEF PgInv, PgResult, Pg!QueryRead, Pg!server
<1>2. PgTypes /\ Shapes
  BY DEF PgInv, PgTypes
<1>3. CASE Pg!ReadFails /\ cl' = "idle" /\ errout' = TRUE /\ UNCHANGED rows
  <2>1. toCli = <<>> /\ toCli' = <<>> /\ ~up
    BY <1>3 DEF Pg!ReadFails
  <2>2. PgTypes'
    BY <1>1, <1>2, <1>3, <2>1 DEF PgTypes, Shapes, PgFirst, ReadyLast
  <2>3. PgResult'
    BY <1>1, <1>3, <2>1 DEF PgResult, Numbered
  <2>4. QED
    BY <1>1, <2>1, <2>2, <2>3 DEF PgInv
<1>4. ASSUME NEW m, Pg!Reads(m),
             rows' = IF m.type = "D" THEN Append(rows, m.row) ELSE rows,
             errout' = (errout \/ m.type = "E"),
             cl' = CASE m.type = "E" -> "drain"
                     [] m.type = "Z" -> "idle"
                     [] OTHER        -> cl
      PROVE  PgInv'
  <2>1. /\ toCli # <<>> /\ m = Head(toCli) /\ toCli' = Tail(toCli)
        /\ m.type = "E" => cl' = "drain" /\ errout' = TRUE /\ rows' = rows
        /\ m.type = "Z" => cl' = "idle" /\ errout' = FALSE /\ rows' = rows
        /\ m.type \notin {"E", "Z"} => cl' = "query" /\ errout' = FALSE
    BY <1>1, <1>4 DEF Pg!Reads
  <2>2. /\ IsSeq(toCli') /\ ReadyLast'
        /\ m.type = "Z" => toCli' = <<>> /\ Whole
        /\ m.type # "Z" => (Whole' <=> Whole)
    BY <1>2, <2>1, PgTail
  <2>3. /\ Len(toCli) >= 1 /\ Len(toCli') = Len(toCli) - 1 /\ m = toCli[1]
        /\ Len(toCli) \in Nat
        /\ \A i \in 1 .. Len(toCli) - 1 : toCli'[i] = toCli[i + 1]
    BY <1>2, <2>1, TailIs, SeqShape DEF Shapes
  <2>4. IsSeq(rows')
    BY <1>2, <1>4, AppendIs DEF Shapes
  <2>5. PgTypes'
    BY <1>1, <1>2, <2>1, <2>2, <2>4 DEF PgTypes, Shapes, PgFirst
  <2>6. up' => PgTalk'
    <3> SUFFICES ASSUME up' PROVE PgTalk'
      OBVIOUS
    <3>1. srv = "ready" /\ toSrv = <<>> /\ Whole
      BY <1>1, <2>1 DEF PgInv, PgTalk, Talk
    <3>2. QED
      BY <1>1, <2>1, <2>2, <3>1 DEF PgTalk, Talk
  <2>7. PICK c : Counts(c)
    BY <1>1 DEF PgAnswer
  <2>8. CASE m.type = "Z"
    <3>1. Len(toCli) = 1
      BY <2>2, <2>3, <2>8, SeqShape
    <3>2. Len(rows) = Len(produced) /\ outcome = "done" /\ Numbered(produced)
      BY <1>1, <2>2, <2>3, <2>7, <2>8, <3>1 DEF Counts, PgAnswer
    <3>3. rows = produced
      BY <1>1, <1>2, <3>2, SameNumbered DEF Shapes
    <3>4. PgResult'
      BY <1>1, <2>1, <2>8, <3>2, <3>3 DEF PgResult, Numbered
    <3>5. QED
      BY <2>5, <2>6, <3>4 DEF PgInv
  <2>9. CASE m.type = "E"
    <3>1. up => outcome = "failed"
      <4>1. up => Whole
        BY <1>1, <2>1 DEF PgInv, PgTalk, Talk
      <4>2. QED
        BY <1>1, <2>3, <2>9, <4>1 DEF PgAnswer
    <3>2. PgResult'
      BY <1>1, <2>1, <2>9, <3>1 DEF PgResult, Numbered
    <3>3. QED
      BY <2>5, <2>6, <3>2 DEF PgInv
  <2>10. CASE m.type \notin {"E", "Z"}
    <3> PICK d : d = [i \in 0 .. Len(toCli') |-> c[i + 1]]
      OBVIOUS
    <3>1. /\ c \in [0 .. Len(toCli) -> Nat] /\ c[0] = Len(rows)
          /\ IF m.type = "D" THEN c[1] = c[0] + 1 /\ m.row = <<q, c[1]>> ELSE c[1] = c[0]
      <4>1. 1 \in 1 .. Len(toCli) /\ 1 - 1 = 0
        BY <2>3
      <4>2. IF toCli[1].type = "D" THEN c[1] = c[1 - 1] + 1 /\ toCli[1].row = <<q, c[1]>>
                                   ELSE c[1] = c[1 - 1]
        BY <2>7, <4>1 DEF Counts
      <4>3. QED
        BY <2>3, <2>7, <4>1, <4>2 DEF Counts
    <3>2. Len(rows') = c[1] /\ Numbered(rows)'
      <4>1. CASE m.type = "D"
        <5>1. IsSeq(rows) /\ Len(rows) \in Nat
          BY <1>2, SeqShape DEF Shapes
        <5>2. /\ Len(rows') = Len(rows) + 1 /\ rows'[Len(rows) + 1] = <<q, Len(rows) + 1>>
              /\ \A i \in 1 .. Len(rows) : rows'[i] = rows[i]
          BY <1>4, <3>1, <4>1, <5>1, AppendIs
        <5>3. ASSUME NEW i \in 1 .. Len(rows') PROVE rows'[i] = <<q, i>>
          BY <1>1, <5>1, <5>2 DEF Numbered
        <5>4. QED
          BY <1>1, <3>1, <4>1, <5>2, <5>3 DEF Numbered
      <4>2. CASE m.type # "D"
        BY <1>1, <1>4, <3>1, <4>2 DEF Numbered
      <4>3. QED
        BY <4>1, <4>2
    <3>3. Counts(d)'
      <4>1. d \in [0 .. Len(toCli') -> Nat] /\ d[0] = Len(rows')
        BY <2>3, <3>1, <3>2
      <4>2. ASSUME NEW i \in 1 .. Len(toCli')
            PROVE  IF toCli'[i].type = "D"
                     THEN d[i] = d[i - 1] + 1 /\ toCli'[i].row = <<q', d[i]>>
                     ELSE d[i] = d[i - 1]
        <5>1. /\ i + 1 \in 1 .. Len(toCli) /\ toCli'[i] = toCli[i + 1]
              /\ d[i] = c[i + 1] /\ d[i - 1] = c[(i + 1) - 1] /\ q' = q
          BY <1>1, <2>3
        <5>2. QED
          BY <2>7, <5>1 DEF Counts
      <4>3. Whole' => d[Len(toCli')] = Len(produced')
        BY <1>1, <2>2, <2>3, <2>7, <2>10 DEF Counts
      <4>4. QED
        BY <4>1, <4>2, <4>3 DEF Counts
    <3>4. PgAnswer'
      <4>1. (\E i \in 1 .. Len(toCli') : toCli'[i].type = "E")
              <=> \E i \in 1 .. Len(toCli) : toCli[i].type = "E"
        <5>1. ASSUME NEW i \in 1 .. Len(toCli), toCli[i].type = "E"
              PROVE  \E j \in 1 .. Len(toCli') : toCli'[j].type = "E"
          <6>1. i # 1 /\ i - 1 \in 1 .. Len(toCli')
            BY <2>3, <2>10, <5>1
          <6>2. toCli'[i - 1] = toCli[i]
            BY <2>3, <6>1
          <6>3. QED
            BY <5>1, <6>1, <6>2
        <5>2. ASSUME NEW i \in 1 .. Len(toCli'), toCli'[i].type = "E"
              PROVE  \E j \in 1 .. Len(toCli) : toCli[j].type = "E"
          <6>1. i + 1 \in 1 .. Len(toCli) /\ toCli'[i] = toCli[i + 1]
            BY <2>3
          <6>2. QED
            BY <5>2, <6>1
        <5>3. QED
          BY <5>1, <5>2
      <4>2. Numbered(produced)' <=> Numbered(produced)
        BY <1>1 DEF Numbered
      <4>3. QED
        BY <1>1, <2>2, <2>10, <3>3, <4>1, <4>2 DEF PgAnswer
    <3>5. PgResult'
      BY <2>1, <2>10, <3>2, <3>4 DEF PgResult
    <3>6. QED
      BY <2>5, <2>6, <3>5 DEF PgInv
  <2>11. QED
    BY <2>8, <2>9, <2>10
<1>5. QED
  BY <1>3, <1>4 DEF Pg!QueryRead

LEMMA PgDrainRead == PgInv /\ Pg!DrainRead => PgInv'
<1> SUFFICES ASSUME PgInv, Pg!DrainRead PROVE PgInv'
  OBVIOUS
<1>1. /\ cl = "drain" /\ errout /\ (up => outcome = "failed") /\ Numbered(rows)
      /\ UNCHANGED <<q, rows, errout, sock, srv, method, valid, produced, outcome, up>>
  BY DEF PgInv, PgResult, Pg!DrainRead, Pg!server
<1>2. PgTypes /\ Shapes
  BY DEF PgInv, PgTypes
<1>3. CASE Pg!ReadFails /\ Pg!Goto("idle")
  <2>1. toCli = <<>> /\ toCli' = <<>> /\ ~up /\ cl' = "idle" /\ toSrv' = toSrv
    BY <1>3 DEF Pg!ReadFails, Pg!Goto
  <2>2. PgTypes'
    BY <1>1, <1>2, <2>1 DEF PgTypes, Shapes, PgFirst, ReadyLast
  <2>3. PgResult'
    BY <1>1, <2>1 DEF PgResult, Numbered
  <2>4. QED
    BY <1>1, <2>1, <2>2, <2>3 DEF PgInv
<1>4. ASSUME NEW m, Pg!Reads(m), Pg!Goto(IF m.type = "Z" THEN "idle" ELSE cl)
      PROVE  PgInv'
  <2>1. /\ toCli # <<>> /\ m = Head(toCli) /\ toCli' = Tail(toCli) /\ toSrv' = toSrv
        /\ cl' = IF m.type = "Z" THEN "idle" ELSE "drain"
    BY <1>1, <1>4 DEF Pg!Reads, Pg!Goto
  <2>2. /\ IsSeq(toCli') /\ ReadyLast'
        /\ m.type = "Z" => toCli' = <<>>
        /\ m.type # "Z" => (Whole' <=> Whole)
    BY <1>2, <2>1, PgTail
  <2>3. PgTypes'
    BY <1>1, <1>2, <2>1, <2>2 DEF PgTypes, Shapes, PgFirst
  <2>4. up' => PgTalk'
    BY <1>1, <2>1, <2>2 DEF PgInv, PgTalk, Talk
  <2>5. PgResult'
    BY <1>1, <2>1 DEF PgResult, Numbered
  <2>6. QED
    BY <2>3, <2>4, <2>5 DEF PgInv
<1>5. QED
  BY <1>3, <1>4 DEF Pg!DrainRead

-----------------------------------------------------------------------------
(* The server of Postgres hears something only while nothing is on its way *)
(* to the client.                                                          *)
LEMMA PgHears ==
  ASSUME PgTypes, PgTalk, NEW m, Pg!ServerHears(m)
  PROVE  /\ toSrv' = <<>> /\ toCli = <<>>
         /\ \/ cl = "tls" /\ srv = "listen" /\ m = Pg!M("ssl")
            \/ cl = "auth" /\ srv = "listen" /\ m = Pg!M("startup")
            \/ cl = "auth" /\ srv = "password" /\ m = Pg!M("p")
            \/ cl = "sasl1" /\ srv = "sasl" /\ m = Pg!M("p")
            \/ cl = "sasl2" /\ srv = "proof" /\ m = Pg!M("p")
            \/ cl = "query" /\ srv = "ready" /\ rows = <<>> /\ m = [type |-> "Q", id |-> q]
<1>1. toSrv # <<>> /\ m = Head(toSrv) /\ toSrv' = Tail(toSrv)
  BY DEF Pg!ServerHears
<1>2. \/ cl = "tls" /\ Talk("listen", <<Pg!M("ssl")>>, <<>>)
      \/ cl = "auth" /\ Talk("listen", <<Pg!M("startup")>>, <<>>)
      \/ cl = "auth" /\ Talk("password", <<Pg!M("p")>>, <<>>)
      \/ cl = "sasl1" /\ Talk("sasl", <<Pg!M("p")>>, <<>>)
      \/ cl = "sasl2" /\ Talk("proof", <<Pg!M("p")>>, <<>>)
      \/ cl = "query" /\ Talk("ready", <<[type |-> "Q", id |-> q]>>, <<>>) /\ rows = <<>>
  BY <1>1 DEF PgTypes, PgFirst, PgTalk, Talk
<1>3. QED
  BY <1>1, <1>2, OneMessage DEF Talk

(* A step of the server before the first request. *)
LEMMA PgServes ==
  ASSUME PgTypes, PgResult, cl \in PgFirst,
         UNCHANGED <<cl, q, rows, errout, sock, produced, outcome, method, valid>>,
         up' \in BOOLEAN, toSrv' = <<>>, IsSeq(toCli'), ReadyLast'
  PROVE  PgTypes' /\ PgResult'
<1>1. Fresh /\ Fresh'
  BY DEF PgTypes, Fresh
<1>2. IsSeq(toSrv')
  BY EmptyIs
<1>3. PgTypes'
  BY <1>1, <1>2 DEF PgTypes, Shapes, PgFirst
<1>4. PgResult'
  BY <1>1 DEF PgResult, Fresh, Numbered, PgFirst
<1>5. QED
  BY <1>3, <1>4

LEMMA PgAnswerTls == PgInv /\ Pg!AnswerTls => PgInv'
<1> SUFFICES ASSUME PgInv, Pg!AnswerTls PROVE PgInv'
  OBVIOUS
<1>1. PICK type \in {"S", "N"} : toCli' = toCli \o <<Pg!M(type)>>
  BY DEF Pg!AnswerTls, Pg!Answer
<1>2. /\ srv = "listen" /\ srv' = srv /\ Pg!ServerHears(Pg!M("ssl"))
      /\ UNCHANGED <<cl, q, rows, errout, sock, produced, outcome, method, valid, up>>
  BY DEF Pg!AnswerTls, Pg!Answer, Pg!client
<1>3. up /\ PgTalk /\ PgTypes
  BY <1>2 DEF PgInv, Pg!ServerHears
<1>4. cl = "tls" /\ toSrv' = <<>> /\ toCli = <<>>
  BY <1>2, <1>3, PgHears DEF Pg!M
<1>5. toCli' = <<Pg!M(type)>> /\ IsSeq(toCli') /\ Len(toCli') = 1
  BY <1>1, <1>4, OneIs, AfterNothing
<1>6. ReadyLast'
  BY <1>5 DEF ReadyLast
<1>7. PgTypes' /\ PgResult'
  BY <1>2, <1>3, <1>4, <1>5, <1>6, PgServes DEF PgInv, PgTypes, Shapes, PgFirst
<1>8. PgTalk'
  BY <1>2, <1>4, <1>5 DEF PgTalk, Talk
<1>9. QED
  BY <1>7, <1>8 DEF PgInv

LEMMA WelcomeIs ==
  /\ IsSeq(Pg!Welcome) /\ Len(Pg!Welcome) = 4
  /\ \A i \in 1 .. 4 : Pg!Welcome[i].type = "Z" => i = 4
<1>1. Pg!Welcome \in Seq({Pg!R(0), Pg!M("S"), Pg!M("K"), Pg!M("Z")})
  BY DEF Pg!Welcome
<1>2. /\ Len(Pg!Welcome) = 4 /\ Pg!Welcome[1] = Pg!R(0) /\ Pg!Welcome[2] = Pg!M("S")
      /\ Pg!Welcome[3] = Pg!M("K")
  BY DEF Pg!Welcome
<1>3. Pg!Welcome[1].type # "Z" /\ Pg!Welcome[2].type # "Z" /\ Pg!Welcome[3].type # "Z"
  BY <1>2 DEF Pg!R, Pg!M
<1>4. QED
  BY <1>1, <1>2, <1>3, SeqIs

LEMMA ProofThenWelcomeIs ==
  LET s == <<Pg!R(12)>> \o Pg!Welcome
  IN  IsSeq(s) /\ Len(s) = 5 /\ \A i \in 1 .. 5 : s[i].type = "Z" => i = 5
<1> DEFINE s == <<Pg!R(12)>> \o Pg!Welcome
<1>1. /\ IsSeq(s) /\ Len(s) = 1 + 4
      /\ \A i \in 1 .. 1 : s[i] = <<Pg!R(12)>>[i]
      /\ \A i \in 1 + 1 .. 1 + 4 : s[i] = Pg!Welcome[i - 1]
  <2>1. IsSeq(<<Pg!R(12)>>) /\ Len(<<Pg!R(12)>>) = 1
    BY OneIs
  <2>2. IsSeq(Pg!Welcome) /\ Len(Pg!Welcome) = 4
    BY WelcomeIs
  <2>3. /\ IsSeq(s) /\ Len(s) = Len(<<Pg!R(12)>>) + Len(Pg!Welcome)
        /\ \A i \in 1 .. Len(<<Pg!R(12)>>) : s[i] = <<Pg!R(12)>>[i]
        /\ \A i \in Len(<<Pg!R(12)>>) + 1 .. Len(<<Pg!R(12)>>) + Len(Pg!Welcome) :
             s[i] = Pg!Welcome[i - Len(<<Pg!R(12)>>)]
    BY <2>1, <2>2, ConcatIs
  <2>4. QED
    BY <2>1, <2>2, <2>3
<1> HIDE DEF s
<1>2. s[1].type # "Z"
  BY <1>1, OneIs DEF Pg!R
<1>3. ASSUME NEW i \in 2 .. 5, s[i].type = "Z" PROVE i = 5
  <2>1. i - 1 \in 1 .. 4 /\ Pg!Welcome[i - 1].type = "Z"
    BY <1>1, <1>3
  <2>2. i - 1 = 4
    BY <2>1, WelcomeIs
  <2>3. QED
    BY <2>2
<1>4. IsSeq(s) /\ Len(s) = 5 /\ \A i \in 1 .. 5 : s[i].type = "Z" => i = 5
  BY <1>1, <1>2, <1>3
<1>5. QED
  BY <1>4 DEF s

LEMMA PgStartup == PgInv /\ Pg!Startup => PgInv'
<1> SUFFICES ASSUME PgInv, Pg!Startup PROVE PgInv'
  OBVIOUS
<1>1. /\ srv = "listen" /\ Pg!ServerHears(Pg!M("startup")) /\ method \in Pg!PgMethods
      /\ UNCHANGED <<cl, q, rows, errout, sock, produced, outcome, method, valid, up>>
  BY DEF Pg!Startup, Pg!client, PgInv, PgTypes
<1>2. up /\ PgTalk /\ PgTypes
  BY <1>1 DEF PgInv, Pg!ServerHears
<1>3. cl = "auth" /\ toSrv' = <<>> /\ toCli = <<>>
  BY <1>1, <1>2, PgHears DEF Pg!M
<1>4. \/ srv' = "ready" /\ toCli' = toCli \o Pg!Welcome
      \/ srv' = "password" /\ \E code \in {3, 5, 7} : toCli' = toCli \o <<Pg!R(code)>>
      \/ srv' = "sasl" /\ toCli' = toCli \o <<Pg!R(10)>>
  BY <1>1 DEF Pg!Startup, Pg!Answer, Pg!PgMethods
<1>5. \/ srv' = "ready" /\ toCli' = Pg!Welcome
      \/ srv' = "password" /\ \E code \in {3, 5, 7} : toCli' = <<Pg!R(code)>>
      \/ srv' = "sasl" /\ toCli' = <<Pg!R(10)>>
  BY <1>3, <1>4, OneIs, WelcomeIs, AfterNothing
<1>6. IsSeq(toCli') /\ ReadyLast'
  <2>1. CASE toCli' = Pg!Welcome
    BY <2>1, WelcomeIs DEF ReadyLast
  <2>2. ASSUME NEW code, toCli' = <<Pg!R(code)>> PROVE IsSeq(toCli') /\ ReadyLast'
    BY <2>2, OneIs DEF ReadyLast
  <2>3. QED
    BY <1>5, <2>1, <2>2
<1>7. PgTypes' /\ PgResult'
  BY <1>1, <1>2, <1>3, <1>6, PgServes DEF PgInv, PgTypes, Shapes, PgFirst
<1>8. PgTalk'
  BY <1>1, <1>3, <1>5 DEF PgTalk, Talk
<1>9. QED
  BY <1>7, <1>8 DEF PgInv

LEMMA PgCheckPassword == PgInv /\ Pg!CheckPassword => PgInv'
<1> SUFFICES ASSUME PgInv, Pg!CheckPassword PROVE PgInv'
  OBVIOUS
<1>1. /\ srv \in {"password", "sasl", "proof"} /\ Pg!ServerHears(Pg!M("p"))
      /\ UNCHANGED <<cl, q, rows, errout, sock, produced, outcome, method, valid>>
  BY DEF Pg!CheckPassword, Pg!client
<1>2. up /\ PgTalk /\ PgTypes /\ valid \in BOOLEAN
  BY <1>1 DEF PgInv, PgTypes, Shapes, Pg!ServerHears
<1>3. /\ toSrv' = <<>> /\ toCli = <<>>
      /\ \/ cl = "auth" /\ srv = "password"
         \/ cl = "sasl1" /\ srv = "sasl"
         \/ cl = "sasl2" /\ srv = "proof"
  BY <1>1, <1>2, PgHears
<1>4. \/ up' = FALSE /\ toCli' = toCli \o <<Pg!M("E")>>
      \/ srv = "sasl" /\ up' = up /\ srv' = "proof" /\ toCli' = toCli \o <<Pg!R(11)>>
      \/ srv = "password" /\ up' = up /\ srv' = "ready" /\ toCli' = toCli \o Pg!Welcome
      \/ /\ srv = "proof" /\ up' = up /\ srv' = "ready"
         /\ toCli' = toCli \o (<<Pg!R(12)>> \o Pg!Welcome)
  BY <1>1, <1>2 DEF Pg!CheckPassword, Pg!Answer, Pg!Refuse
<1>5. \/ up' = FALSE /\ toCli' = <<Pg!M("E")>>
      \/ cl = "sasl1" /\ up' /\ srv' = "proof" /\ toCli' = <<Pg!R(11)>>
      \/ cl = "auth" /\ up' /\ srv' = "ready" /\ toCli' = Pg!Welcome
      \/ cl = "sasl2" /\ up' /\ srv' = "ready" /\ toCli' = <<Pg!R(12)>> \o Pg!Welcome
  BY <1>2, <1>3, <1>4, OneIs, WelcomeIs, ProofThenWelcomeIs, AfterNothing
<1>6. IsSeq(toCli') /\ ReadyLast' /\ up' \in BOOLEAN
  <2>1. ASSUME toCli' = Pg!Welcome PROVE IsSeq(toCli') /\ ReadyLast'
    BY <2>1, WelcomeIs DEF ReadyLast
  <2>2. ASSUME NEW m, toCli' = <<m>> PROVE IsSeq(toCli') /\ ReadyLast'
    BY <2>2, OneIs DEF ReadyLast
  <2>3. ASSUME toCli' = <<Pg!R(12)>> \o Pg!Welcome PROVE IsSeq(toCli') /\ ReadyLast'
    BY <2>3, ProofThenWelcomeIs DEF ReadyLast
  <2>4. up' \in BOOLEAN
    BY <1>5
  <2>5. IsSeq(toCli') /\ ReadyLast'
    BY <1>5, <2>1, <2>2, <2>3
  <2>6. QED
    BY <2>4, <2>5
<1>7. PgTypes' /\ PgResult'
  BY <1>1, <1>2, <1>3, <1>6, PgServes DEF PgInv, PgFirst
<1>8. up' => PgTalk'
  BY <1>1, <1>3, <1>5 DEF PgTalk, Talk
<1>9. QED
  BY <1>7, <1>8 DEF PgInv

-----------------------------------------------------------------------------
(* A part of an answer: it takes the rows of request id from a to b, and   *)
(* there is an error in it if e.                                           *)
Part(id, s, a, b, e) ==
  /\ IsSeq(s)
  /\ e <=> \E i \in 1 .. Len(s) : s[i].type = "E"
  /\ \E c \in [0 .. Len(s) -> Nat] :
       /\ c[0] = a /\ c[Len(s)] = b
       /\ \A i \in 1 .. Len(s) :
            IF s[i].type = "D" THEN c[i] = c[i - 1] + 1 /\ s[i].row = <<id, c[i]>>
                               ELSE c[i] = c[i - 1]

NotReady(s) == \A i \in 1 .. Len(s) : s[i].type # "Z"

LEMMA PartOne ==
  ASSUME NEW id, NEW m, m.type # "D", NEW a \in Nat, NEW e \in BOOLEAN, e <=> m.type = "E"
  PROVE  /\ Part(id, <<m>>, a, a, e)
         /\ m.type # "Z" => NotReady(<<m>>)
<1> DEFINE s == <<m>>
<1>1. IsSeq(s) /\ Len(s) = 1 /\ s[1] = m
  BY OneIs
<1> HIDE DEF s
<1>2. PICK c : c = [i \in 0 .. 1 |-> a]
  OBVIOUS
<1>3. c \in [0 .. 1 -> Nat] /\ c[0] = a /\ c[1] = a /\ c[1 - 1] = a
  BY <1>2
<1>4. \A i \in 1 .. Len(s) : i = 1 /\ s[i] = m
  BY <1>1
<1>5. Part(id, s, a, a, e) /\ (m.type # "Z" => NotReady(s))
  BY <1>1, <1>3, <1>4 DEF Part, NotReady
<1>6. QED
  BY <1>5 DEF s

LEMMA PartRows ==
  ASSUME NEW id, NEW s, NEW a \in Nat, IsSeq(s), \A i \in 1 .. Len(s) : s[i] = Pg!D(id, a + i)
  PROVE  Part(id, s, a, a + Len(s), FALSE) /\ NotReady(s)
<1>1. Len(s) \in Nat
  BY SeqShape
<1>2. PICK c : c = [i \in 0 .. Len(s) |-> a + i]
  OBVIOUS
<1>3. c \in [0 .. Len(s) -> Nat] /\ c[0] = a /\ c[Len(s)] = a + Len(s)
  BY <1>1, <1>2
<1>4. ASSUME NEW i \in 1 .. Len(s)
      PROVE  s[i].type = "D" /\ s[i].row = <<id, c[i]>> /\ c[i] = c[i - 1] + 1
  <2>1. c[i] = a + i /\ c[i - 1] = a + (i - 1)
    BY <1>1, <1>2
  <2>2. s[i].type = "D" /\ s[i].row = <<id, a + i>>
    <3>1. s[i] = Pg!D(id, a + i)
      OBVIOUS
    <3>2. Pg!D(id, a + i).type = "D" /\ Pg!D(id, a + i).row = <<id, a + i>>
      BY DEF Pg!D
    <3>3. QED
      BY <3>1, <3>2
  <2>3. a + i = (a + (i - 1)) + 1
    BY <1>1
  <2>4. QED
    BY <2>1, <2>2, <2>3
<1>5. QED
  BY <1>3, <1>4 DEF Part, NotReady

LEMMA PartsJoin ==
  ASSUME NEW id, NEW s, NEW t, NEW a, NEW b, NEW d, NEW e \in BOOLEAN, NEW f \in BOOLEAN,
         NEW g \in BOOLEAN, g <=> e \/ f, Part(id, s, a, b, e), Part(id, t, b, d, f)
  PROVE  /\ Part(id, s \o t, a, d, g)
         /\ NotReady(s) /\ NotReady(t) => NotReady(s \o t)
<1> DEFINE u == s \o t
           n == Len(s)
           k == Len(t)
<1>1. IsSeq(s) /\ IsSeq(t) /\ n \in Nat /\ k \in Nat
  BY SeqShape DEF Part
<1>2. /\ IsSeq(u) /\ Len(u) = n + k
      /\ \A i \in 1 .. n : u[i] = s[i]
      /\ \A i \in n + 1 .. n + k : u[i] = t[i - n]
  BY <1>1, ConcatIs
<1> HIDE DEF u
<1>3. PICK cs \in [0 .. n -> Nat] :
        /\ cs[0] = a /\ cs[n] = b
        /\ \A i \in 1 .. n :
             IF s[i].type = "D" THEN cs[i] = cs[i - 1] + 1 /\ s[i].row = <<id, cs[i]>>
                                ELSE cs[i] = cs[i - 1]
  BY DEF Part
<1>4. PICK ct \in [0 .. k -> Nat] :
        /\ ct[0] = b /\ ct[k] = d
        /\ \A i \in 1 .. k :
             IF t[i].type = "D" THEN ct[i] = ct[i - 1] + 1 /\ t[i].row = <<id, ct[i]>>
                                ELSE ct[i] = ct[i - 1]
  BY DEF Part
<1> HIDE DEF n, k
<1>5. PICK c : c = [i \in 0 .. n + k |-> IF i <= n THEN cs[i] ELSE ct[i - n]]
  OBVIOUS
<1>6. /\ c \in [0 .. n + k -> Nat] /\ \A i \in 0 .. n : c[i] = cs[i]
      /\ \A i \in n .. n + k : c[i] = ct[i - n]
  <2>1. ASSUME NEW i \in 0 .. n + k PROVE c[i] \in Nat
    <3>1. CASE i <= n
      <4>1. i \in 0 .. n /\ c[i] = cs[i]
        BY <1>1, <1>5, <2>1, <3>1
      <4>2. QED
        BY <1>3, <4>1
    <3>2. CASE ~(i <= n)
      <4>1. i - n \in 0 .. k /\ c[i] = ct[i - n]
        BY <1>1, <1>5, <2>1, <3>2
      <4>2. QED
        BY <1>4, <4>1
    <3>3. QED
      BY <3>1, <3>2
  <2>2. ASSUME NEW i \in 0 .. n PROVE c[i] = cs[i]
    BY <1>1, <1>5, <2>2
  <2>3. ASSUME NEW i \in n .. n + k PROVE c[i] = ct[i - n]
    <3>1. CASE i = n
      BY <1>1, <1>3, <1>4, <1>5, <3>1
    <3>2. CASE i > n
      BY <1>1, <1>5, <2>3, <3>2
    <3>3. QED
      BY <1>1, <2>3, <3>1, <3>2
  <2>4. QED
    BY <1>5, <2>1, <2>2, <2>3
<1>7. c[0] = a /\ c[n + k] = d
  BY <1>1, <1>3, <1>4, <1>6
<1>8. ASSUME NEW i \in 1 .. n + k
      PROVE  /\ NotReady(s) /\ NotReady(t) => u[i].type # "Z"
             /\ IF u[i].type = "D" THEN c[i] = c[i - 1] + 1 /\ u[i].row = <<id, c[i]>>
                                   ELSE c[i] = c[i - 1]
  <2>1. CASE i <= n
    <3>1. i \in 1 .. n /\ i \in 0 .. n /\ i - 1 \in 0 .. n
      BY <1>1, <1>8, <2>1
    <3>2. /\ u[i] = s[i] /\ c[i] = cs[i] /\ c[i - 1] = cs[i - 1]
          /\ NotReady(s) => s[i].type # "Z"
      BY <1>2, <1>6, <3>1 DEF NotReady, n
    <3>3. QED
      BY <1>3, <3>1, <3>2
  <2>2. CASE i > n
    <3>1. /\ i \in n + 1 .. n + k /\ i \in n .. n + k /\ i - 1 \in n .. n + k
          /\ i - n \in 1 .. k /\ (i - 1) - n = (i - n) - 1
      BY <1>1, <1>8, <2>2
    <3>2. /\ u[i] = t[i - n] /\ c[i] = ct[i - n] /\ c[i - 1] = ct[(i - n) - 1]
          /\ NotReady(t) => t[i - n].type # "Z"
      BY <1>2, <1>6, <3>1 DEF NotReady, k
    <3>3. QED
      BY <1>4, <3>1, <3>2
  <2>3. QED
    BY <1>1, <1>8, <2>1, <2>2
<1>9. g <=> \E i \in 1 .. n + k : u[i].type = "E"
  <2>1. ASSUME NEW i \in 1 .. n, s[i].type = "E" PROVE \E j \in 1 .. n + k : u[j].type = "E"
    <3>1. i \in 1 .. n + k /\ u[i] = s[i]
      BY <1>1, <1>2
    <3>2. QED
      BY <2>1, <3>1
  <2>2. ASSUME NEW i \in 1 .. k, t[i].type = "E" PROVE \E j \in 1 .. n + k : u[j].type = "E"
    <3>1. n + i \in 1 .. n + k /\ n + i \in n + 1 .. n + k /\ (n + i) - n = i
      BY <1>1
    <3>2. u[n + i] = t[i]
      BY <1>2, <3>1
    <3>3. QED
      BY <2>2, <3>1, <3>2
  <2>3. ASSUME NEW i \in 1 .. n + k, u[i].type = "E"
        PROVE  \/ \E j \in 1 .. n : s[j].type = "E"
               \/ \E j \in 1 .. k : t[j].type = "E"
    <3>1. CASE i <= n
      <4>1. i \in 1 .. n /\ u[i] = s[i]
        BY <1>1, <1>2, <3>1
      <4>2. QED
        BY <2>3, <4>1
    <3>2. CASE i > n
      <4>1. i \in n + 1 .. n + k /\ i - n \in 1 .. k
        BY <1>1, <3>2
      <4>2. u[i] = t[i - n]
        BY <1>2, <4>1
      <4>3. QED
        BY <2>3, <4>1, <4>2
    <3>3. QED
      BY <1>1, <3>1, <3>2
  <2>4. /\ e <=> \E i \in 1 .. n : s[i].type = "E"
        /\ f <=> \E i \in 1 .. k : t[i].type = "E"
    BY DEF Part, n, k
  <2>5. QED
    BY <2>1, <2>2, <2>3, <2>4
<1>10. /\ Part(id, u, a, d, g)
       /\ NotReady(s) /\ NotReady(t) => NotReady(u)
  <2>1. /\ c \in [0 .. Len(u) -> Nat] /\ c[0] = a /\ c[Len(u)] = d
        /\ \A i \in 1 .. Len(u) :
             IF u[i].type = "D" THEN c[i] = c[i - 1] + 1 /\ u[i].row = <<id, c[i]>>
                                ELSE c[i] = c[i - 1]
    BY <1>2, <1>6, <1>7, <1>8
  <2>2. NotReady(s) /\ NotReady(t) => NotReady(u)
    BY <1>2, <1>8 DEF NotReady
  <2>3. g <=> \E i \in 1 .. Len(u) : u[i].type = "E"
    BY <1>2, <1>9
  <2>4. QED
    BY <1>2, <2>1, <2>2, <2>3 DEF Part
<1>11. QED
  BY <1>10 DEF u
LEMMA ReadyAfter ==
  ASSUME NEW id, NEW s, NEW n \in Nat, NEW e \in BOOLEAN, Part(id, s, 0, n, e), NotReady(s),
         NEW u, u = s \o <<Pg!M("Z")>>
  PROVE  /\ Part(id, u, 0, n, e)
         /\ \A i \in 1 .. Len(u) : u[i].type = "Z" => i = Len(u)
         /\ u # <<>> /\ u[Len(u)].type = "Z"
<1> DEFINE z == <<Pg!M("Z")>>
<1>1. Part(id, z, n, n, FALSE)
  <2>1. Pg!M("Z").type = "Z"
    BY DEF Pg!M
  <2>2. QED
    BY <2>1, PartOne
<1>2. IsSeq(s) /\ IsSeq(z) /\ Len(z) = 1 /\ z[1] = Pg!M("Z") /\ Len(s) \in Nat
  BY OneIs, SeqShape DEF Part
<1> HIDE DEF z
<1>3. Part(id, u, 0, n, e)
  BY <1>1, PartsJoin DEF z
<1>4. /\ IsSeq(u) /\ Len(u) = Len(s) + 1
      /\ \A i \in 1 .. Len(s) : u[i] = s[i]
      /\ u[Len(s) + 1] = z[1]
  <2>1. /\ IsSeq(s \o z) /\ Len(s \o z) = Len(s) + Len(z)
        /\ \A i \in 1 .. Len(s) : (s \o z)[i] = s[i]
        /\ \A i \in Len(s) + 1 .. Len(s) + Len(z) : (s \o z)[i] = z[i - Len(s)]
    BY <1>2, ConcatIs
  <2>2. u = s \o z
    BY DEF z
  <2>3. Len(s) + 1 \in Len(s) + 1 .. Len(s) + 1 /\ (Len(s) + 1) - Len(s) = 1
    BY <1>2
  <2>4. QED
    BY <1>2, <2>1, <2>2, <2>3
<1>5. u # <<>> /\ u[Len(u)].type = "Z"
  BY <1>2, <1>4, SeqShape DEF Pg!M
<1>6. \A i \in 1 .. Len(u) : u[i].type = "Z" => i = Len(u)
  BY <1>2, <1>4 DEF NotReady
<1>7. QED
  BY <1>3, <1>5, <1>6

(* The answers of Execute to request id, without the last message. *)
LEMMA PartEnd ==
  ASSUME NEW id, NEW n \in Nat,
         NEW end \in {<<Pg!M("C")>>, <<Pg!M("E")>>, <<Pg!M("E"), Pg!M("N")>>}
  PROVE  Part(id, end, n, n, end # <<Pg!M("C")>>) /\ NotReady(end)
<1>1. Pg!M("C").type = "C" /\ Pg!M("E").type = "E" /\ Pg!M("N").type = "N"
  BY DEF Pg!M
<1>2. CASE end = <<Pg!M("C")>>
  BY <1>1, <1>2, PartOne
<1>3. Part(id, <<Pg!M("E")>>, n, n, TRUE) /\ NotReady(<<Pg!M("E")>>)
  BY <1>1, PartOne
<1>4. CASE end = <<Pg!M("E")>>
  <2>1. end # <<Pg!M("C")>>
    BY <1>1, <1>4
  <2>2. QED
    BY <1>3, <1>4, <2>1
<1>5. CASE end = <<Pg!M("E"), Pg!M("N")>>
  <2>1. end # <<Pg!M("C")>> /\ end = <<Pg!M("E")>> \o <<Pg!M("N")>>
    BY <1>5
  <2>2. Part(id, <<Pg!M("N")>>, n, n, FALSE) /\ NotReady(<<Pg!M("N")>>)
    BY <1>1, PartOne
  <2>3. Part(id, end, n, n, TRUE) /\ NotReady(end)
    BY <1>3, <2>1, <2>2, PartsJoin
  <2>4. QED
    BY <2>1, <2>3
<1>6. QED
  BY <1>2, <1>4, <1>5

LEMMA PartHead ==
  ASSUME NEW id, NEW a \in Nat
  PROVE  /\ Part(id, <<Pg!M("T")>>, a, a, FALSE) /\ NotReady(<<Pg!M("T")>>)
         /\ Part(id, <<Pg!M("C"), Pg!M("T")>>, a, a, FALSE) /\ NotReady(<<Pg!M("C"), Pg!M("T")>>)
<1>1. Pg!M("C").type = "C" /\ Pg!M("T").type = "T"
  BY DEF Pg!M
<1>2. /\ Part(id, <<Pg!M("T")>>, a, a, FALSE) /\ NotReady(<<Pg!M("T")>>)
      /\ Part(id, <<Pg!M("C")>>, a, a, FALSE) /\ NotReady(<<Pg!M("C")>>)
  BY <1>1, PartOne
<1>3. <<Pg!M("C"), Pg!M("T")>> = <<Pg!M("C")>> \o <<Pg!M("T")>>
  OBVIOUS
<1>4. /\ Part(id, <<Pg!M("C"), Pg!M("T")>>, a, a, FALSE)
      /\ NotReady(<<Pg!M("C"), Pg!M("T")>>)
  BY <1>2, <1>3, PartsJoin
<1>5. QED
  BY <1>2, <1>4

LEMMA PartData ==
  ASSUME NEW id, NEW n \in Nat, NEW k \in 0 .. n,
         NEW data, IsSeq(data), Len(data) = n, \A i \in 1 .. n : data[i] = Pg!D(id, i)
  PROVE  /\ Part(id, data, 0, n, FALSE) /\ NotReady(data)
         /\ Part(id, SubSeq(data, 1, k), 0, k, FALSE) /\ NotReady(SubSeq(data, 1, k))
         /\ Part(id, SubSeq(data, k + 1, n), k, n, FALSE) /\ NotReady(SubSeq(data, k + 1, n))
<1> PICK s : s = SubSeq(data, 1, k)
  OBVIOUS
<1> PICK t : t = SubSeq(data, k + 1, n)
  OBVIOUS
<1>1. IsSeq(data) /\ Len(data) = n /\ \A i \in 1 .. n : data[i] = Pg!D(id, i)
  OBVIOUS
<1>2. IsSeq(s) /\ Len(s) = k /\ \A i \in 1 .. k : s[i] = data[i]
  BY <1>1, PrefixIs
<1>3. IsSeq(t) /\ Len(t) = n - k /\ \A i \in 1 .. n - k : t[i] = data[k + i]
  <2>1. n - k \in Nat
    OBVIOUS
  <2>2. t = [i \in 1 .. n - k |-> data[k + i]]
    OBVIOUS
  <2>3. IsSeq(t) /\ Len(t) = n - k
    BY <2>1, <2>2, FunctionIs
  <2>4. QED
    BY <2>2, <2>3
<1>6. Part(id, data, 0, n, FALSE) /\ NotReady(data)
  <2>1. \A i \in 1 .. Len(data) : data[i] = Pg!D(id, 0 + i)
    BY <1>1
  <2>2. 0 + Len(data) = n
    BY <1>1
  <2>3. 0 \in Nat
    OBVIOUS
  <2>4. Part(id, data, 0, 0 + Len(data), FALSE) /\ NotReady(data)
    BY <1>1, <2>1, <2>3, PartRows, Zenon
  <2>5. QED
    BY <2>2, <2>4
<1>7. Part(id, s, 0, k, FALSE) /\ NotReady(s)
  <2>1. \A i \in 1 .. Len(s) : s[i] = Pg!D(id, 0 + i)
    BY <1>1, <1>2
  <2>2. 0 + Len(s) = k
    BY <1>2
  <2>3. 0 \in Nat
    OBVIOUS
  <2>4. Part(id, s, 0, 0 + Len(s), FALSE) /\ NotReady(s)
    BY <1>2, <2>1, <2>3, PartRows, Zenon
  <2>5. QED
    BY <2>2, <2>4
<1>8. Part(id, t, k, n, FALSE) /\ NotReady(t)
  <2>1. \A i \in 1 .. Len(t) : t[i] = Pg!D(id, k + i)
    <3>1. ASSUME NEW i \in 1 .. Len(t) PROVE t[i] = Pg!D(id, k + i)
      <4>1. i \in 1 .. n - k /\ k + i \in 1 .. n
        BY <1>3
      <4>2. QED
        BY <1>1, <1>3, <4>1
    <3>2. QED
      BY <3>1
  <2>2. k + Len(t) = n /\ k \in Nat
    BY <1>3
  <2>3. k \in Nat
    OBVIOUS
  <2>4. Part(id, t, k, k + Len(t), FALSE) /\ NotReady(t)
    <3>1. IsSeq(t)
      BY <1>3
    <3>2. QED
      BY <2>1, <2>3, <3>1, PartRows, Zenon
  <2>5. QED
    BY <2>2, <2>4
<1>9. QED
  BY <1>6, <1>7, <1>8

LEMMA PgAnswers ==
  ASSUME PgInv, Pg!Execute
  PROVE  \E s, n, e :
           /\ n \in Nat /\ e \in BOOLEAN
           /\ Part(q, s, 0, n, e) /\ NotReady(s)
           /\ toCli' = s \o <<Pg!M("Z")>>
           /\ produced' = [k \in 1 .. n |-> <<q, k>>]
           /\ outcome' = IF e THEN "failed" ELSE "done"
           /\ cl = "query" /\ rows = <<>> /\ up /\ toSrv' = <<>> /\ srv' = "ready"
           /\ UNCHANGED <<cl, q, rows, errout, sock, method, valid, up>>
<1>1. PICK m : Pg!ServerHears(m) /\
        \E n \in 0 .. MaxRows, end \in {<<Pg!M("C")>>, <<Pg!M("E")>>, <<Pg!M("E"), Pg!M("N")>>} :
          LET data == [k \in 1 .. n |-> Pg!D(m.id, k)] IN
          /\ produced' = [k \in 1 .. n |-> <<m.id, k>>]
          /\ outcome'  = IF end = <<Pg!M("C")>> THEN "done" ELSE "failed"
          /\ \/ Pg!Answer(<<Pg!M("T")>> \o data \o end \o <<Pg!M("Z")>>, srv)
             \/ \E k \in 0 .. n :
                  Pg!Answer(<<Pg!M("T")>> \o SubSeq(data, 1, k) \o <<Pg!M("C"), Pg!M("T")>>
                              \o SubSeq(data, k + 1, n) \o end \o <<Pg!M("Z")>>, srv)
  BY DEF Pg!Execute
<1>2. srv = "ready" /\ UNCHANGED <<cl, q, rows, errout, sock, method, valid, up>>
  BY DEF Pg!Execute, Pg!client
<1>3. up /\ PgTypes /\ PgTalk
  BY <1>1 DEF PgInv, Pg!ServerHears
<1>4. /\ toSrv' = <<>> /\ toCli = <<>> /\ cl = "query" /\ rows = <<>>
      /\ m = [type |-> "Q", id |-> q]
  BY <1>1, <1>2, <1>3, PgHears
<1>5. m.id = q
  BY <1>4
<1>6. PICK n \in 0 .. MaxRows,
           end \in {<<Pg!M("C")>>, <<Pg!M("E")>>, <<Pg!M("E"), Pg!M("N")>>},
           data \in {[k \in 1 .. nn |-> Pg!D(q, k)] : nn \in 0 .. MaxRows} :
        /\ data = [k \in 1 .. n |-> Pg!D(q, k)]
        /\ produced' = [k \in 1 .. n |-> <<q, k>>]
        /\ outcome'  = IF end = <<Pg!M("C")>> THEN "done" ELSE "failed"
        /\ \/ Pg!Answer(<<Pg!M("T")>> \o data \o end \o <<Pg!M("Z")>>, srv)
           \/ \E k \in 0 .. n :
                Pg!Answer(<<Pg!M("T")>> \o SubSeq(data, 1, k) \o <<Pg!M("C"), Pg!M("T")>>
                            \o SubSeq(data, k + 1, n) \o end \o <<Pg!M("Z")>>, srv)
  BY <1>1, <1>5
<1>7. n \in Nat /\ IsSeq(data) /\ Len(data) = n /\ \A i \in 1 .. n : data[i] = Pg!D(q, i)
  <2>1. n \in Nat
    OBVIOUS
  <2>2. data = [k \in 1 .. n |-> Pg!D(q, k)]
    BY <1>6
  <2>3. IsSeq(data) /\ Len(data) = n
    BY <2>1, <2>2, FunctionIs
  <2>4. QED
    BY <2>1, <2>2, <2>3
<1> DEFINE e == end # <<Pg!M("C")>>
<1>8. Part(q, end, n, n, e) /\ NotReady(end)
  BY <1>7, PartEnd
<1>9. e \in BOOLEAN /\ outcome' = IF e THEN "failed" ELSE "done"
  BY <1>6
<1> HIDE DEF e
<1>10. srv' = "ready" /\ \E s : /\ Part(q, s, 0, n, e) /\ NotReady(s)
                                /\ toCli' = toCli \o (s \o <<Pg!M("Z")>>)
  <2>1. CASE Pg!Answer(<<Pg!M("T")>> \o data \o end \o <<Pg!M("Z")>>, srv)
    <3> DEFINE s1 == <<Pg!M("T")>> \o data
               s2 == s1 \o end
    <3>1. 0 \in 0 .. n
      BY <1>7
    <3>2. Part(q, data, 0, n, FALSE) /\ NotReady(data)
      BY <1>7, <3>1, PartData
    <3>3. Part(q, s1, 0, n, FALSE) /\ NotReady(s1)
      BY <3>2, PartHead, PartsJoin
    <3> HIDE DEF s1
    <3>4. Part(q, s2, 0, n, e) /\ NotReady(s2)
      BY <1>8, <1>9, <3>3, PartsJoin
    <3>5. toCli' = toCli \o (s2 \o <<Pg!M("Z")>>) /\ srv' = srv
      BY <2>1 DEF Pg!Answer, s1
    <3> HIDE DEF s2
    <3>6. QED
      BY <1>2, <3>4, <3>5
  <2>2. ASSUME NEW k \in 0 .. n,
               Pg!Answer(<<Pg!M("T")>> \o SubSeq(data, 1, k) \o <<Pg!M("C"), Pg!M("T")>>
                           \o SubSeq(data, k + 1, n) \o end \o <<Pg!M("Z")>>, srv)
        PROVE  srv' = "ready" /\ \E s : /\ Part(q, s, 0, n, e) /\ NotReady(s)
                                        /\ toCli' = toCli \o (s \o <<Pg!M("Z")>>)
    <3> DEFINE d1 == SubSeq(data, 1, k)
               d2 == SubSeq(data, k + 1, n)
               s1 == <<Pg!M("T")>> \o d1
               s2 == s1 \o <<Pg!M("C"), Pg!M("T")>>
               s3 == s2 \o d2
               s4 == s3 \o end
    <3>1. k \in Nat
      BY <1>7
    <3>2. /\ Part(q, d1, 0, k, FALSE) /\ NotReady(d1)
          /\ Part(q, d2, k, n, FALSE) /\ NotReady(d2)
      BY <1>7, PartData
    <3> HIDE DEF d1, d2
    <3>3. Part(q, s1, 0, k, FALSE) /\ NotReady(s1)
      BY <3>2, PartHead, PartsJoin
    <3> HIDE DEF s1
    <3>4. /\ Part(q, <<Pg!M("C"), Pg!M("T")>>, k, k, FALSE)
          /\ NotReady(<<Pg!M("C"), Pg!M("T")>>)
      BY <3>1, PartHead
    <3>5. Part(q, s2, 0, k, FALSE) /\ NotReady(s2)
      BY <3>3, <3>4, PartsJoin
    <3> HIDE DEF s2
    <3>6. Part(q, s3, 0, n, FALSE) /\ NotReady(s3)
      BY <3>2, <3>5, PartsJoin
    <3> HIDE DEF s3
    <3>7. Part(q, s4, 0, n, e) /\ NotReady(s4)
      BY <1>8, <1>9, <3>6, PartsJoin
    <3>8. toCli' = toCli \o (s4 \o <<Pg!M("Z")>>) /\ srv' = srv
      BY <2>2 DEF Pg!Answer, s1, s2, s3, d1, d2
    <3> HIDE DEF s4
    <3>9. QED
      BY <1>2, <3>7, <3>8
  <2>3. QED
    BY <1>6, <2>1, <2>2
<1>11. PICK s : /\ Part(q, s, 0, n, e) /\ NotReady(s)
                /\ toCli' = toCli \o (s \o <<Pg!M("Z")>>)
  BY <1>10
<1>12. IsSeq(s \o <<Pg!M("Z")>>)
  <2>1. Part(q, s \o <<Pg!M("Z")>>, 0, n, e)
    BY <1>7, <1>9, <1>11, ReadyAfter, Zenon
  <2>2. QED
    BY <2>1 DEF Part
<1>13. toCli' = s \o <<Pg!M("Z")>>
  BY <1>4, <1>11, <1>12, AfterNothing
<1>14. QED
  BY <1>2, <1>3, <1>4, <1>6, <1>7, <1>9, <1>10, <1>11, <1>13

LEMMA PgExecute == PgInv /\ Pg!Execute => PgInv'
<1> SUFFICES ASSUME PgInv, Pg!Execute PROVE PgInv'
  OBVIOUS
<1>1. PICK s, n, e :
        /\ n \in Nat /\ e \in BOOLEAN
        /\ Part(q, s, 0, n, e) /\ NotReady(s)
        /\ toCli' = s \o <<Pg!M("Z")>>
        /\ produced' = [k \in 1 .. n |-> <<q, k>>]
        /\ outcome' = IF e THEN "failed" ELSE "done"
        /\ cl = "query" /\ rows = <<>> /\ up /\ toSrv' = <<>> /\ srv' = "ready"
        /\ UNCHANGED <<cl, q, rows, errout, sock, method, valid, up>>
  BY PgAnswers
<1>2. /\ Part(q, toCli', 0, n, e)
      /\ \A i \in 1 .. Len(toCli') : toCli'[i].type = "Z" => i = Len(toCli')
      /\ toCli' # <<>> /\ toCli'[Len(toCli')].type = "Z"
  <2>1. /\ n \in Nat /\ e \in BOOLEAN /\ Part(q, s, 0, n, e) /\ NotReady(s)
        /\ toCli' = s \o <<Pg!M("Z")>>
    BY <1>1
  <2>2. PICK u : u = s \o <<Pg!M("Z")>>
    OBVIOUS
  <2>3. /\ Part(q, u, 0, n, e)
        /\ \A i \in 1 .. Len(u) : u[i].type = "Z" => i = Len(u)
        /\ u # <<>> /\ u[Len(u)].type = "Z"
    BY <2>1, <2>2, ReadyAfter
  <2>4. QED
    BY <2>1, <2>2, <2>3
<1>3. ReadyLast' /\ Whole' /\ IsSeq(toCli') /\ IsSeq(toSrv')
  BY <1>1, <1>2, EmptyIs DEF ReadyLast, Whole, Part
<1>4. IsSeq(produced') /\ Len(produced') = n /\ Numbered(produced)'
  <2>1. IsSeq(produced') /\ Len(produced') = n
    BY <1>1, FunctionIs
  <2>2. QED
    BY <1>1, <2>1 DEF Numbered
<1>5. PgTypes /\ Shapes /\ ~errout
  BY <1>1 DEF PgInv, PgTypes, PgResult
<1>6. PgTypes'
  BY <1>1, <1>3, <1>4, <1>5 DEF PgTypes, Shapes, PgFirst
<1>7. PgTalk'
  BY <1>1, <1>3 DEF PgTalk
<1>8. PgAnswer'
  <2>1. PICK c \in [0 .. Len(toCli') -> Nat] :
          /\ c[0] = 0 /\ c[Len(toCli')] = n
          /\ \A i \in 1 .. Len(toCli') :
               IF toCli'[i].type = "D" THEN c[i] = c[i - 1] + 1 /\ toCli'[i].row = <<q, c[i]>>
                                       ELSE c[i] = c[i - 1]
    BY <1>2 DEF Part
  <2>2. Len(rows') = 0 /\ q' = q
    BY <1>1
  <2>3. Counts(c)'
    BY <1>4, <2>1, <2>2 DEF Counts
  <2>4. e <=> \E i \in 1 .. Len(toCli') : toCli'[i].type = "E"
    BY <1>2 DEF Part
  <2>5. /\ (\E i \in 1 .. Len(toCli') : toCli'[i].type = "E") => outcome' = "failed"
        /\ (\A i \in 1 .. Len(toCli') : toCli'[i].type # "E") => outcome' = "done"
    BY <1>1, <2>4
  <2>6. QED
    BY <1>4, <2>3, <2>5 DEF PgAnswer
<1>9. PgResult'
  <2>1. Numbered(rows)'
    BY <1>1 DEF Numbered
  <2>2. QED
    BY <1>1, <1>5, <1>8, <2>1 DEF PgResult
<1>10. QED
  BY <1>6, <1>7, <1>9 DEF PgInv

(* The link is lost, with some of what the server sent. *)
LEMMA PgDrop == PgInv /\ Drop => PgInv'
<1> SUFFICES ASSUME PgInv, Drop PROVE PgInv'
  OBVIOUS
<1>1. /\ up' = FALSE
      /\ UNCHANGED <<cl, q, rows, errout, sock, method, valid, produced, outcome, toSrv>>
  BY DEF Drop, client
<1>2. PICK n \in 0 .. Len(toCli) : toCli' = SubSeq(toCli, 1, n)
  BY DEF Drop
<1>3. IsSeq(toCli) /\ ReadyLast /\ PgTypes /\ Shapes
  BY DEF PgInv, PgTypes, Shapes
<1>4. /\ IsSeq(toCli') /\ Len(toCli') = n
      /\ \A i \in 1 .. n : toCli'[i] = toCli[i]
  BY <1>2, <1>3, PrefixIs
<1>5. Len(toCli) \in Nat /\ n \in Nat
  BY <1>3, SeqShape
<1>6. ReadyLast' /\ (Whole' => Whole /\ n = Len(toCli))
  <2>1. ASSUME NEW i \in 1 .. n, toCli'[i].type = "Z" PROVE i = n /\ n = Len(toCli)
    <3>1. i \in 1 .. Len(toCli) /\ toCli[i].type = "Z"
      BY <1>4, <1>5, <2>1
    <3>2. i = Len(toCli)
      BY <1>3, <3>1 DEF ReadyLast
    <3>3. QED
      BY <1>5, <3>2
  <2>2. ReadyLast'
    BY <1>4, <2>1 DEF ReadyLast
  <2>3. ASSUME Whole' PROVE Whole /\ n = Len(toCli)
    <3>1. n \in 1 .. n /\ toCli'[n].type = "Z" /\ toCli[n].type = "Z"
      BY <1>4, <1>5, <2>3, SeqShape DEF Whole
    <3>2. n = Len(toCli) /\ toCli # <<>>
      BY <1>3, <2>1, <3>1, SeqShape
    <3>3. QED
      BY <3>1, <3>2 DEF Whole
  <2>4. QED
    BY <2>2, <2>3
<1>7. PgTypes'
  <2>1. cl = "idle" => toCli' = <<>>
    BY <1>3, <1>4, <1>5, SeqShape DEF PgTypes
  <2>2. QED
    BY <1>1, <1>3, <1>4, <1>6, <2>1 DEF PgTypes, Shapes, Fresh
<1>8. PgAnswer => PgAnswer'
  <2> SUFFICES ASSUME PgAnswer PROVE PgAnswer'
    OBVIOUS
  <2>1. PICK c : Counts(c)
    BY DEF PgAnswer
  <2>2. PICK d : d = [i \in 0 .. n |-> c[i]]
    OBVIOUS
  <2>3. d \in [0 .. n -> Nat] /\ d[0] = Len(rows)
    BY <1>5, <2>1, <2>2 DEF Counts
  <2>4. ASSUME NEW i \in 1 .. n
        PROVE  IF toCli'[i].type = "D" THEN d[i] = d[i - 1] + 1 /\ toCli'[i].row = <<q, d[i]>>
                                       ELSE d[i] = d[i - 1]
    <3>1. i \in 1 .. Len(toCli) /\ toCli'[i] = toCli[i] /\ d[i] = c[i] /\ d[i - 1] = c[i - 1]
      BY <1>4, <1>5, <2>2
    <3>2. IF toCli[i].type = "D" THEN c[i] = c[i - 1] + 1 /\ toCli[i].row = <<q, c[i]>>
                                 ELSE c[i] = c[i - 1]
      BY <2>1, <3>1 DEF Counts
    <3>3. QED
      BY <3>1, <3>2
  <2>5. Whole' => d[n] = Len(produced)
    BY <1>5, <1>6, <2>1, <2>2 DEF Counts
  <2>6. Counts(d)'
    BY <1>1, <1>4, <2>3, <2>4, <2>5 DEF Counts
  <2>7. ASSUME Whole'
        PROVE  /\ Numbered(produced)'
               /\ (\E i \in 1 .. Len(toCli') : toCli'[i].type = "E") => outcome' = "failed"
               /\ (\A i \in 1 .. Len(toCli') : toCli'[i].type # "E") => outcome' = "done"
    <3>1. Whole /\ Len(toCli') = Len(toCli) /\ \A i \in 1 .. Len(toCli) : toCli'[i] = toCli[i]
      BY <1>4, <1>6, <2>7
    <3>2. QED
      BY <1>1, <3>1 DEF PgAnswer, Numbered
  <2>8. QED
    BY <2>6, <2>7 DEF PgAnswer
<1>9. PgResult'
  BY <1>1, <1>8 DEF PgInv, PgResult, Numbered
<1>10. QED
  BY <1>1, <1>7, <1>9 DEF PgInv

LEMMA PgStarts == Pg!Init => PgInv
<1> SUFFICES ASSUME Pg!Init PROVE PgInv
  OBVIOUS
<1>1. /\ cl = "connect" /\ q = 0 /\ rows = <<>> /\ errout = FALSE /\ srv = "listen"
      /\ valid \in BOOLEAN /\ produced = <<>> /\ outcome = "none"
      /\ toSrv = <<>> /\ toCli = <<>> /\ up = TRUE /\ method \in Pg!PgMethods
  BY DEF Pg!Init, Pg!ConnInit
<1>2. Shapes
  BY <1>1, EmptyIs DEF Shapes
<1>3. PgTypes
  BY <1>1, <1>2 DEF PgTypes, PgFirst, Fresh, ReadyLast
<1>4. PgTalk
  BY <1>1 DEF PgTalk, Talk
<1>5. PgResult
  BY <1>1 DEF PgResult, Numbered
<1>6. QED
  BY <1>3, <1>4, <1>5 DEF PgInv

(* Every step of a program with a connection to Postgres. *)
LEMMA PgSteps ==
  ASSUME PgInv,
         \/ Pg!Opening \/ Pg!ClientReads \/ Pg!Query \/ Pg!QueryInvalid \/ Pg!Close
         \/ Pg!ServerStep \/ Drop
  PROVE  PgInv'
<1>1. CASE Pg!Opening
  BY <1>1, PgConnect, PgRequestTls, PgTlsAnswer, PgSendStartup DEF Pg!Opening
<1>2. CASE Pg!ClientReads
  BY <1>2, PgAuthRead, PgSaslRead, PgSettleRead, PgQueryRead, PgDrainRead DEF Pg!ClientReads
<1>3. CASE Pg!ServerStep
  BY <1>3, PgAnswerTls, PgStartup, PgCheckPassword, PgExecute DEF Pg!ServerStep
<1>4. QED
  BY <1>1, <1>2, <1>3, PgQuery, PgQueryInvalid, PgClose, PgDrop

-----------------------------------------------------------------------------
(* A step that touches no connection. *)
LEMMA PgSame == ASSUME PgInv, UNCHANGED conn PROVE PgInv'
<1>1. UNCHANGED <<cl, q, op, rows, errout, sock, tls, srv, method, valid, produced, outcome, toSrv, toCli, up>>
  BY DEF conn, client, server, link
<1>2. PgTypes'
  <2>1. Shapes' /\ ReadyLast'
    BY <1>1 DEF PgInv, PgTypes, Shapes, ReadyLast
  <2>2. QED
    BY <1>1, <2>1 DEF PgInv, PgTypes, Fresh
<1>3. up => PgTalk'
  BY <1>1 DEF PgInv, PgTalk, Talk, Whole
<1>4. PgResult'
  <2>1. PgAnswer => PgAnswer'
    BY <1>1 DEF PgAnswer, Counts, Whole, Numbered
  <2>2. Numbered(rows)'
    BY <1>1 DEF PgInv, PgResult, Numbered
  <2>3. QED
    BY <1>1, <2>1, <2>2 DEF PgInv, PgResult
<1>5. QED
  BY <1>1, <1>2, <1>3, <1>4 DEF PgInv

LEMMA PgRests ==
  ASSUME Pg!Opening \/ Pg!ClientReads \/ Pg!Close \/ Pg!ServerStep \/ Drop, Resting
  PROVE  Resting' /\ UNCHANGED rows
<1>1. CASE Pg!Opening
  BY <1>1 DEF Pg!Opening, Pg!Connect, Pg!Dial, Pg!RequestTls, Pg!TlsAnswer, Pg!SendStartup, Resting
<1>2. CASE Pg!ClientReads
  BY <1>2 DEF Pg!ClientReads, Pg!AuthRead, Pg!SaslRead, Pg!SettleRead, Pg!QueryRead, Pg!DrainRead, Resting
<1>3. CASE Pg!Close
  BY <1>3 DEF Pg!Close, Pg!WriteGoto, Resting
<1>4. CASE Pg!ServerStep
  BY <1>4 DEF Pg!ServerStep, Pg!AnswerTls, Pg!Startup, Pg!CheckPassword, Pg!Execute, Pg!client, Resting
<1>5. CASE Drop
  BY <1>5 DEF Drop, client, Resting
<1>6. QED
  BY <1>1, <1>2, <1>3, <1>4, <1>5

(* Every step of a program with a connection to Postgres. *)
LEMMA PgDb ==
  ASSUME kind = "postgres", PgInv, LoopInv, [Next]_vars
  PROVE  PgInv' /\ LoopInv'
<1>1. CASE UNCHANGED conn /\ UNCHANGED program
  <2>1. PgInv'
    BY <1>1, PgSame
  <2>2. Len(rows') \in Nat
    BY <2>1, SeqShape DEF PgInv, PgTypes, Shapes
  <2>3. UNCHANGED <<cl, rows>>
    BY <1>1 DEF conn, client
  <2>4. Resting => Resting' /\ UNCHANGED rows
    BY <2>3 DEF Resting
  <2>5. QED
    BY <1>1, <2>1, <2>2, <2>4, LoopSteps
<1>2. CASE (WireStep \/ WireDrop)
  <2>1. Pg!Opening \/ Pg!ClientReads \/ Pg!Close \/ Pg!ServerStep \/ Drop
    BY <1>2 DEF WireStep, WireDrop, Opening, ClientReads, Close, ServerStep
  <2>2. PgInv'
    BY <2>1, PgSteps
  <2>3. Len(rows') \in Nat
    BY <2>2, SeqShape DEF PgInv, PgTypes, Shapes
  <2>4. UNCHANGED program
    BY <1>2 DEF WireStep, WireDrop
  <2>5. QED
    BY <2>1, <2>2, <2>3, <2>4, PgRests, LoopSteps
<1>3. CASE WireRequest
  <2>1. Pg!Query \/ Pg!QueryInvalid
    BY <1>3 DEF WireRequest, Query
  <2>2. PgInv'
    BY <2>1, PgSteps
  <2>3. Len(rows') \in Nat
    BY <2>2, SeqShape DEF PgInv, PgTypes, Shapes
  <2>4. QED
    BY <1>3, <2>2, <2>3, LoopRequest
<1>4. CASE WireNext
  BY <1>4, PgSame, LoopNext DEF WireNext
<1>5. CASE Break
  BY <1>5, PgSame, LoopBreak DEF Break
<1>6. QED
  <2>1. ~Sqlite /\ ~MongoStep
    BY DEF Sqlite, SqliteOpen, SqliteExec, SqliteQuery, SqliteNext, SqliteClose, SqliteInvalid, MongoStep
  <2>2. Finished \/ UNCHANGED vars => UNCHANGED conn /\ UNCHANGED program
    BY DEF Finished, vars
  <2>3. QED
    BY <1>1, <1>2, <1>3, <1>4, <1>5, <2>1, <2>2 DEF Next

-----------------------------------------------------------------------------
(* MySQL *)

MyFirst == {"connect", "dialed", "auth", "key"}

(* Nothing follows the packet that lets the client in. *)
OkLast == \A i \in 1 .. Len(toCli) : toCli[i].tag = "ok" => i = Len(toCli)

MyTypes ==
  /\ Shapes
  /\ cl \in MyFirst \cup {"idle", "first", "definitions", "definitionsEof", "rows",
                          "failed", "closed", "killed", "crashed"}
  /\ method \in My!MyMethods
  /\ cl \in MyFirst => Fresh /\ OkLast
  /\ cl = "connect" => ~sock
  /\ cl = "idle" => toCli = <<>>
  /\ cl = "closed" => ~sock

(* The answer has not been cut off: n packets, rows, and a packet that is  *)
(* not a row.                                                              *)
MyWhole(n) == Len(toCli) > n /\ toCli[Len(toCli)].tag # "row"

(* The conversation on a link that holds, phase by phase: every number is  *)
(* the one the server expects.                                             *)
MyTalk ==
  /\ cl = "connect" => Talk("listen", <<>>, <<>>)
  /\ cl = "dialed" => \/ Talk("listen", <<>>, <<>>)
                      \/ Talk("response", <<>>, <<My!P("greeting", 0)>>)
  /\ cl = "auth" =>
       \/ Talk("response", <<My!P("response", 1)>>, <<>>)
       \/ Talk("switched", <<>>, <<My!P("switch", 2)>>)
       \/ Talk("switched", <<My!P("scramble", 3)>>, <<>>)
       \/ Talk("key", <<>>, <<My!P("full", 2)>>)
       \/ Talk("secret", <<My!P("secret", 5)>>, <<>>)
       \/ Talk("ready", <<>>, <<My!P("fast", 2), My!P("ok", 3)>>)
       \/ \E n \in {2, 3, 4, 6} : Talk("ready", <<>>, <<My!P("ok", n)>>)
  /\ cl = "key" => \/ Talk("key", <<My!P("keyrequest", 3)>>, <<>>)
                   \/ Talk("secret", <<>>, <<My!P("pem", 4)>>)
  /\ cl = "idle" => Talk("ready", <<>>, <<>>)
  /\ cl = "first" =>
       \/ Talk("ready", <<[tag |-> "Q", id |-> q, seq |-> 0]>>, <<>>) /\ rows = <<>>
       \/ /\ srv = "ready" /\ toSrv = <<>>
          /\ MyWhole(3) \/ (Len(toCli) = 1 /\ toCli[1].tag # "columns")
  /\ cl = "definitions"    => srv = "ready" /\ toSrv = <<>> /\ MyWhole(2)
  /\ cl = "definitionsEof" => srv = "ready" /\ toSrv = <<>> /\ MyWhole(1)
  /\ cl = "rows"           => srv = "ready" /\ toSrv = <<>> /\ MyWhole(0)
  /\ cl \in {"failed", "crashed"} => toSrv = <<>>
  /\ cl \notin {"closed", "killed"}

(* An answer of one packet. *)
MyOnly ==
  /\ Len(toCli) = 1 /\ rows = <<>> /\ produced = <<>>
  /\ \/ toCli[1].tag = "ok" /\ outcome = "done"
     \/ toCli[1].tag = "err" /\ outcome = "failed"

(* What is left of an answer with rows, n packets ahead of them: each row  *)
(* continues the ones the client has, and the packet after the last one    *)
(* says how the answer ended.                                              *)
MyRest(n) ==
  /\ n = 3 /\ toCli # <<>> => toCli[1].tag = "columns"
  /\ \A i \in n + 1 .. Len(toCli) :
       IF toCli[i].tag = "row" THEN toCli[i].row = <<q, Len(rows) + i - n>>
       ELSE /\ i = Len(toCli)
            /\ Len(produced) = Len(rows) + i - n - 1
            /\ Numbered(produced)
            /\ \/ toCli[i].tag = "eof" /\ outcome = "done"
               \/ toCli[i].tag = "err" /\ outcome = "failed"

MyEnded == outcome \in {"done", "failed"}

MyResult ==
  /\ Numbered(rows)
  /\ cl = "first" => ~errout /\ (MyOnly \/ (MyRest(3) /\ (toCli # <<>> => MyEnded)))
  /\ cl = "definitions"    => ~errout /\ MyEnded /\ MyRest(2)
  /\ cl = "definitionsEof" => ~errout /\ MyEnded /\ MyRest(1)
  /\ cl = "rows"           => ~errout /\ MyEnded /\ MyRest(0)
  /\ cl \in {"idle", "failed", "closed"} =>
       /\ errout /\ up => outcome # "done"
       /\ ~errout /\ up => rows = produced /\ (q > 0 => outcome = "done")
       /\ ~errout /\ ~up => (q > 0 => MyEnded)

MyInv == MyTypes /\ (up => MyTalk) /\ MyResult

(* A step of the client on its way to a connection. *)
LEMMA MyOpens ==
  ASSUME MyTypes, MyResult, cl \in MyFirst,
         UNCHANGED <<q, rows, errout, produced, outcome, method, valid, up>>,
         cl' \in {"dialed", "auth", "key", "idle", "failed", "killed"},
         toCli' = toCli \/ (toCli # <<>> /\ toCli' = Tail(toCli)),
         cl' = "idle" => toCli' = <<>>,
         toSrv' = toSrv \/ \E m : toSrv' = Append(toSrv, m)
  PROVE  MyTypes' /\ MyResult'
<1>1. IsSeq(toCli) /\ IsSeq(toSrv) /\ OkLast
  BY DEF MyTypes, Shapes
<1>2. IsSeq(toSrv')
  <2>1. CASE toSrv' = toSrv
    BY <1>1, <2>1
  <2>2. ASSUME NEW m, toSrv' = Append(toSrv, m) PROVE IsSeq(toSrv')
    BY <1>1, <2>2, AppendIs
  <2>3. QED
    BY <2>1, <2>2
<1>3. IsSeq(toCli') /\ OkLast'
  <2>1. CASE toCli' = toCli
    BY <1>1, <2>1 DEF OkLast
  <2>2. CASE toCli # <<>> /\ toCli' = Tail(toCli)
    BY <1>1, <2>2, TailIs, SeqShape DEF OkLast
  <2>3. QED
    BY <2>1, <2>2
<1>4. Fresh /\ Fresh'
  BY DEF MyTypes, Fresh
<1>5. MyTypes'
  BY <1>2, <1>3, <1>4 DEF MyTypes, Shapes, MyFirst
<1>6. MyResult'
  BY <1>4 DEF MyResult, Fresh, Numbered, MyFirst
<1>7. QED
  BY <1>5, <1>6

LEMMA MyConnect == MyInv /\ My!Connect => MyInv'
<1> SUFFICES ASSUME MyInv, My!Connect PROVE MyInv'
  OBVIOUS
<1> USE DEF My!Connect, My!Dial
<1>1. MyTypes' /\ MyResult'
  BY MyOpens DEF MyInv, MyFirst, My!server, My!link
<1>2. up' => MyTalk'
  BY DEF MyInv, MyTalk, Talk, My!server, My!link
<1>3. QED
  BY <1>1, <1>2 DEF MyInv

LEMMA MyGreetingRead == MyInv /\ My!GreetingRead => MyInv'
<1> SUFFICES ASSUME MyInv, My!GreetingRead PROVE MyInv'
  OBVIOUS
<1>1. /\ cl = "dialed" /\ UNCHANGED <<q, rows, errout, produced, outcome, method, valid, up, srv>>
  BY DEF My!GreetingRead, My!server
<1>2. CASE My!ReadFails /\ My!Goto("failed")
  <2>1. MyTypes' /\ MyResult'
    BY <1>1, <1>2, MyOpens DEF MyInv, MyFirst, My!ReadFails, My!Goto
  <2>2. QED
    BY <1>1, <1>2, <2>1 DEF MyInv, My!ReadFails
<1>3. ASSUME NEW m, My!Reads(m), My!WriteGoto(My!P("response", 1), "auth") PROVE MyInv'
  <2>1. toCli # <<>> /\ toCli' = Tail(toCli)
    BY <1>3 DEF My!Reads
  <2>2. /\ cl' \in {"auth", "killed"}
        /\ toSrv' = toSrv \/ toSrv' = Append(toSrv, My!P("response", 1))
    BY <1>3 DEF My!WriteGoto
  <2>3. MyTypes' /\ MyResult'
    BY <1>1, <2>1, <2>2, MyOpens DEF MyInv, MyFirst
  <2>4. ASSUME up PROVE MyTalk'
    <3>1. srv = "response" /\ toSrv = <<>> /\ toCli' = <<>>
      <4>1. srv = "response" /\ toSrv = <<>> /\ toCli = <<My!P("greeting", 0)>>
        BY <1>1, <2>1, <2>4 DEF MyInv, MyTalk, Talk
      <4>2. QED
        BY <2>1, <4>1, OneMessage
    <3>2. cl' = "auth" /\ toSrv' = <<My!P("response", 1)>>
      BY <1>3, <2>4, <3>1 DEF My!WriteGoto
    <3>3. QED
      BY <1>1, <3>1, <3>2 DEF MyTalk, Talk
  <2>5. QED
    BY <1>1, <2>3, <2>4 DEF MyInv
<1>4. QED
  BY <1>2, <1>3 DEF My!GreetingRead

(* The packets of the authentication. *)
LEMMA TagsDiffer ==
  ASSUME NEW tag, NEW seq
  PROVE  My!P(tag, seq).tag = tag /\ My!P(tag, seq).seq = seq
BY DEF My!P

LEMMA FastThenOk ==
  LET s == <<My!P("fast", 2), My!P("ok", 3)>>
  IN  s # <<>> /\ Head(s) = My!P("fast", 2) /\ Tail(s) = <<My!P("ok", 3)>>
OBVIOUS

LEMMA MyAuthRead == MyInv /\ My!AuthRead => MyInv'
<1> SUFFICES ASSUME MyInv, My!AuthRead PROVE MyInv'
  OBVIOUS
<1>1. /\ cl = "auth" /\ UNCHANGED <<q, rows, errout, produced, outcome, method, valid, up, srv>>
  BY DEF My!AuthRead, My!server
<1>2. CASE My!ReadFails /\ My!Goto("failed")
  <2>1. MyTypes' /\ MyResult'
    BY <1>1, <1>2, MyOpens DEF MyInv, MyFirst, My!ReadFails, My!Goto
  <2>2. QED
    BY <1>1, <1>2, <2>1 DEF MyInv, My!ReadFails
<1>3. ASSUME NEW m, My!Reads(m), My!React(m) PROVE MyInv'
  <2>1. toCli # <<>> /\ m = Head(toCli) /\ toCli' = Tail(toCli)
    BY <1>3 DEF My!Reads
  <2>2. /\ cl' \in {"auth", "key", "idle", "failed", "killed"}
        /\ toSrv' = toSrv \/ \E p : toSrv' = Append(toSrv, p)
        /\ cl' = "idle" => m.tag = "ok"
    BY <1>3 DEF My!React, My!Goto, My!WriteGoto
  <2>3. cl' = "idle" => toCli' = <<>>
    <3>1. IsSeq(toCli) /\ OkLast
      BY <1>1 DEF MyInv, MyTypes, Shapes, MyFirst
    <3>2. /\ m = toCli[1] /\ Len(toCli) >= 1 /\ Len(toCli) \in Nat
          /\ IsSeq(toCli') /\ Len(toCli') = Len(toCli) - 1
      BY <2>1, <3>1, TailIs, SeqShape
    <3>3. ASSUME m.tag = "ok" PROVE toCli' = <<>>
      <4>1. 1 \in 1 .. Len(toCli) /\ toCli[1].tag = "ok"
        BY <3>2, <3>3
      <4>2. Len(toCli) = 1
        BY <3>1, <4>1 DEF OkLast
      <4>3. QED
        BY <3>2, <4>2, SeqShape
    <3>4. QED
      BY <2>2, <3>3
  <2>4. MyTypes' /\ MyResult'
    BY <1>1, <2>1, <2>2, <2>3, MyOpens DEF MyInv, MyFirst
  <2>5. ASSUME up PROVE MyTalk'
    <3>1. \/ Talk("switched", <<>>, <<My!P("switch", 2)>>)
          \/ Talk("key", <<>>, <<My!P("full", 2)>>)
          \/ Talk("ready", <<>>, <<My!P("fast", 2), My!P("ok", 3)>>)
          \/ \E n \in {2, 3, 4, 6} : Talk("ready", <<>>, <<My!P("ok", n)>>)
      BY <1>1, <2>1, <2>5 DEF MyInv, MyTalk, Talk
    <3>2. CASE Talk("switched", <<>>, <<My!P("switch", 2)>>)
      <4>1. m = My!P("switch", 2) /\ toCli' = <<>> /\ toSrv = <<>> /\ srv = "switched"
        BY <2>1, <3>2, OneMessage DEF Talk
      <4>2. m.tag = "switch" /\ m.seq + 1 = 3
        BY <4>1, TagsDiffer
      <4>3. cl' = "auth" /\ toSrv' = <<My!P("scramble", 3)>>
        BY <1>3, <2>5, <4>1, <4>2 DEF My!React, My!WriteGoto
      <4>4. QED
        BY <1>1, <4>1, <4>3 DEF MyTalk, Talk
    <3>3. CASE Talk("key", <<>>, <<My!P("full", 2)>>)
      <4>1. m = My!P("full", 2) /\ toCli' = <<>> /\ toSrv = <<>> /\ srv = "key"
        BY <2>1, <3>3, OneMessage DEF Talk
      <4>2. m.tag = "full" /\ m.seq + 1 = 3
        BY <4>1, TagsDiffer
      <4>3. \/ cl' = "key" /\ toSrv' = <<My!P("keyrequest", 3)>>
            \/ cl' = "failed" /\ toSrv' = <<>>
        BY <1>3, <2>5, <4>1, <4>2 DEF My!React, My!WriteGoto, My!Goto
      <4>4. QED
        BY <1>1, <4>1, <4>3 DEF MyTalk, Talk
    <3>4. CASE Talk("ready", <<>>, <<My!P("fast", 2), My!P("ok", 3)>>)
      <4>1. m = My!P("fast", 2) /\ toCli' = <<My!P("ok", 3)>> /\ toSrv = <<>> /\ srv = "ready"
        BY <2>1, <3>4, FastThenOk DEF Talk
      <4>2. m.tag = "fast"
        BY <4>1, TagsDiffer
      <4>3. cl' = "auth" /\ toSrv' = <<>>
        BY <1>3, <4>1, <4>2 DEF My!React, My!Goto
      <4>4. QED
        BY <1>1, <4>1, <4>3 DEF MyTalk, Talk
    <3>5. ASSUME NEW n, Talk("ready", <<>>, <<My!P("ok", n)>>) PROVE MyTalk'
      <4>1. m = My!P("ok", n) /\ toCli' = <<>> /\ toSrv = <<>> /\ srv = "ready"
        BY <2>1, <3>5, OneMessage DEF Talk
      <4>2. m.tag = "ok"
        BY <4>1, TagsDiffer
      <4>3. cl' = "idle" /\ toSrv' = <<>>
        BY <1>3, <4>1, <4>2 DEF My!React, My!Goto
      <4>4. QED
        BY <1>1, <4>1, <4>3 DEF MyTalk, Talk
    <3>6. QED
      BY <3>1, <3>2, <3>3, <3>4, <3>5
  <2>6. QED
    BY <1>1, <2>4, <2>5 DEF MyInv
<1>4. QED
  BY <1>2, <1>3 DEF My!AuthRead

LEMMA MyKeyRead == MyInv /\ My!KeyRead => MyInv'
<1> SUFFICES ASSUME MyInv, My!KeyRead PROVE MyInv'
  OBVIOUS
<1>1. /\ cl = "key" /\ UNCHANGED <<q, rows, errout, produced, outcome, method, valid, up, srv>>
  BY DEF My!KeyRead, My!server
<1>2. CASE My!ReadFails /\ My!Goto("failed")
  <2>1. MyTypes' /\ MyResult'
    BY <1>1, <1>2, MyOpens DEF MyInv, MyFirst, My!ReadFails, My!Goto
  <2>2. QED
    BY <1>1, <1>2, <2>1 DEF MyInv, My!ReadFails
<1>3. ASSUME NEW m, My!Reads(m),
             IF m.tag = "pem" THEN My!WriteGoto(My!P("secret", m.seq + 1), "auth")
                              ELSE My!Goto("failed")
      PROVE  MyInv'
  <2>1. toCli # <<>> /\ m = Head(toCli) /\ toCli' = Tail(toCli)
    BY <1>3 DEF My!Reads
  <2>2. /\ cl' \in {"auth", "failed", "killed"}
        /\ toSrv' = toSrv \/ \E p : toSrv' = Append(toSrv, p)
    BY <1>3 DEF My!Goto, My!WriteGoto
  <2>3. MyTypes' /\ MyResult'
    BY <1>1, <2>1, <2>2, MyOpens DEF MyInv, MyFirst
  <2>4. ASSUME up PROVE MyTalk'
    <3>1. Talk("secret", <<>>, <<My!P("pem", 4)>>)
      BY <1>1, <2>1, <2>4 DEF MyInv, MyTalk, Talk
    <3>2. m = My!P("pem", 4) /\ toCli' = <<>> /\ toSrv = <<>> /\ srv = "secret"
      BY <2>1, <3>1, OneMessage DEF Talk
    <3>3. m.tag = "pem" /\ m.seq + 1 = 5
      BY <3>2, TagsDiffer
    <3>4. cl' = "auth" /\ toSrv' = <<My!P("secret", 5)>>
      BY <1>3, <2>4, <3>2, <3>3 DEF My!WriteGoto
    <3>5. QED
      BY <1>1, <3>2, <3>4 DEF MyTalk, Talk
  <2>5. QED
    BY <1>1, <2>3, <2>4 DEF MyInv
<1>4. QED
  BY <1>2, <1>3 DEF My!KeyRead

-----------------------------------------------------------------------------
(* Requests, and the end of the connection. *)
LEMMA MyQuery == MyInv /\ My!Query => MyInv'
<1> SUFFICES ASSUME MyInv, My!Query PROVE MyInv'
  OBVIOUS
<1>1. /\ cl = "idle" /\ q' = q + 1 /\ rows' = <<>> /\ errout' = FALSE /\ outcome' = "none"
      /\ UNCHANGED <<sock, srv, method, valid, produced, toCli, up>>
  BY DEF My!Query, My!Begin
<1>2. \/ /\ cl' = "first"
         /\ toSrv' = IF up THEN Append(toSrv, [tag |-> "Q", id |-> q', seq |-> 0]) ELSE toSrv
      \/ ~up /\ cl' = "killed" /\ toSrv' = toSrv
  BY DEF My!Query, My!WriteGoto
<1>3. toCli = <<>> /\ Shapes /\ method \in My!MyMethods
  BY <1>1 DEF MyInv, MyTypes
<1>4. Shapes'
  <2>1. IsSeq(toSrv)
    BY <1>3 DEF Shapes
  <2>2. IsSeq(toSrv')
    <3>1. CASE toSrv' = toSrv
      BY <2>1, <3>1
    <3>2. CASE toSrv' = Append(toSrv, [tag |-> "Q", id |-> q', seq |-> 0])
      BY <2>1, <3>2, AppendIs
    <3>3. QED
      BY <1>2, <3>1, <3>2
  <2>3. IsSeq(rows')
    BY <1>1, EmptyIs
  <2>4. q \in Nat
    BY <1>3 DEF Shapes
  <2>5. q' \in Nat
    BY <1>1, <2>4
  <2>6. errout' \in BOOLEAN
    BY <1>1
  <2>7. IsSeq(produced') /\ IsSeq(toCli') /\ up' \in BOOLEAN /\ valid' \in BOOLEAN
    BY <1>1, <1>3 DEF Shapes
  <2>8. QED
    BY <2>2, <2>3, <2>5, <2>6, <2>7 DEF Shapes
<1>5. MyTypes'
  BY <1>1, <1>2, <1>3, <1>4 DEF MyTypes, MyFirst
<1>6. up' => MyTalk'
  <2> SUFFICES ASSUME up' PROVE MyTalk'
    OBVIOUS
  <2>1. up /\ srv = "ready" /\ toSrv = <<>>
    BY <1>1 DEF MyInv, MyTalk, Talk
  <2>2. cl' = "first" /\ toSrv' = <<[tag |-> "Q", id |-> q', seq |-> 0]>>
    BY <1>2, <2>1
  <2>3. QED
    BY <1>1, <1>3, <2>1, <2>2 DEF MyTalk, Talk
<1>7. MyResult'
  <2>1. Numbered(rows)'
    BY <1>1 DEF Numbered
  <2>2. toCli' = <<>>
    BY <1>1, <1>3
  <2>3. MyRest(3)'
    BY <2>2 DEF MyRest
  <2>4. QED
    BY <1>1, <1>2, <2>1, <2>2, <2>3 DEF MyResult
<1>8. QED
  BY <1>5, <1>6, <1>7 DEF MyInv

LEMMA MyQueryInvalid == MyInv /\ My!QueryInvalid => MyInv'
<1> SUFFICES ASSUME MyInv, My!QueryInvalid PROVE MyInv'
  OBVIOUS
<1>1. /\ cl \in {"failed", "closed"} /\ q' = q + 1 /\ rows' = <<>> /\ errout' = TRUE
      /\ outcome' = "none"
      /\ UNCHANGED <<cl, sock, srv, method, valid, produced, toSrv, toCli, up>>
  BY DEF My!QueryInvalid, My!Begin, My!link
<1>2. MyTypes'
  BY <1>1, EmptyIs DEF MyInv, MyTypes, Shapes, MyFirst
<1>3. up' => MyTalk'
  BY <1>1 DEF MyInv, MyTalk
<1>4. MyResult'
  BY <1>1 DEF MyResult, Numbered
<1>5. QED
  BY <1>2, <1>3, <1>4 DEF MyInv

LEMMA MyClose == MyInv /\ My!Close => MyInv'
<1> SUFFICES ASSUME MyInv, My!Close PROVE MyInv'
  OBVIOUS
<1>1. cl = "idle" /\ UNCHANGED <<q, rows, errout, srv, method, valid, produced, outcome, toCli>>
  BY DEF My!Close, My!server
<1>2. \/ /\ cl' = "closed" /\ up' = FALSE /\ sock' = FALSE
         /\ toSrv' = toSrv \/ toSrv' = Append(toSrv, [tag |-> "quit", seq |-> 0])
      \/ cl' = "killed" /\ up' = FALSE /\ toSrv' = toSrv
  BY DEF My!Close, My!WriteGoto
<1>3. IsSeq(toSrv')
  <2>1. IsSeq(toSrv)
    BY DEF MyInv, MyTypes, Shapes
  <2>2. CASE toSrv' = toSrv
    BY <2>1, <2>2
  <2>3. CASE toSrv' = Append(toSrv, [tag |-> "quit", seq |-> 0])
    BY <2>1, <2>3, AppendIs
  <2>4. QED
    BY <1>2, <2>2, <2>3
<1>4. MyTypes'
  BY <1>1, <1>2, <1>3 DEF MyInv, MyTypes, Shapes, MyFirst
<1>5. MyResult'
  <2>1. /\ Numbered(rows)
        /\ errout /\ up => outcome # "done"
        /\ ~errout /\ up => rows = produced /\ (q > 0 => outcome = "done")
        /\ ~errout /\ ~up => (q > 0 => MyEnded)
    BY <1>1 DEF MyInv, MyResult
  <2>2. Numbered(rows)' /\ (~errout => (q > 0 => MyEnded'))
    BY <1>1, <2>1 DEF Numbered, MyEnded
  <2>3. QED
    BY <1>1, <1>2, <2>2 DEF MyResult
<1>6. QED
  BY <1>2, <1>4, <1>5 DEF MyInv

-----------------------------------------------------------------------------
(* Reading an answer, packet by packet. *)
LEMMA MyTail ==
  ASSUME MyTypes, toCli # <<>>, toCli' = Tail(toCli)
  PROVE  /\ Len(toCli) \in Nat /\ Len(toCli) >= 1 /\ Len(toCli') = Len(toCli) - 1
         /\ IsSeq(toCli') /\ Head(toCli) = toCli[1]
         /\ toCli' = <<>> <=> Len(toCli) = 1
         /\ \A i \in 1 .. Len(toCli) - 1 : toCli'[i] = toCli[i + 1]
         /\ \A n \in 1 .. 3 : MyWhole(n) => MyWhole(n - 1)'
         /\ MyWhole(0) /\ Head(toCli).tag = "row" => MyWhole(0)'
<1>1. IsSeq(toCli)
  BY DEF MyTypes, Shapes
<1>2. /\ Len(toCli) >= 1 /\ Len(toCli') = Len(toCli) - 1
      /\ IsSeq(toCli') /\ Head(toCli) = toCli[1]
      /\ \A i \in 1 .. Len(toCli) - 1 : toCli'[i] = toCli[i + 1]
  BY <1>1, TailIs
<1>3. Len(toCli) \in Nat /\ (toCli' = <<>> <=> Len(toCli) = 1)
  BY <1>1, <1>2, SeqShape
<1>4. ASSUME Len(toCli) > 1 PROVE toCli'[Len(toCli')] = toCli[Len(toCli)]
  <2>1. Len(toCli) - 1 \in 1 .. Len(toCli) - 1 /\ (Len(toCli) - 1) + 1 = Len(toCli)
    BY <1>3, <1>4
  <2>2. QED
    BY <1>2, <2>1
<1>5. ASSUME NEW n \in 1 .. 3, MyWhole(n) PROVE MyWhole(n - 1)'
  <2>1. Len(toCli) > n /\ toCli[Len(toCli)].tag # "row"
    BY <1>5 DEF MyWhole
  <2>2. Len(toCli) > 1 /\ Len(toCli') > n - 1
    BY <1>2, <1>3, <2>1
  <2>3. QED
    BY <1>4, <2>1, <2>2 DEF MyWhole
<1>6. ASSUME MyWhole(0), Head(toCli).tag = "row" PROVE MyWhole(0)'
  <2>1. Len(toCli) # 1
    BY <1>2, <1>6 DEF MyWhole
  <2>2. Len(toCli) > 1 /\ Len(toCli') > 0
    BY <1>2, <1>3, <2>1
  <2>3. QED
    BY <1>4, <1>6, <2>2 DEF MyWhole
<1>7. QED
  BY <1>2, <1>3, <1>5, <1>6

(* One of the packets ahead of the rows is read. *)
LEMMA MyAhead ==
  ASSUME MyTypes, toCli # <<>>, toCli' = Tail(toCli), NEW n \in 1 .. 3, MyRest(n),
         UNCHANGED <<q, rows, produced, outcome>>
  PROVE  MyRest(n - 1)'
<1>1. /\ Len(toCli) \in Nat /\ Len(toCli) >= 1 /\ Len(toCli') = Len(toCli) - 1
      /\ \A i \in 1 .. Len(toCli) - 1 : toCli'[i] = toCli[i + 1]
  BY MyTail
<1>2. IsSeq(rows) /\ IsSeq(produced)
  BY DEF MyTypes, Shapes
<1>3. Len(rows) \in Nat /\ Len(produced) \in Nat
  BY <1>2, SeqShape
<1>4. ASSUME NEW i \in (n - 1) + 1 .. Len(toCli')
      PROVE  IF toCli'[i].tag = "row" THEN toCli'[i].row = <<q', Len(rows') + i - (n - 1)>>
             ELSE /\ i = Len(toCli')
                  /\ Len(produced') = Len(rows') + i - (n - 1) - 1
                  /\ Numbered(produced)'
                  /\ \/ toCli'[i].tag = "eof" /\ outcome' = "done"
                     \/ toCli'[i].tag = "err" /\ outcome' = "failed"
  <2>1. i + 1 \in n + 1 .. Len(toCli) /\ i \in 1 .. Len(toCli) - 1
    BY <1>1
  <2>2. toCli'[i] = toCli[i + 1]
    BY <1>1, <2>1
  <2>3. IF toCli[i + 1].tag = "row" THEN toCli[i + 1].row = <<q, Len(rows) + (i + 1) - n>>
        ELSE /\ i + 1 = Len(toCli)
             /\ Len(produced) = Len(rows) + (i + 1) - n - 1
             /\ Numbered(produced)
             /\ \/ toCli[i + 1].tag = "eof" /\ outcome = "done"
                \/ toCli[i + 1].tag = "err" /\ outcome = "failed"
    BY <2>1 DEF MyRest
  <2>4. /\ Len(rows') + i - (n - 1) = Len(rows) + (i + 1) - n
        /\ Len(rows') + i - (n - 1) - 1 = Len(rows) + (i + 1) - n - 1
        /\ i + 1 = Len(toCli) => i = Len(toCli')
    <3>1. Len(rows') = Len(rows) /\ i \in Int /\ n \in Int
      BY <2>1
    <3>2. Len(rows) + i - (n - 1) = Len(rows) + (i + 1) - n
      BY <1>3, <3>1
    <3>3. ASSUME i + 1 = Len(toCli) PROVE i = Len(toCli')
      <4>1. i = Len(toCli) - 1
        BY <3>1, <3>3
      <4>2. QED
        BY <1>1, <4>1, Zenon
    <3>4. QED
      BY <3>1, <3>2, <3>3
  <2>5. Numbered(produced)' <=> Numbered(produced)
    BY DEF Numbered
  <2>6. QED
    BY <2>2, <2>3, <2>4, <2>5
<1>5. n - 1 # 3
  OBVIOUS
<1>6. QED
  BY <1>4, <1>5 DEF MyRest

LEMMA MyFirstRead == MyInv /\ My!FirstRead => MyInv'
<1> SUFFICES ASSUME MyInv, My!FirstRead PROVE MyInv'
  OBVIOUS
<1>1. /\ cl = "first" /\ UNCHANGED <<q, rows, sock, srv, method, valid, produced, outcome, toSrv, up>>
  BY DEF My!FirstRead, My!server
<1>2. /\ MyTypes /\ Shapes /\ Numbered(rows) /\ ~errout
      /\ MyOnly \/ (MyRest(3) /\ (toCli # <<>> => MyEnded))
  BY <1>1 DEF MyInv, MyTypes, MyResult
<1>3. Numbered(rows)'
  BY <1>1, <1>2 DEF Numbered
<1>4. CASE My!ReadFails /\ cl' = "idle" /\ errout' = TRUE
  <2>1. toCli = <<>> /\ toCli' = <<>> /\ ~up
    BY <1>4 DEF My!ReadFails
  <2>2. MyTypes'
    BY <1>1, <1>2, <1>4, <2>1 DEF MyTypes, Shapes, MyFirst
  <2>3. MyResult'
    BY <1>1, <1>3, <1>4, <2>1 DEF MyResult
  <2>4. QED
    BY <1>1, <2>1, <2>2, <2>3 DEF MyInv
<1>5. ASSUME NEW m, My!Reads(m), errout' = (m.tag = "err"),
             cl' = IF m.tag = "columns" THEN "definitions" ELSE "idle"
      PROVE  MyInv'
  <2>1. toCli # <<>> /\ m = Head(toCli) /\ toCli' = Tail(toCli)
    BY <1>5 DEF My!Reads
  <2>2. /\ Len(toCli) \in Nat /\ Len(toCli) >= 1 /\ IsSeq(toCli') /\ m = toCli[1]
        /\ toCli' = <<>> <=> Len(toCli) = 1
        /\ MyWhole(3) => MyWhole(2)'
    <3>1. /\ Len(toCli) \in Nat /\ Len(toCli) >= 1 /\ IsSeq(toCli') /\ m = toCli[1]
          /\ toCli' = <<>> <=> Len(toCli) = 1
      BY <1>2, <2>1, MyTail
    <3>2. MyWhole(3) => MyWhole(3 - 1)'
      BY <1>2, <2>1, MyTail
    <3>3. QED
      BY <3>1, <3>2
  <2>3. \/ MyOnly /\ m.tag \in {"ok", "err"}
        \/ MyRest(3) /\ MyEnded /\ m.tag = "columns"
    BY <1>2, <2>1, <2>2 DEF MyOnly, MyRest
  <2>4. CASE MyOnly /\ m.tag \in {"ok", "err"}
    <3>1. /\ cl' = "idle" /\ toCli' = <<>> /\ rows = <<>> /\ produced = <<>>
          /\ errout' <=> m.tag = "err"
          /\ \/ m.tag = "ok" /\ outcome = "done"
             \/ m.tag = "err" /\ outcome = "failed"
      BY <1>5, <2>2, <2>4 DEF MyOnly
    <3>2. errout' \in BOOLEAN
      BY <1>5
    <3>3. MyTypes'
      BY <1>1, <1>2, <2>2, <3>1, <3>2 DEF MyTypes, Shapes, MyFirst
    <3>4. MyResult'
      BY <1>1, <1>3, <3>1 DEF MyResult, MyEnded
    <3>5. up => srv = "ready" /\ toSrv = <<>>
      BY <1>1, <2>1 DEF MyInv, MyTalk, Talk
    <3>6. up' => MyTalk'
      BY <1>1, <3>1, <3>5 DEF MyTalk, Talk
    <3>7. QED
      BY <3>3, <3>4, <3>6 DEF MyInv
  <2>5. CASE MyRest(3) /\ MyEnded /\ m.tag = "columns"
    <3>1. cl' = "definitions"
      BY <1>5, <2>5
    <3>2. ~errout' /\ errout' \in BOOLEAN
      BY <1>5, <2>5
    <3>3. MyTypes'
      BY <1>1, <1>2, <2>2, <3>1, <3>2 DEF MyTypes, Shapes, MyFirst
    <3>4. MyRest(2)'
      <4>1. MyRest(3 - 1)'
        BY <1>1, <1>2, <2>1, <2>5, MyAhead
      <4>2. QED
        BY <4>1
    <3>5. MyResult'
      BY <1>1, <1>3, <2>5, <3>1, <3>2, <3>4 DEF MyResult, MyEnded
    <3>6. up => srv = "ready" /\ toSrv = <<>> /\ MyWhole(3)
      BY <1>1, <2>1, <2>2, <2>5 DEF MyInv, MyTalk, Talk
    <3>7. up' => MyTalk'
      BY <1>1, <2>2, <3>1, <3>6 DEF MyTalk
    <3>8. QED
      BY <3>3, <3>5, <3>7 DEF MyInv
  <2>6. QED
    BY <2>3, <2>4, <2>5
<1>6. QED
  BY <1>4, <1>5 DEF My!FirstRead

LEMMA MySkipRead == MyInv /\ My!SkipRead => MyInv'
<1> SUFFICES ASSUME MyInv, My!SkipRead PROVE MyInv'
  OBVIOUS
<1>1. /\ cl \in {"definitions", "definitionsEof"}
      /\ cl' = IF cl = "definitions" THEN "definitionsEof" ELSE "rows"
      /\ UNCHANGED <<q, rows, errout, sock, srv, method, valid, produced, outcome, toSrv, up>>
  BY DEF My!SkipRead, My!server, My!Goto
<1>2. MyTypes /\ Shapes /\ Numbered(rows) /\ ~errout /\ MyEnded
  BY <1>1 DEF MyInv, MyTypes, MyResult
<1>3. Numbered(rows)' /\ MyEnded'
  BY <1>1, <1>2 DEF Numbered, MyEnded
<1>4. CASE My!ReadFails
  <2>1. toCli = <<>> /\ toCli' = <<>> /\ ~up
    BY <1>4 DEF My!ReadFails
  <2>2. MyTypes'
    BY <1>1, <1>2, <2>1 DEF MyTypes, Shapes, MyFirst
  <2>3. MyRest(1)' /\ MyRest(0)'
    BY <2>1 DEF MyRest
  <2>4. MyResult'
    BY <1>1, <1>2, <1>3, <2>3 DEF MyResult
  <2>5. QED
    BY <1>1, <2>1, <2>2, <2>4 DEF MyInv
<1>5. ASSUME NEW m, My!Reads(m) PROVE MyInv'
  <2>1. toCli # <<>> /\ toCli' = Tail(toCli)
    BY <1>5 DEF My!Reads
  <2>2. IsSeq(toCli') /\ (MyWhole(2) => MyWhole(1)') /\ (MyWhole(1) => MyWhole(0)')
    <3>1. IsSeq(toCli') /\ (MyWhole(2) => MyWhole(2 - 1)') /\ (MyWhole(1) => MyWhole(1 - 1)')
      BY <1>2, <2>1, MyTail
    <3>2. QED
      BY <3>1
  <2>3. MyTypes'
    BY <1>1, <1>2, <2>2 DEF MyTypes, Shapes, MyFirst
  <2>4. MyResult'
    <3>1. CASE cl = "definitions"
      <4>1. MyRest(2 - 1)'
        BY <1>1, <1>2, <2>1, <3>1, MyAhead DEF MyInv, MyResult
      <4>2. MyRest(1)' /\ cl' = "definitionsEof"
        BY <1>1, <3>1, <4>1
      <4>3. QED
        BY <1>1, <1>2, <1>3, <4>2 DEF MyResult
    <3>2. CASE cl = "definitionsEof"
      <4>1. MyRest(1 - 1)'
        BY <1>1, <1>2, <2>1, <3>2, MyAhead DEF MyInv, MyResult
      <4>2. MyRest(0)' /\ cl' = "rows"
        BY <1>1, <3>2, <4>1
      <4>3. QED
        BY <1>1, <1>2, <1>3, <4>2 DEF MyResult
    <3>3. QED
      BY <1>1, <3>1, <3>2
  <2>5. up' => MyTalk'
    BY <1>1, <2>2 DEF MyInv, MyTalk
  <2>6. QED
    BY <2>3, <2>4, <2>5 DEF MyInv
<1>6. QED
  BY <1>4, <1>5 DEF My!SkipRead

LEMMA MyRowRead == MyInv /\ My!RowRead => MyInv'
<1> SUFFICES ASSUME MyInv, My!RowRead PROVE MyInv'
  OBVIOUS
<1>1. /\ cl = "rows"
      /\ UNCHANGED <<q, errout, sock, srv, method, valid, produced, outcome, toSrv, up>>
  BY DEF My!RowRead, My!server
<1>2. MyTypes /\ Shapes /\ Numbered(rows) /\ ~errout /\ MyEnded /\ MyRest(0)
  BY <1>1 DEF MyInv, MyTypes, MyResult
<1>3. IsSeq(rows) /\ Len(rows) \in Nat /\ IsSeq(produced) /\ Len(produced) \in Nat /\ MyEnded'
  BY <1>1, <1>2, SeqShape DEF Shapes, MyEnded
<1>4. CASE My!ReadFails /\ cl' = "idle" /\ UNCHANGED rows
  <2>1. toCli = <<>> /\ toCli' = <<>> /\ ~up
    BY <1>4 DEF My!ReadFails
  <2>2. MyTypes'
    BY <1>1, <1>2, <1>4, <2>1 DEF MyTypes, Shapes, MyFirst
  <2>3. Numbered(rows)'
    BY <1>1, <1>2, <1>4 DEF Numbered
  <2>4. MyResult'
    BY <1>1, <1>3, <1>4, <2>1, <2>3 DEF MyResult
  <2>5. QED
    BY <1>1, <2>1, <2>2, <2>4 DEF MyInv
<1>5. ASSUME NEW m, My!Reads(m),
             rows' = IF m.tag = "row" THEN Append(rows, m.row) ELSE rows,
             cl' = CASE m.tag = "eof" -> "idle"
                     [] m.tag = "err" -> "crashed"
                     [] OTHER         -> cl
      PROVE  MyInv'
  <2>1. toCli # <<>> /\ m = Head(toCli) /\ toCli' = Tail(toCli)
    BY <1>5 DEF My!Reads
  <2>2. /\ Len(toCli) \in Nat /\ Len(toCli) >= 1 /\ Len(toCli') = Len(toCli) - 1
        /\ IsSeq(toCli') /\ m = toCli[1]
        /\ toCli' = <<>> <=> Len(toCli) = 1
        /\ \A i \in 1 .. Len(toCli) - 1 : toCli'[i] = toCli[i + 1]
        /\ MyWhole(0) /\ m.tag = "row" => MyWhole(0)'
    BY <1>2, <2>1, MyTail
  <2>3. IF m.tag = "row" THEN m.row = <<q, Len(rows) + 1>>
        ELSE /\ Len(toCli) = 1 /\ Len(produced) = Len(rows) /\ Numbered(produced)
             /\ \/ m.tag = "eof" /\ outcome = "done"
                \/ m.tag = "err" /\ outcome = "failed"
    <3>1. 1 \in 0 + 1 .. Len(toCli) /\ Len(rows) + 1 - 0 = Len(rows) + 1
          /\ Len(rows) + 1 - 0 - 1 = Len(rows)
      BY <1>3, <2>2
    <3>2. IF toCli[1].tag = "row" THEN toCli[1].row = <<q, Len(rows) + 1 - 0>>
          ELSE /\ 1 = Len(toCli)
               /\ Len(produced) = Len(rows) + 1 - 0 - 1
               /\ Numbered(produced)
               /\ \/ toCli[1].tag = "eof" /\ outcome = "done"
                  \/ toCli[1].tag = "err" /\ outcome = "failed"
      BY <1>2, <3>1 DEF MyRest
    <3>3. QED
      BY <2>2, <3>1, <3>2
  <2>4. up => srv = "ready" /\ toSrv = <<>> /\ MyWhole(0)
    BY <1>1 DEF MyInv, MyTalk
  <2>5. CASE m.tag = "row"
    <3>1. cl' = "rows" /\ rows' = Append(rows, <<q, Len(rows) + 1>>)
      BY <1>1, <1>5, <2>3, <2>5
    <3>2. /\ IsSeq(rows') /\ Len(rows') = Len(rows) + 1 /\ rows'[Len(rows) + 1] = <<q, Len(rows) + 1>>
          /\ \A i \in 1 .. Len(rows) : rows'[i] = rows[i]
      BY <1>3, <3>1, AppendIs
    <3>3. MyTypes'
      BY <1>1, <1>2, <2>2, <3>1, <3>2 DEF MyTypes, Shapes, MyFirst
    <3>4. Numbered(rows)'
      <4>1. ASSUME NEW i \in 1 .. Len(rows') PROVE rows'[i] = <<q, i>>
        BY <1>2, <1>3, <3>2 DEF Numbered
      <4>2. QED
        BY <1>1, <4>1 DEF Numbered
    <3>5. MyRest(0)'
      <4>1. ASSUME NEW i \in 0 + 1 .. Len(toCli')
            PROVE  IF toCli'[i].tag = "row" THEN toCli'[i].row = <<q', Len(rows') + i - 0>>
                   ELSE /\ i = Len(toCli')
                        /\ Len(produced') = Len(rows') + i - 0 - 1
                        /\ Numbered(produced)'
                        /\ \/ toCli'[i].tag = "eof" /\ outcome' = "done"
                           \/ toCli'[i].tag = "err" /\ outcome' = "failed"
        <5>1. i + 1 \in 0 + 1 .. Len(toCli) /\ i \in 1 .. Len(toCli) - 1 /\ i \in Int
          BY <2>2
        <5>2. toCli'[i] = toCli[i + 1]
          BY <2>2, <5>1
        <5>3. IF toCli[i + 1].tag = "row" THEN toCli[i + 1].row = <<q, Len(rows) + (i + 1) - 0>>
              ELSE /\ i + 1 = Len(toCli)
                   /\ Len(produced) = Len(rows) + (i + 1) - 0 - 1
                   /\ Numbered(produced)
                   /\ \/ toCli[i + 1].tag = "eof" /\ outcome = "done"
                      \/ toCli[i + 1].tag = "err" /\ outcome = "failed"
          BY <1>2, <5>1 DEF MyRest
        <5>4. /\ Len(rows) + (i + 1) - 0 = Len(rows') + i - 0
              /\ Len(rows) + (i + 1) - 0 - 1 = Len(rows') + i - 0 - 1
              /\ i + 1 = Len(toCli) => i = Len(toCli')
          BY <1>3, <2>2, <3>2, <5>1
        <5>5. Numbered(produced)' <=> Numbered(produced)
          BY <1>1 DEF Numbered
        <5>6. QED
          BY <1>1, <5>2, <5>3, <5>4, <5>5
      <4>2. QED
        BY <4>1 DEF MyRest
    <3>6. MyResult'
      BY <1>1, <1>2, <1>3, <3>1, <3>4, <3>5 DEF MyResult
    <3>7. up' => MyTalk'
      BY <1>1, <2>2, <2>4, <2>5, <3>1 DEF MyTalk
    <3>8. QED
      BY <3>3, <3>6, <3>7 DEF MyInv
  <2>6. CASE m.tag # "row"
    <3>1. /\ rows' = rows /\ toCli' = <<>>
          /\ \/ m.tag = "eof" /\ cl' = "idle" /\ outcome = "done"
             \/ m.tag = "err" /\ cl' = "crashed"
      BY <1>5, <2>2, <2>3, <2>6
    <3>2. rows = produced
      BY <1>2, <1>3, <2>3, <2>6, SameNumbered
    <3>3. MyTypes'
      BY <1>1, <1>2, <2>2, <3>1 DEF MyTypes, Shapes, MyFirst
    <3>4. Numbered(rows)'
      BY <1>1, <1>2, <3>1 DEF Numbered
    <3>5. MyResult'
      BY <1>1, <1>2, <1>3, <3>1, <3>2, <3>4 DEF MyResult
    <3>6. up' => MyTalk'
      BY <1>1, <2>4, <3>1 DEF MyTalk, Talk
    <3>7. QED
      BY <3>3, <3>5, <3>6 DEF MyInv
  <2>7. QED
    BY <2>5, <2>6
<1>6. QED
  BY <1>4, <1>5 DEF My!RowRead

-----------------------------------------------------------------------------
(* The server of MySQL hears something only while nothing is on its way to *)
(* the client, and always what it expects.                                 *)
LEMMA MyHears ==
  ASSUME MyTypes, MyTalk, NEW m, My!ServerHears(m)
  PROVE  /\ toSrv' = <<>> /\ toCli = <<>>
         /\ \/ cl = "auth" /\ srv = "response" /\ m = My!P("response", 1)
            \/ cl = "auth" /\ srv = "switched" /\ m = My!P("scramble", 3)
            \/ cl = "auth" /\ srv = "secret" /\ m = My!P("secret", 5)
            \/ cl = "key" /\ srv = "key" /\ m = My!P("keyrequest", 3)
            \/ cl = "first" /\ srv = "ready" /\ rows = <<>> /\ m = [tag |-> "Q", id |-> q, seq |-> 0]
<1>1. toSrv # <<>> /\ m = Head(toSrv) /\ toSrv' = Tail(toSrv)
  BY DEF My!ServerHears
<1>2. \/ cl = "auth" /\ Talk("response", <<My!P("response", 1)>>, <<>>)
      \/ cl = "auth" /\ Talk("switched", <<My!P("scramble", 3)>>, <<>>)
      \/ cl = "auth" /\ Talk("secret", <<My!P("secret", 5)>>, <<>>)
      \/ cl = "key" /\ Talk("key", <<My!P("keyrequest", 3)>>, <<>>)
      \/ cl = "first" /\ Talk("ready", <<[tag |-> "Q", id |-> q, seq |-> 0]>>, <<>>) /\ rows = <<>>
  BY <1>1 DEF MyTypes, MyFirst, MyTalk, Talk
<1>3. QED
  BY <1>1, <1>2, OneMessage DEF Talk

(* A step of the server before the first request. *)
LEMMA MyServes ==
  ASSUME MyTypes, MyResult, cl \in MyFirst,
         UNCHANGED <<cl, q, rows, errout, sock, produced, outcome, method, valid>>,
         up' \in BOOLEAN, IsSeq(toSrv'), IsSeq(toCli'), OkLast'
  PROVE  MyTypes' /\ MyResult'
<1>1. Fresh /\ Fresh'
  BY DEF MyTypes, Fresh
<1>2. MyTypes'
  BY <1>1 DEF MyTypes, Shapes, MyFirst
<1>3. MyResult'
  BY <1>1 DEF MyResult, Fresh, Numbered, MyFirst
<1>4. QED
  BY <1>2, <1>3

LEMMA OnePacket == ASSUME NEW m, toCli' = <<m>> PROVE IsSeq(toCli') /\ OkLast'
BY OneIs DEF OkLast

LEMMA MyGreet == MyInv /\ My!Greet => MyInv'
<1> SUFFICES ASSUME MyInv, My!Greet PROVE MyInv'
  OBVIOUS
<1>1. /\ srv = "listen" /\ sock /\ up
      /\ UNCHANGED <<cl, q, rows, errout, sock, produced, outcome, method, valid, toSrv>>
      /\ \/ up' = FALSE /\ toCli' = toCli \o <<My!P("err", 0)>>
         \/ up' = up /\ srv' = "response" /\ toCli' = toCli \o <<My!P("greeting", 0)>>
  BY DEF My!Greet, My!client, My!Refuse, My!Answer
<1>2. MyTypes /\ MyTalk /\ MyResult /\ Shapes
  BY <1>1 DEF MyInv, MyTypes
<1>3. cl = "dialed" \/ cl \in {"failed", "crashed"}
  BY <1>1, <1>2 DEF MyTypes, MyFirst, MyTalk, Talk
<1>4. up' \in BOOLEAN /\ IsSeq(toSrv')
  BY <1>1, <1>2 DEF Shapes
<1>5. CASE cl = "dialed"
  <2>1. toCli = <<>> /\ toSrv = <<>>
    BY <1>1, <1>2, <1>5 DEF MyTalk, Talk
  <2>2. \/ up' = FALSE /\ toCli' = <<My!P("err", 0)>>
        \/ srv' = "response" /\ toCli' = <<My!P("greeting", 0)>>
    BY <1>1, <2>1, OneIs, AfterNothing
  <2>3. IsSeq(toCli') /\ OkLast'
    BY <2>2, OnePacket
  <2>4. MyTypes' /\ MyResult'
    BY <1>1, <1>2, <1>4, <1>5, <2>3, MyServes DEF MyFirst
  <2>5. up' => MyTalk'
    BY <1>1, <1>5, <2>1, <2>2 DEF MyTalk, Talk
  <2>6. QED
    BY <2>4, <2>5 DEF MyInv
<1>6. CASE cl \in {"failed", "crashed"}
  <2>1. IsSeq(toCli')
    BY <1>1, <1>2, OneIs, ConcatIs DEF Shapes
  <2>2. MyTypes'
    BY <1>1, <1>2, <1>4, <1>6, <2>1 DEF MyTypes, Shapes, MyFirst
  <2>3. MyTalk'
    BY <1>1, <1>2, <1>6 DEF MyTalk
  <2>4. Numbered(rows)' /\ Numbered(rows)
    BY <1>1, <1>2 DEF MyResult, Numbered
  <2>5. MyResult'
    BY <1>1, <1>2, <1>6, <2>4 DEF MyResult, MyEnded
  <2>6. QED
    BY <2>2, <2>3, <2>5 DEF MyInv
<1>7. QED
  BY <1>3, <1>5, <1>6

LEMMA MyAuthenticate == MyInv /\ My!Authenticate => MyInv'
<1> SUFFICES ASSUME MyInv, My!Authenticate PROVE MyInv'
  OBVIOUS
<1>1. PICK m :
        /\ My!ServerHears(m)
        /\ CASE m # My!Expected -> My!Answer(<<My!P("err", m.seq + 1)>>, "gone") /\ UNCHANGED up
             [] m = My!Expected /\ srv = "response" ->
                  CASE method = "native" -> My!Admit(2)
                    [] method = "switch" -> My!Answer(<<My!P("switch", 2)>>, "switched") /\ UNCHANGED up
                    [] method = "cached" /\ valid ->
                         My!Answer(<<My!P("fast", 2), My!P("ok", 3)>>, "ready") /\ UNCHANGED up
                    [] OTHER -> My!Answer(<<My!P("full", 2)>>, "key") /\ UNCHANGED up
             [] m = My!Expected /\ srv = "key" -> My!Answer(<<My!P("pem", 4)>>, "secret") /\ UNCHANGED up
             [] m = My!Expected /\ srv \in {"switched", "secret"} -> My!Admit(m.seq + 1)
  BY DEF My!Authenticate
<1>2. /\ srv \in {"response", "switched", "key", "secret"}
      /\ UNCHANGED <<cl, q, rows, errout, sock, produced, outcome, method, valid>>
  BY DEF My!Authenticate, My!client
<1>3. MyTypes /\ MyTalk /\ MyResult /\ up /\ valid \in BOOLEAN
  BY <1>1 DEF MyInv, MyTypes, Shapes, My!ServerHears
<1>4. /\ toSrv' = <<>> /\ toCli = <<>>
      /\ \/ cl = "auth" /\ srv = "response" /\ m = My!P("response", 1)
         \/ cl = "auth" /\ srv = "switched" /\ m = My!P("scramble", 3)
         \/ cl = "auth" /\ srv = "secret" /\ m = My!P("secret", 5)
         \/ cl = "key" /\ srv = "key" /\ m = My!P("keyrequest", 3)
  BY <1>1, <1>2, <1>3, MyHears
<1>5. m = My!Expected
  BY <1>4 DEF My!Expected
<1>6. ASSUME NEW n, My!Admit(n)
      PROVE  \/ up' = FALSE /\ \E p : toCli' = <<p>>
             \/ up' = up /\ srv' = "ready" /\ toCli' = <<My!P("ok", n)>>
  <2>1. \/ up' = FALSE /\ toCli' = <<>> \o <<My!P("err", n)>>
        \/ up' = up /\ srv' = "ready" /\ toCli' = <<>> \o <<My!P("ok", n)>>
    BY <1>3, <1>4, <1>6 DEF My!Admit, My!Refuse, My!Answer
  <2>2. QED
    BY <2>1, OneIs, AfterNothing
<1>7. ASSUME NEW p, NEW s, My!Answer(<<p>>, s) PROVE srv' = s /\ toCli' = <<p>>
  BY <1>4, <1>7, OneIs, AfterNothing DEF My!Answer
<1>8. \/ up' = FALSE /\ \E p : toCli' = <<p>>
      \/ /\ up' = up /\ cl = "auth"
         /\ \/ srv' = "switched" /\ toCli' = <<My!P("switch", 2)>>
            \/ srv' = "ready" /\ toCli' = <<My!P("fast", 2), My!P("ok", 3)>>
            \/ srv' = "key" /\ toCli' = <<My!P("full", 2)>>
            \/ srv' = "ready" /\ \E n \in {2, 3, 4, 6} : toCli' = <<My!P("ok", n)>>
      \/ up' = up /\ cl = "key" /\ srv' = "secret" /\ toCli' = <<My!P("pem", 4)>>
  <2>1. CASE srv = "response"
    <3>1. cl = "auth"
      BY <1>4, <2>1
    <3>2. \/ My!Admit(2)
          \/ My!Answer(<<My!P("switch", 2)>>, "switched") /\ up' = up
          \/ My!Answer(<<My!P("fast", 2), My!P("ok", 3)>>, "ready") /\ up' = up
          \/ My!Answer(<<My!P("full", 2)>>, "key") /\ up' = up
      BY <1>1, <1>5, <2>1
    <3>3. CASE My!Answer(<<My!P("fast", 2), My!P("ok", 3)>>, "ready") /\ up' = up
      <4>1. <<>> \o <<My!P("fast", 2), My!P("ok", 3)>> = <<My!P("fast", 2), My!P("ok", 3)>>
        OBVIOUS
      <4>2. QED
        BY <1>4, <3>1, <3>3, <4>1 DEF My!Answer
    <3>4. QED
      BY <1>6, <1>7, <3>1, <3>2, <3>3
  <2>2. CASE srv = "key"
    <3>1. My!Answer(<<My!P("pem", 4)>>, "secret") /\ up' = up /\ cl = "key"
      BY <1>1, <1>4, <1>5, <2>2
    <3>2. QED
      BY <1>7, <3>1
  <2>3. CASE srv \in {"switched", "secret"}
    <3>1. My!Admit(m.seq + 1) /\ cl = "auth"
      BY <1>1, <1>4, <1>5, <2>3
    <3>2. m.seq + 1 \in {4, 6}
      BY <1>4, <2>3, TagsDiffer
    <3>3. QED
      BY <1>6, <3>1, <3>2
  <2>4. QED
    BY <1>2, <2>1, <2>2, <2>3
<1>9. IsSeq(toCli') /\ OkLast' /\ up' \in BOOLEAN /\ IsSeq(toSrv')
  <2>1. ASSUME toCli' = <<My!P("fast", 2), My!P("ok", 3)>> PROVE IsSeq(toCli') /\ OkLast'
    <3>1. toCli' \in Seq({My!P("fast", 2), My!P("ok", 3)}) /\ Len(toCli') = 2
          /\ toCli'[1] = My!P("fast", 2)
      BY <2>1
    <3>2. toCli'[1].tag # "ok"
      BY <3>1, TagsDiffer
    <3>3. \A i \in 1 .. Len(toCli') : toCli'[i].tag = "ok" => i = Len(toCli')
      BY <3>1, <3>2
    <3>4. QED
      BY <3>1, <3>3, SeqIs DEF OkLast
  <2>2. up' \in BOOLEAN /\ IsSeq(toSrv')
    BY <1>3, <1>4, <1>8, EmptyIs
  <2>3. IsSeq(toCli') /\ OkLast'
    BY <1>8, <2>1, OnePacket
  <2>4. QED
    BY <2>2, <2>3
<1>10. MyTypes' /\ MyResult'
  BY <1>2, <1>3, <1>4, <1>9, MyServes DEF MyFirst
<1>11. up' => MyTalk'
  BY <1>2, <1>4, <1>8 DEF MyTalk, Talk
<1>12. QED
  BY <1>10, <1>11 DEF MyInv

(* The answer with n rows. *)
WithRows(id, n, end) ==
  <<My!P("columns", 1), My!P("definition", 2), My!P("eof", 3)>>
    \o [k \in 1 .. n |-> My!Row(id, k)] \o <<end>>

LEMMA MyAnswer ==
  ASSUME NEW n \in Nat, NEW end, NEW s, s = WithRows(q, n, end)
  PROVE  /\ IsSeq(s) /\ Len(s) = n + 4
         /\ s[1].tag = "columns"
         /\ \A i \in 4 .. n + 3 : s[i] = My!Row(q, i - 3)
         /\ s[n + 4] = end
<1> DEFINE h == <<My!P("columns", 1), My!P("definition", 2), My!P("eof", 3)>>
           d == [k \in 1 .. n |-> My!Row(q, k)]
           e == <<end>>
           u == h \o d
<1>1. IsSeq(h) /\ Len(h) = 3 /\ h[1].tag = "columns"
  <2>1. h \in Seq({My!P("columns", 1), My!P("definition", 2), My!P("eof", 3)})
    OBVIOUS
  <2>2. Len(h) = 3 /\ h[1] = My!P("columns", 1)
    OBVIOUS
  <2>3. QED
    BY <2>1, <2>2, SeqIs, TagsDiffer
<1>2. IsSeq(d) /\ Len(d) = n /\ \A i \in 1 .. n : d[i] = My!Row(q, i)
  <2>1. IsSeq(d) /\ Len(d) = n
    BY FunctionIs
  <2>2. QED
    BY <2>1
<1>3. IsSeq(e) /\ Len(e) = 1 /\ e[1] = end
  BY OneIs
<1> HIDE DEF h, d, e
<1>4. /\ IsSeq(u) /\ Len(u) = 3 + n
      /\ \A i \in 1 .. 3 : u[i] = h[i]
      /\ \A i \in 4 .. 3 + n : u[i] = d[i - 3]
  <2>1. /\ IsSeq(h \o d) /\ Len(h \o d) = Len(h) + Len(d)
        /\ \A i \in 1 .. Len(h) : (h \o d)[i] = h[i]
        /\ \A i \in Len(h) + 1 .. Len(h) + Len(d) : (h \o d)[i] = d[i - Len(h)]
    BY <1>1, <1>2, ConcatIs
  <2>2. QED
    BY <1>1, <1>2, <2>1
<1>5. s = u \o e
  BY DEF h, d, e, WithRows
<1> HIDE DEF u
<1>6. /\ IsSeq(s) /\ Len(s) = (3 + n) + 1
      /\ \A i \in 1 .. 3 + n : s[i] = u[i]
      /\ \A i \in (3 + n) + 1 .. (3 + n) + 1 : s[i] = e[i - (3 + n)]
  <2>1. /\ IsSeq(u \o e) /\ Len(u \o e) = Len(u) + Len(e)
        /\ \A i \in 1 .. Len(u) : (u \o e)[i] = u[i]
        /\ \A i \in Len(u) + 1 .. Len(u) + Len(e) : (u \o e)[i] = e[i - Len(u)]
    BY <1>3, <1>4, ConcatIs
  <2>2. QED
    BY <1>3, <1>4, <1>5, <2>1
<1>7. s[1].tag = "columns"
  <2>1. 1 \in 1 .. 3 + n /\ 1 \in 1 .. 3
    OBVIOUS
  <2>2. s[1] = h[1]
    BY <1>4, <1>6, <2>1
  <2>3. QED
    BY <1>1, <2>2
<1>8. ASSUME NEW i \in 4 .. n + 3 PROVE s[i] = My!Row(q, i - 3)
  <2>1. i \in 1 .. 3 + n /\ i \in 4 .. 3 + n /\ i - 3 \in 1 .. n
    OBVIOUS
  <2>2. s[i] = d[i - 3]
    BY <1>4, <1>6, <2>1
  <2>3. QED
    BY <1>2, <2>1, <2>2
<1>9. s[n + 4] = end
  <2>1. n + 4 \in (3 + n) + 1 .. (3 + n) + 1 /\ (n + 4) - (3 + n) = 1
    OBVIOUS
  <2>2. s[n + 4] = e[(n + 4) - (3 + n)]
    BY <1>6, <2>1
  <2>3. QED
    BY <1>3, <2>1, <2>2
<1>10. Len(s) = n + 4
  BY <1>6
<1>11. QED
  BY <1>6, <1>7, <1>8, <1>9, <1>10

LEMMA MyExecute == MyInv /\ My!Execute => MyInv'
<1> SUFFICES ASSUME MyInv, My!Execute PROVE MyInv'
  OBVIOUS
<1>1. PICK m :
        /\ My!ServerHears(m)
        /\ \/ /\ \E tag \in {"ok", "err"} :
                   /\ outcome' = IF tag = "ok" THEN "done" ELSE "failed"
                   /\ My!Answer(<<My!P(tag, 1)>>, srv)
              /\ produced' = <<>>
           \/ \E n \in 0 .. MaxRows, end \in {"eof", "err"} :
                /\ outcome'  = IF end = "eof" THEN "done" ELSE "failed"
                /\ produced' = [k \in 1 .. n |-> <<m.id, k>>]
                /\ My!Answer(<<My!P("columns", 1), My!P("definition", 2), My!P("eof", 3)>>
                               \o [k \in 1 .. n |-> My!Row(m.id, k)] \o <<My!P(end, 4 + n)>>, srv)
  BY DEF My!Execute
<1>2. srv = "ready" /\ UNCHANGED <<cl, q, rows, errout, sock, method, valid, up>>
  BY DEF My!Execute, My!client
<1>3. MyTypes /\ MyTalk /\ MyResult /\ Shapes /\ up
  BY <1>1 DEF MyInv, MyTypes, My!ServerHears
<1>4. /\ toSrv' = <<>> /\ toCli = <<>> /\ cl = "first" /\ rows = <<>>
      /\ m = [tag |-> "Q", id |-> q, seq |-> 0]
  BY <1>1, <1>2, <1>3, MyHears
<1>5. m.id = q /\ ~errout /\ Numbered(rows)'
  BY <1>2, <1>3, <1>4 DEF MyResult, Numbered
<1>6. ASSUME IsSeq(toCli'), IsSeq(produced'), srv' = srv,
             MyOnly' \/ (MyRest(3)' /\ MyEnded'),
             MyWhole(3)' \/ (Len(toCli') = 1 /\ toCli'[1].tag # "columns")
      PROVE  MyInv'
  <2>1. IsSeq(toSrv')
    BY <1>4, EmptyIs
  <2>2. MyTypes'
    BY <1>2, <1>3, <1>4, <1>6, <2>1 DEF MyTypes, Shapes, MyFirst
  <2>3. MyTalk'
    BY <1>2, <1>4, <1>6 DEF MyTalk
  <2>4. MyResult'
    BY <1>2, <1>4, <1>5, <1>6 DEF MyResult
  <2>5. QED
    BY <2>2, <2>3, <2>4 DEF MyInv
<1>7. ASSUME NEW tag \in {"ok", "err"}, outcome' = IF tag = "ok" THEN "done" ELSE "failed",
             My!Answer(<<My!P(tag, 1)>>, srv), produced' = <<>>
      PROVE  MyInv'
  <2>1. toCli' = <<My!P(tag, 1)>> /\ srv' = srv
    BY <1>4, <1>7, OneIs, AfterNothing DEF My!Answer
  <2>2. IsSeq(toCli') /\ Len(toCli') = 1 /\ toCli'[1].tag = tag /\ IsSeq(produced')
    BY <1>7, <2>1, OneIs, TagsDiffer, EmptyIs
  <2>3. MyOnly'
    BY <1>2, <1>4, <1>7, <2>2 DEF MyOnly
  <2>4. QED
    BY <1>6, <2>1, <2>2, <2>3
<1>8. ASSUME NEW n \in 0 .. MaxRows, NEW end \in {"eof", "err"},
             outcome'  = IF end = "eof" THEN "done" ELSE "failed",
             produced' = [k \in 1 .. n |-> <<q, k>>],
             My!Answer(<<My!P("columns", 1), My!P("definition", 2), My!P("eof", 3)>>
                         \o [k \in 1 .. n |-> My!Row(q, k)] \o <<My!P(end, 4 + n)>>, srv)
      PROVE  MyInv'
  <2> PICK s : s = WithRows(q, n, My!P(end, 4 + n))
    OBVIOUS
  <2>1. n \in Nat
    OBVIOUS
  <2>2. /\ IsSeq(s) /\ Len(s) = n + 4 /\ s[1].tag = "columns"
        /\ \A i \in 4 .. n + 3 : s[i] = My!Row(q, i - 3)
        /\ s[n + 4] = My!P(end, 4 + n)
    BY <2>1, MyAnswer
  <2>3. toCli' = s /\ srv' = srv
    BY <1>4, <1>8, <2>2, AfterNothing DEF My!Answer, WithRows
  <2>4. IsSeq(produced') /\ Len(produced') = n /\ Numbered(produced)'
    <3>1. IsSeq(produced') /\ Len(produced') = n
      BY <1>8, <2>1, FunctionIs
    <3>2. QED
      BY <1>2, <1>8, <3>1 DEF Numbered
  <2>5. s[n + 4].tag = end
    BY <2>2, TagsDiffer
  <2>6. MyWhole(3)'
    BY <2>1, <2>2, <2>3, <2>5 DEF MyWhole
  <2>7. MyEnded'
    BY <1>8 DEF MyEnded
  <2>8. MyRest(3)'
    <3>1. ASSUME NEW i \in 3 + 1 .. Len(toCli')
          PROVE  IF toCli'[i].tag = "row" THEN toCli'[i].row = <<q', Len(rows') + i - 3>>
                 ELSE /\ i = Len(toCli')
                      /\ Len(produced') = Len(rows') + i - 3 - 1
                      /\ Numbered(produced)'
                      /\ \/ toCli'[i].tag = "eof" /\ outcome' = "done"
                         \/ toCli'[i].tag = "err" /\ outcome' = "failed"
      <4>1. Len(rows') = 0 /\ q' = q /\ i \in 4 .. n + 4 /\ i \in Int
        BY <1>2, <1>4, <2>1, <2>2, <2>3
      <4>2. CASE i \in 4 .. n + 3
        <5>1. toCli'[i] = My!Row(q, i - 3) /\ 0 + i - 3 = i - 3
          BY <2>2, <2>3, <4>1, <4>2
        <5>2. My!Row(q, i - 3).tag = "row" /\ My!Row(q, i - 3).row = <<q, i - 3>>
          BY DEF My!Row
        <5>3. QED
          BY <4>1, <5>1, <5>2
      <4>3. CASE i = n + 4
        <5>1. toCli'[i].tag = end /\ end # "row" /\ i = Len(toCli')
          BY <2>2, <2>3, <2>5, <4>3
        <5>2. Len(produced') = Len(rows') + i - 3 - 1
          BY <2>1, <2>4, <4>1, <4>3
        <5>3. \/ toCli'[i].tag = "eof" /\ outcome' = "done"
              \/ toCli'[i].tag = "err" /\ outcome' = "failed"
          BY <1>8, <5>1
        <5>4. QED
          BY <2>4, <5>1, <5>2, <5>3
      <4>4. QED
        BY <2>1, <4>1, <4>2, <4>3
    <3>2. toCli'[1].tag = "columns"
      BY <2>2, <2>3
    <3>3. QED
      BY <3>1, <3>2 DEF MyRest
  <2>9. IsSeq(toCli')
    BY <2>2, <2>3
  <2>10. QED
    BY <1>6, <2>3, <2>4, <2>6, <2>7, <2>8, <2>9
<1>9. QED
  BY <1>1, <1>5, <1>7, <1>8

(* The link is lost. *)
LEMMA MyDrop == MyInv /\ Drop => MyInv'
<1> SUFFICES ASSUME MyInv, Drop PROVE MyInv'
  OBVIOUS
<1>1. /\ up /\ up' = FALSE
      /\ UNCHANGED <<cl, q, rows, errout, sock, method, valid, produced, outcome, toSrv>>
  BY DEF Drop, client
<1>2. PICK k \in 0 .. Len(toCli) : toCli' = SubSeq(toCli, 1, k)
  BY DEF Drop
<1>3. IsSeq(toCli) /\ MyTypes /\ Shapes
  BY DEF MyInv, MyTypes, Shapes
<1>4. /\ IsSeq(toCli') /\ Len(toCli') = k
      /\ \A i \in 1 .. k : toCli'[i] = toCli[i]
  BY <1>2, <1>3, PrefixIs
<1>5. Len(toCli) \in Nat /\ k \in Nat /\ k <= Len(toCli) /\ (toCli' # <<>> <=> k > 0)
      /\ (toCli # <<>> <=> Len(toCli) > 0)
  BY <1>3, <1>4, SeqShape
<1>6. MyTypes'
  <2>1. cl = "idle" => toCli' = <<>>
    BY <1>3, <1>4, <1>5, SeqShape DEF MyTypes
  <2>2. OkLast => OkLast'
    <3>1. ASSUME OkLast, NEW i \in 1 .. k, toCli'[i].tag = "ok" PROVE i = k
      <4>1. i \in 1 .. Len(toCli) /\ toCli[i].tag = "ok"
        BY <1>4, <1>5, <3>1
      <4>2. i = Len(toCli)
        BY <3>1, <4>1 DEF OkLast
      <4>3. QED
        BY <1>5, <4>2
    <3>2. QED
      BY <1>4, <3>1 DEF OkLast
  <2>3. QED
    BY <1>1, <1>3, <1>4, <2>1, <2>2 DEF MyTypes, Shapes, Fresh
<1>7. ASSUME NEW n \in 0 .. 3, MyRest(n) PROVE MyRest(n)'
  <2>1. ASSUME NEW i \in n + 1 .. Len(toCli')
        PROVE  IF toCli'[i].tag = "row" THEN toCli'[i].row = <<q', Len(rows') + i - n>>
               ELSE /\ i = Len(toCli')
                    /\ Len(produced') = Len(rows') + i - n - 1
                    /\ Numbered(produced)'
                    /\ \/ toCli'[i].tag = "eof" /\ outcome' = "done"
                       \/ toCli'[i].tag = "err" /\ outcome' = "failed"
    <3>1. i \in n + 1 .. Len(toCli) /\ toCli'[i] = toCli[i] /\ i <= k
      BY <1>4, <1>5
    <3>2. IF toCli[i].tag = "row" THEN toCli[i].row = <<q, Len(rows) + i - n>>
          ELSE /\ i = Len(toCli)
               /\ Len(produced) = Len(rows) + i - n - 1
               /\ Numbered(produced)
               /\ \/ toCli[i].tag = "eof" /\ outcome = "done"
                  \/ toCli[i].tag = "err" /\ outcome = "failed"
      BY <1>7, <3>1 DEF MyRest
    <3>3. i = Len(toCli) => i = Len(toCli')
      BY <1>4, <1>5, <3>1
    <3>4. Numbered(produced)' <=> Numbered(produced)
      BY <1>1 DEF Numbered
    <3>5. QED
      BY <1>1, <3>1, <3>2, <3>3, <3>4
  <2>2. n = 3 /\ toCli' # <<>> => toCli'[1].tag = "columns"
    BY <1>4, <1>5, <1>7 DEF MyRest
  <2>3. QED
    BY <2>1, <2>2 DEF MyRest
<1>8. MyOnly => MyOnly' \/ toCli' = <<>>
  <2> SUFFICES ASSUME MyOnly, toCli' # <<>> PROVE MyOnly'
    OBVIOUS
  <2>1. k = 1 /\ toCli'[1] = toCli[1]
    BY <1>4, <1>5 DEF MyOnly
  <2>2. QED
    BY <1>1, <1>4, <2>1 DEF MyOnly
<1>9. toCli' = <<>> => MyRest(3)'
  BY DEF MyRest
<1>10. MyEnded' <=> MyEnded
  BY <1>1 DEF MyEnded
<1>11. Numbered(rows)'
  BY <1>1 DEF MyInv, MyResult, Numbered
<1>12. cl = "first" => ~errout /\ (MyOnly' \/ (MyRest(3)' /\ (toCli' # <<>> => MyEnded')))
  <2>1. toCli' # <<>> => toCli # <<>>
    BY <1>5
  <2>2. QED
    BY <1>7, <1>8, <1>9, <1>10, <2>1 DEF MyInv, MyResult
<1>13. MyResult'
  BY <1>1, <1>7, <1>10, <1>11, <1>12 DEF MyInv, MyResult, MyEnded
<1>14. QED
  BY <1>1, <1>6, <1>13 DEF MyInv

LEMMA MyStarts == My!Init => MyInv
<1> SUFFICES ASSUME My!Init PROVE MyInv
  OBVIOUS
<1>1. /\ cl = "connect" /\ q = 0 /\ rows = <<>> /\ errout = FALSE /\ srv = "listen"
      /\ valid \in BOOLEAN /\ produced = <<>> /\ outcome = "none" /\ sock = FALSE
      /\ toSrv = <<>> /\ toCli = <<>> /\ up = TRUE /\ method \in My!MyMethods
  BY DEF My!Init, My!ConnInit
<1>2. Shapes
  BY <1>1, EmptyIs DEF Shapes
<1>3. MyTypes
  BY <1>1, <1>2 DEF MyTypes, MyFirst, Fresh, OkLast
<1>4. MyTalk
  BY <1>1 DEF MyTalk, Talk
<1>5. MyResult
  BY <1>1 DEF MyResult, Numbered
<1>6. QED
  BY <1>3, <1>4, <1>5 DEF MyInv

(* Every step of a program with a connection to MySQL. *)
LEMMA MySteps ==
  ASSUME MyInv,
         \/ My!Opening \/ My!ClientReads \/ My!Query \/ My!QueryInvalid \/ My!Close
         \/ My!ServerStep \/ Drop
  PROVE  MyInv'
<1>1. CASE My!Opening
  BY <1>1, MyConnect, MyGreetingRead DEF My!Opening
<1>2. CASE My!ClientReads
  BY <1>2, MyAuthRead, MyKeyRead, MyFirstRead, MySkipRead, MyRowRead DEF My!ClientReads
<1>3. CASE My!ServerStep
  BY <1>3, MyGreet, MyAuthenticate, MyExecute DEF My!ServerStep
<1>4. QED
  BY <1>1, <1>2, <1>3, MyQuery, MyQueryInvalid, MyClose, MyDrop

-----------------------------------------------------------------------------
LEMMA MySame == ASSUME MyInv, UNCHANGED conn PROVE MyInv'
<1>1. UNCHANGED <<cl, q, op, rows, errout, sock, tls, srv, method, valid, produced, outcome, toSrv, toCli, up>>
  BY DEF conn, client, server, link
<1>2. MyTypes'
  <2>1. Shapes' /\ (OkLast => OkLast')
    BY <1>1 DEF MyInv, MyTypes, Shapes, OkLast
  <2>2. QED
    BY <1>1, <2>1 DEF MyInv, MyTypes, Fresh
<1>3. up => MyTalk'
  BY <1>1 DEF MyInv, MyTalk, Talk, MyWhole
<1>4. MyResult'
  <2>1. /\ MyOnly => MyOnly'
        /\ MyEnded => MyEnded'
        /\ (MyRest(0) => MyRest(0)') /\ (MyRest(1) => MyRest(1)')
        /\ (MyRest(2) => MyRest(2)') /\ (MyRest(3) => MyRest(3)')
    BY <1>1 DEF MyOnly, MyEnded, MyRest, Numbered
  <2>2. Numbered(rows)'
    BY <1>1 DEF MyInv, MyResult, Numbered
  <2>3. QED
    BY <1>1, <2>1, <2>2 DEF MyInv, MyResult
<1>5. QED
  BY <1>1, <1>2, <1>3, <1>4 DEF MyInv

LEMMA MyRests ==
  ASSUME My!Opening \/ My!ClientReads \/ My!Close \/ My!ServerStep \/ Drop, Resting
  PROVE  Resting' /\ UNCHANGED rows
<1>1. CASE My!Opening
  BY <1>1 DEF My!Opening, My!Connect, My!Dial, My!GreetingRead, Resting
<1>2. CASE My!ClientReads
  BY <1>2 DEF My!ClientReads, My!AuthRead, My!KeyRead, My!FirstRead, My!SkipRead, My!RowRead, Resting
<1>3. CASE My!Close
  BY <1>3 DEF My!Close, My!WriteGoto, Resting
<1>4. CASE My!ServerStep
  BY <1>4 DEF My!ServerStep, My!Greet, My!Authenticate, My!Execute, My!client, Resting
<1>5. CASE Drop
  BY <1>5 DEF Drop, client, Resting
<1>6. QED
  BY <1>1, <1>2, <1>3, <1>4, <1>5

(* Every step of a program with a connection to MySQL. *)
LEMMA MyDb ==
  ASSUME kind = "mysql", MyInv, LoopInv, [Next]_vars
  PROVE  MyInv' /\ LoopInv'
<1>1. CASE UNCHANGED conn /\ UNCHANGED program
  <2>1. MyInv'
    BY <1>1, MySame
  <2>2. Len(rows') \in Nat
    BY <2>1, SeqShape DEF MyInv, MyTypes, Shapes
  <2>3. UNCHANGED <<cl, rows>>
    BY <1>1 DEF conn, client
  <2>4. Resting => Resting' /\ UNCHANGED rows
    BY <2>3 DEF Resting
  <2>5. QED
    BY <1>1, <2>1, <2>2, <2>4, LoopSteps
<1>2. CASE (WireStep \/ WireDrop)
  <2>1. My!Opening \/ My!ClientReads \/ My!Close \/ My!ServerStep \/ Drop
    BY <1>2 DEF WireStep, WireDrop, Opening, ClientReads, Close, ServerStep
  <2>2. MyInv'
    BY <2>1, MySteps
  <2>3. Len(rows') \in Nat
    BY <2>2, SeqShape DEF MyInv, MyTypes, Shapes
  <2>4. UNCHANGED program
    BY <1>2 DEF WireStep, WireDrop
  <2>5. QED
    BY <2>1, <2>2, <2>3, <2>4, MyRests, LoopSteps
<1>3. CASE WireRequest
  <2>1. My!Query \/ My!QueryInvalid
    BY <1>3 DEF WireRequest, Query
  <2>2. MyInv'
    BY <2>1, MySteps
  <2>3. Len(rows') \in Nat
    BY <2>2, SeqShape DEF MyInv, MyTypes, Shapes
  <2>4. QED
    BY <1>3, <2>2, <2>3, LoopRequest
<1>4. CASE WireNext
  BY <1>4, MySame, LoopNext DEF WireNext
<1>5. CASE Break
  BY <1>5, MySame, LoopBreak DEF Break
<1>6. QED
  <2>1. ~Sqlite /\ ~MongoStep
    BY DEF Sqlite, SqliteOpen, SqliteExec, SqliteQuery, SqliteNext, SqliteClose, SqliteInvalid, MongoStep
  <2>2. Finished \/ UNCHANGED vars => UNCHANGED conn /\ UNCHANGED program
    BY DEF Finished, vars
  <2>3. QED
    BY <1>1, <1>2, <1>3, <1>4, <1>5, <2>1, <2>2 DEF Next

-----------------------------------------------------------------------------
(* MongoDB *)

MgFirst == {"connect", "dialed", "start", "proof", "confirm"}

MgKinds == {"insert", "find", "update", "delete"}

(* A document that came from a text the program inserted. *)
Inserted(doc) == \E t \in posted : doc = Mg!WithId(ToBson(t))

(* The JSON value of such a document. *)
ReadBack(value) == \E t \in posted : value = FromBson(Mg!WithId(ToBson(t)))

MgTypes ==
  /\ Shapes
  /\ cl \in MgFirst \cup {"idle", "reply", "failed", "closed", "killed"}
  /\ cl \in MgFirst => Fresh
  /\ Len(toCli) <= 1
  /\ cl = "idle" => toCli = <<>>
  /\ cl \in {"connect", "failed", "closed"} => ~sock
  /\ \A i \in 1 .. Len(produced) : Inserted(produced[i])

(* The conversation on a link that holds: one message is on its way, in    *)
(* one direction or in the other, while the client waits, and none while   *)
(* it does not.                                                            *)
MgTalk ==
  /\ cl \in {"connect", "dialed"} => Talk("listen", <<>>, <<>>)
  /\ cl = "start" => \/ Talk("listen", <<[type |-> "start"]>>, <<>>)
                     \/ Talk("listen", <<>>, <<[ok |-> TRUE, done |-> FALSE]>>)
  /\ cl = "proof" =>
       \/ Talk("listen", <<[type |-> "proof"]>>, <<>>)
       \/ \E s, a, b : /\ Talk(s, <<>>, <<[ok |-> a, done |-> b]>>)
                       /\ a /\ ~b => s = "listen"
  /\ cl = "confirm" => \/ Talk("listen", <<[type |-> "confirm"]>>, <<>>)
                       \/ \E s, a : Talk(s, <<>>, <<[ok |-> a, done |-> TRUE]>>)
  /\ cl = "idle" => toSrv = <<>>
  /\ cl = "reply" =>
       \/ /\ toCli = <<>> /\ Len(toSrv) = 1 /\ toSrv[1].type = op
          /\ op = "insert" => \E t \in posted : toSrv[1].doc = ToBson(t)
       \/ toSrv = <<>> /\ Len(toCli) = 1
  /\ cl = "failed" => toSrv = <<>>
  /\ cl \notin {"closed", "killed"}

(* The reply to the current request says what became of it. *)
MgAnswer(m) ==
  /\ m.ok \in BOOLEAN /\ m.writeErrors \in BOOLEAN
  /\ outcome = IF m.ok /\ ~m.writeErrors THEN "done" ELSE "failed"
  /\ IsSeq(m.batch)
  /\ op = "find" /\ outcome = "done" => Len(m.batch) = Min({FirstBatch, Len(produced)})
  /\ \A i \in 1 .. Len(m.batch) : Inserted(m.batch[i])

MgResult ==
  /\ cl = "reply" => /\ op \in MgKinds /\ ~errout /\ rows = <<>>
                     /\ \A i \in 1 .. Len(toCli) : MgAnswer(toCli[i])
  /\ \A i \in 1 .. Len(rows) : ReadBack(rows[i])
  /\ cl \in {"idle", "failed", "closed"} /\ q > 0 =>
       /\ op \in MgKinds
       /\ op = "find" /\ outcome = "done" /\ up => Len(rows) = Min({FirstBatch, Len(produced)})
       /\ op # "find" => IF errout THEN up => outcome # "done"
                         ELSE outcome = "done" \/ (op # "insert" /\ outcome = "failed")

MgInv == MgTypes /\ (up => MgTalk) /\ MgResult

(* A batch is no longer than the collection, nor than FirstBatch. *)
LEMMA Least ==
  ASSUME NEW a \in Nat, NEW b \in Nat
  PROVE  /\ Mg!Min({a, b}) = Min({a, b})
         /\ Min({a, b}) \in Nat /\ Min({a, b}) <= b
<1>1. PICK m \in {a, b} : \A y \in {a, b} : m <= y
  OBVIOUS
<1>2. Min({a, b}) \in {a, b} /\ \A y \in {a, b} : Min({a, b}) <= y
  BY <1>1 DEF Min
<1>3. Mg!Min({a, b}) \in {a, b} /\ \A y \in {a, b} : Mg!Min({a, b}) <= y
  BY <1>1 DEF Mg!Min
<1>4. QED
  BY <1>2, <1>3

(* There is never more than one message to read. *)
LEMMA MgReads ==
  ASSUME MgTypes, NEW m, Mg!Reads(m)
  PROVE  toCli = <<m>> /\ Len(toCli) = 1 /\ toCli[1] = m /\ toCli' = <<>>
<1>1. IsSeq(toCli) /\ Len(toCli) <= 1 /\ toCli # <<>> /\ m = Head(toCli) /\ toCli' = Tail(toCli)
  BY DEF MgTypes, Shapes, Mg!Reads
<1>2. Len(toCli) = 1 /\ m = toCli[1] /\ IsSeq(toCli') /\ Len(toCli') = 0
  <2>1. Len(toCli) \in Nat
    BY <1>1, SeqShape
  <2>2. /\ IsSeq(Tail(toCli)) /\ Len(Tail(toCli)) = Len(toCli) - 1
        /\ Len(toCli) >= 1 /\ Head(toCli) = toCli[1]
    BY <1>1, TailIs
  <2>3. QED
    BY <1>1, <2>1, <2>2
<1>3. toCli' = <<>>
  BY <1>2, SeqShape
<1>4. toCli = [i \in 1 .. 1 |-> m]
  BY <1>1, <1>2 DEF IsSeq
<1>5. QED
  BY <1>1, <1>2, <1>3, <1>4

(* A step of the client on its way to a connection. *)
LEMMA MgOpens ==
  ASSUME MgTypes, MgResult, cl \in MgFirst,
         UNCHANGED <<q, rows, errout, produced, outcome, valid, up, posted>>,
         cl' \in {"dialed", "start", "proof", "confirm", "idle", "failed", "killed"},
         toCli' = toCli \/ toCli' = <<>>,
         cl' = "idle" => toCli' = <<>>,
         cl' = "failed" => ~sock',
         toSrv' = toSrv \/ \E m : toSrv' = Append(toSrv, m)
  PROVE  MgTypes' /\ MgResult'
<1>1. IsSeq(toCli) /\ IsSeq(toSrv) /\ Len(toCli) <= 1
  BY DEF MgTypes, Shapes
<1>2. IsSeq(toSrv')
  <2>1. CASE toSrv' = toSrv
    BY <1>1, <2>1
  <2>2. ASSUME NEW m, toSrv' = Append(toSrv, m) PROVE IsSeq(toSrv')
    BY <1>1, <2>2, AppendIs
  <2>3. QED
    BY <2>1, <2>2
<1>3. IsSeq(toCli') /\ Len(toCli') <= 1
  BY <1>1, EmptyIs
<1>4. Fresh /\ Fresh'
  BY DEF MgTypes, Fresh
<1>5. MgTypes'
  BY <1>2, <1>3, <1>4 DEF MgTypes, Shapes, MgFirst, Inserted
<1>6. MgResult'
  BY <1>4 DEF MgResult, Fresh, MgFirst
<1>7. QED
  BY <1>5, <1>6

LEMMA MgConnect == MgInv /\ Mg!Connect => MgInv'
<1> SUFFICES ASSUME MgInv, Mg!Connect PROVE MgInv'
  OBVIOUS
<1>1. /\ cl = "connect" /\ UNCHANGED <<q, rows, errout, produced, outcome, valid, up, posted, toCli, toSrv, srv>>
      /\ cl' \in {"dialed", "idle", "failed"} /\ (cl' = "failed" => ~sock' /\ ~up)
  BY DEF Mg!Connect, Mg!Dial, Mg!server, Mg!link
<1>2. toCli = <<>> \/ ~up
  BY <1>1 DEF MgInv, MgTalk, Talk
<1>3. cl' = "idle" => up
  BY DEF Mg!Connect, Mg!Dial, Mg!server, Mg!link
<1>4. MgTypes' /\ MgResult'
  BY <1>1, <1>2, <1>3, MgOpens DEF MgInv, MgFirst
<1>5. up' => MgTalk'
  BY <1>1 DEF MgInv, MgTalk, Talk
<1>6. QED
  BY <1>4, <1>5 DEF MgInv

LEMMA MgSaslStart == MgInv /\ Mg!SaslStart => MgInv'
<1> SUFFICES ASSUME MgInv, Mg!SaslStart PROVE MgInv'
  OBVIOUS
<1>1. /\ cl = "dialed" /\ UNCHANGED <<q, rows, errout, produced, outcome, valid, up, posted, toCli, srv>>
  BY DEF Mg!SaslStart, Mg!server
<1>2. /\ cl' \in {"start", "killed", "failed"} /\ (cl' = "failed" => ~sock')
      /\ toSrv' = toSrv \/ toSrv' = Append(toSrv, [type |-> "start"])
  BY DEF Mg!SaslStart, Mg!Converse, Mg!WriteGoto, Mg!GiveUp, Mg!Goto
<1>3. MgTypes' /\ MgResult'
  BY <1>1, <1>2, MgOpens DEF MgInv, MgFirst
<1>4. ASSUME up PROVE MgTalk'
  <2>1. srv = "listen" /\ toSrv = <<>> /\ toCli = <<>>
    BY <1>1, <1>4 DEF MgInv, MgTalk, Talk
  <2>2. cl' = "start" /\ toSrv' = <<[type |-> "start"]>>
    BY <1>4, <2>1 DEF Mg!SaslStart, Mg!Converse, Mg!WriteGoto
  <2>3. QED
    BY <1>1, <2>1, <2>2 DEF MgTalk, Talk
<1>5. QED
  BY <1>1, <1>3, <1>4 DEF MgInv

(* The replies of the authentication. *)
LEMMA ReplySays ==
  ASSUME NEW a, NEW b
  PROVE  LET m == [ok |-> a, done |-> b] IN m.ok = a /\ m.done = b
OBVIOUS

LEMMA MgSaslRead == MgInv /\ Mg!SaslRead => MgInv'
<1> SUFFICES ASSUME MgInv, Mg!SaslRead PROVE MgInv'
  OBVIOUS
<1>1. /\ cl \in {"start", "proof", "confirm"}
      /\ UNCHANGED <<q, rows, errout, produced, outcome, valid, up, posted, srv>>
  BY DEF Mg!SaslRead, Mg!server
<1>2. CASE Mg!ReadFails /\ Mg!GiveUp
  <2>1. /\ ~up /\ cl' = "failed" /\ ~sock' /\ UNCHANGED <<toCli, toSrv>>
    BY <1>2 DEF Mg!ReadFails, Mg!GiveUp, Mg!Goto
  <2>2. MgTypes' /\ MgResult'
    BY <1>1, <2>1, MgOpens DEF MgInv, MgFirst
  <2>3. QED
    BY <1>1, <2>1, <2>2 DEF MgInv
<1>3. ASSUME NEW m, Mg!Reads(m),
             CASE ~m.ok -> Mg!GiveUp
               [] m.ok /\ cl = "start" -> Mg!Converse([type |-> "proof"], "proof")
               [] m.ok /\ cl = "proof" /\ ~m.done -> Mg!Converse([type |-> "confirm"], "confirm")
               [] OTHER -> Mg!Goto("idle") /\ UNCHANGED sock
      PROVE  MgInv'
  <2>1. toCli = <<m>> /\ toCli' = <<>>
    BY <1>3, MgReads DEF MgInv
  <2>2. \/ cl' = "failed" /\ ~sock' /\ toSrv' = toSrv
        \/ cl = "start" /\ Mg!Converse([type |-> "proof"], "proof")
        \/ cl = "proof" /\ m.ok /\ ~m.done /\ Mg!Converse([type |-> "confirm"], "confirm")
        \/ cl' = "idle" /\ toSrv' = toSrv
    BY <1>1, <1>3 DEF Mg!GiveUp, Mg!Goto
  <2>3. /\ cl' \in {"proof", "confirm", "idle", "failed", "killed"} /\ (cl' = "failed" => ~sock')
        /\ toSrv' = toSrv \/ \E p : toSrv' = Append(toSrv, p)
    BY <2>2 DEF Mg!Converse, Mg!WriteGoto, Mg!GiveUp, Mg!Goto
  <2>4. MgTypes' /\ MgResult'
    BY <1>1, <2>1, <2>3, MgOpens DEF MgInv, MgFirst
  <2>5. ASSUME up PROVE MgTalk'
    <3>1. toSrv = <<>>
      BY <1>1, <2>1, <2>5 DEF MgInv, MgTalk, Talk
    <3>2. CASE cl' \in {"failed", "idle"} /\ toSrv' = toSrv
      BY <3>1, <3>2 DEF MgTalk
    <3>3. CASE cl = "start" /\ Mg!Converse([type |-> "proof"], "proof")
      <4>1. srv = "listen"
        BY <2>5, <3>3 DEF MgInv, MgTalk, Talk
      <4>2. cl' = "proof" /\ toSrv' = <<[type |-> "proof"]>>
        BY <2>5, <3>1, <3>3 DEF Mg!Converse, Mg!WriteGoto
      <4>3. QED
        BY <1>1, <2>1, <4>1, <4>2 DEF MgTalk, Talk
    <3>4. CASE cl = "proof" /\ m.ok /\ ~m.done /\ Mg!Converse([type |-> "confirm"], "confirm")
      <4>1. srv = "listen"
        <5>1. PICK s, a, b : Talk(s, <<>>, <<[ok |-> a, done |-> b]>>) /\ (a /\ ~b => s = "listen")
          BY <2>1, <2>5, <3>4 DEF MgInv, MgTalk, Talk
        <5>2. m = [ok |-> a, done |-> b] /\ srv = s
          BY <2>1, <5>1 DEF Talk
        <5>3. QED
          BY <3>4, <5>1, <5>2, ReplySays
      <4>2. cl' = "confirm" /\ toSrv' = <<[type |-> "confirm"]>>
        BY <2>5, <3>1, <3>4 DEF Mg!Converse, Mg!WriteGoto
      <4>3. QED
        BY <1>1, <2>1, <4>1, <4>2 DEF MgTalk, Talk
    <3>5. QED
      BY <2>2, <3>2, <3>3, <3>4
  <2>6. QED
    BY <1>1, <2>4, <2>5 DEF MgInv
<1>4. QED
  BY <1>2, <1>3 DEF Mg!SaslRead

(* The requests. *)
LEMMA MgRequest ==
  ASSUME MgInv, NEW o \in MgKinds, NEW m, Mg!Request(o, m), m.type = o,
         \A t \in posted : t \in posted',
         o = "insert" => \E t \in posted' : m.doc = ToBson(t)
  PROVE  MgInv'
<1>1. /\ cl = "idle" /\ q \in Nat /\ q' = q + 1 /\ op' = o /\ outcome' = "none" /\ rows' = <<>>
      /\ UNCHANGED <<sock, srv, method, valid, produced, toCli, up>>
  BY DEF MgInv, MgTypes, Shapes, Mg!Request, Mg!Begin
<1>2. toCli = <<>> /\ IsSeq(toSrv) /\ IsSeq(toCli) /\ (up => toSrv = <<>>)
  BY <1>1 DEF MgInv, MgTypes, Shapes, MgTalk
<1>3. \/ cl' = "reply" /\ ~errout' /\ up /\ toSrv' = Append(toSrv, m)
      \/ cl' = "reply" /\ ~errout' /\ ~up /\ toSrv' = toSrv
      \/ cl' = "killed" /\ ~errout' /\ ~up /\ toSrv' = toSrv
      \/ cl' = "idle" /\ (errout' <=> o # "find") /\ ~up /\ toSrv' = toSrv
  BY DEF Mg!Request, Mg!WriteGoto, Mg!Goto
<1>4. errout' \in BOOLEAN
  BY DEF Mg!Request
<1>5. IsSeq(toSrv') /\ IsSeq(rows')
  <2>1. IsSeq(Append(toSrv, m))
    BY <1>2, AppendIs
  <2>2. QED
    BY <1>1, <1>2, <1>3, <2>1, EmptyIs
<1>6. MgTypes'
  <2>1. (\A i \in 1 .. Len(produced) : Inserted(produced[i]))'
    BY <1>1 DEF MgInv, MgTypes, Inserted
  <2>2. Shapes'
    BY <1>1, <1>4, <1>5 DEF MgInv, MgTypes, Shapes
  <2>3. QED
    BY <1>1, <1>2, <1>3, <2>1, <2>2 DEF MgInv, MgTypes, MgFirst
<1>7. MgResult'
  <2>1. Len(rows') = 0 /\ Len(toCli') = 0
    BY <1>1, <1>2
  <2>2. cl' = "idle" => ~up' /\ (errout' <=> op' # "find")
    BY <1>1, <1>3
  <2>3. cl' \in {"reply", "killed", "idle"} /\ op' \in MgKinds /\ (cl' = "reply" => ~errout' /\ rows' = <<>>)
    BY <1>1, <1>3
  <2>4. QED
    BY <2>1, <2>2, <2>3 DEF MgResult
<1>8. ASSUME up PROVE MgTalk'
  <2>1. cl' = "reply" /\ toSrv' = <<m>> /\ toCli' = <<>>
    BY <1>1, <1>2, <1>3, <1>8
  <2>2. Len(toSrv') = 1 /\ toSrv'[1] = m
    BY <2>1
  <2>3. QED
    BY <1>1, <2>1, <2>2 DEF MgTalk
<1>9. QED
  BY <1>1, <1>6, <1>7, <1>8 DEF MgInv

LEMMA MgInsert == ASSUME MgInv, NEW t, Mg!Insert(t) PROVE MgInv'
<1> DEFINE m == [type |-> "insert", doc |-> ToBson(t)]
<1>1. m.type = "insert" /\ m.doc = ToBson(t)
  OBVIOUS
<1>2. Mg!Request("insert", m) /\ posted' = posted \cup {t}
  BY DEF Mg!Insert
<1> HIDE DEF m
<1>3. QED
  BY <1>1, <1>2, MgRequest DEF MgKinds

LEMMA MgSimple ==
  ASSUME MgInv, NEW o \in MgKinds \ {"insert"},
         Mg!Request(o, [type |-> o]), UNCHANGED posted
  PROVE  MgInv'
<1> DEFINE m == [type |-> o]
<1>1. m.type = o
  OBVIOUS
<1>2. Mg!Request(o, m)
  OBVIOUS
<1> HIDE DEF m
<1>3. QED
  BY <1>1, <1>2, MgRequest

LEMMA MgRequestInvalid == MgInv /\ Mg!RequestInvalid => MgInv'
<1> SUFFICES ASSUME MgInv, Mg!RequestInvalid PROVE MgInv'
  OBVIOUS
<1>1. /\ cl = "failed" /\ q \in Nat /\ q' = q + 1 /\ outcome' = "none" /\ rows' = <<>>
      /\ UNCHANGED <<cl, sock, srv, valid, produced, toSrv, toCli, up, posted>>
  BY DEF MgInv, MgTypes, Shapes, Mg!RequestInvalid, Mg!Begin, Mg!link
<1>2. PICK o \in MgKinds : op' = o /\ errout' = (o # "find")
  BY DEF Mg!RequestInvalid, Mg!Begin, MgKinds
<1>3. MgTypes'
  <2>1. Shapes'
    BY <1>1, <1>2, EmptyIs DEF MgInv, MgTypes, Shapes
  <2>2. QED
    BY <1>1, <2>1 DEF MgInv, MgTypes, MgFirst, Inserted
<1>4. MgResult'
  <2>1. Len(rows') = 0
    BY <1>1
  <2>2. op' \in MgKinds /\ (op' # "find" => errout') /\ outcome' = "none" /\ cl' = "failed"
    BY <1>1, <1>2
  <2>3. QED
    BY <2>1, <2>2 DEF MgResult
<1>5. up => MgTalk'
  BY <1>1 DEF MgInv, MgTalk
<1>6. QED
  BY <1>1, <1>3, <1>4, <1>5 DEF MgInv

LEMMA MgReplyRead == MgInv /\ Mg!ReplyRead => MgInv'
<1> SUFFICES ASSUME MgInv, Mg!ReplyRead PROVE MgInv'
  OBVIOUS
<1>1. /\ cl = "reply" /\ cl' = "idle"
      /\ UNCHANGED <<q, op, sock, srv, valid, produced, outcome, toSrv, up, posted>>
  BY DEF Mg!ReplyRead, Mg!server
<1>2. op \in MgKinds /\ ~errout /\ rows = <<>> /\ \A i \in 1 .. Len(toCli) : MgAnswer(toCli[i])
  BY <1>1 DEF MgInv, MgResult
<1>3. CASE Mg!ReadFails /\ errout' = (op # "find") /\ UNCHANGED rows
  <2>1. ~up /\ toCli = <<>> /\ toCli' = <<>>
    BY <1>3 DEF Mg!ReadFails
  <2>2. MgTypes'
    <3>1. Shapes'
      BY <1>1, <1>3, <2>1 DEF MgInv, MgTypes, Shapes
    <3>2. QED
      BY <1>1, <2>1, <3>1 DEF MgInv, MgTypes, MgFirst, Inserted
  <2>3. MgResult'
    BY <1>1, <1>2, <1>3, <2>1 DEF MgResult, MgInv, ReadBack
  <2>4. QED
    BY <1>1, <2>1, <2>2, <2>3 DEF MgInv
<1>4. ASSUME NEW m, Mg!Reads(m),
             errout' = (\/ op # "find" /\ ~m.ok
                        \/ op = "insert" /\ m.writeErrors),
             rows' = [i \in 1 .. Len(m.batch) |-> FromBson(m.batch[i])]
      PROVE  MgInv'
  <2>1. toCli = <<m>> /\ Len(toCli) = 1 /\ toCli[1] = m /\ toCli' = <<>>
    BY <1>4, MgReads DEF MgInv
  <2>2. MgAnswer(m)
    BY <1>2, <2>1
  <2>3. Len(m.batch) \in Nat
    BY <2>2, SeqShape DEF MgAnswer
  <2>4. IsSeq(rows') /\ Len(rows') = Len(m.batch)
    <3>1. DOMAIN rows' = 1 .. Len(m.batch) /\ \A i \in 1 .. Len(m.batch) : rows'[i] = FromBson(m.batch[i])
      BY <1>4
    <3>2. rows' = [i \in 1 .. Len(m.batch) |-> rows'[i]]
      BY <1>4, <3>1
    <3>3. QED
      BY <2>3, <3>1, <3>2, FunctionIs
  <2>5. MgTypes'
    <3>1. Shapes'
      BY <1>1, <1>4, <2>1, <2>4, EmptyIs DEF MgInv, MgTypes, Shapes
    <3>2. Len(toCli') = 0
      BY <2>1
    <3>3. QED
      BY <1>1, <2>1, <3>1, <3>2 DEF MgInv, MgTypes, MgFirst, Inserted
  <2>6. MgResult'
    <3>1. ASSUME NEW i \in 1 .. Len(rows') PROVE \E t \in posted' : rows'[i] = FromBson(Mg!WithId(ToBson(t)))
      <4>1. i \in 1 .. Len(m.batch) /\ rows'[i] = FromBson(m.batch[i])
        BY <1>4, <2>4
      <4>2. PICK t \in posted : m.batch[i] = Mg!WithId(ToBson(t))
        BY <2>2, <4>1 DEF MgAnswer, Inserted
      <4>3. rows'[i] = FromBson(Mg!WithId(ToBson(t)))
        BY <4>1, <4>2
      <4>4. QED
        BY <1>1, <4>3
    <3>2. op = "find" /\ outcome = "done" => Len(rows') = Min({FirstBatch, Len(produced)})
      BY <2>2, <2>4 DEF MgAnswer
    <3>3. op # "find" => IF errout' THEN outcome # "done"
                         ELSE outcome = "done" \/ (op # "insert" /\ outcome = "failed")
      BY <1>4, <2>2 DEF MgAnswer
    <3>4. QED
      BY <1>1, <1>2, <3>1, <3>2, <3>3 DEF MgResult, ReadBack
  <2>7. up => MgTalk'
    <3>1. ASSUME up PROVE toSrv = <<>>
      BY <1>1, <2>1, <3>1 DEF MgInv, MgTalk
    <3>2. QED
      BY <1>1, <3>1 DEF MgTalk
  <2>8. QED
    BY <1>1, <2>5, <2>6, <2>7 DEF MgInv
<1>5. QED
  BY <1>3, <1>4 DEF Mg!ReplyRead

LEMMA MgClose == MgInv /\ Mg!Close => MgInv'
<1> SUFFICES ASSUME MgInv, Mg!Close PROVE MgInv'
  OBVIOUS
<1>1. /\ cl = "idle" /\ cl' = "closed" /\ up' = FALSE /\ sock' = FALSE
      /\ UNCHANGED <<q, op, rows, errout, srv, valid, produced, outcome, toSrv, toCli, posted>>
  BY DEF Mg!Close, Mg!Goto, Mg!server
<1>2. MgTypes'
  BY <1>1 DEF MgInv, MgTypes, Shapes, MgFirst, Inserted
<1>3. MgResult'
  BY <1>1 DEF MgInv, MgResult, ReadBack
<1>4. QED
  BY <1>1, <1>2, <1>3 DEF MgInv

(* The server hears the one message of the client. *)
LEMMA MgHears ==
  ASSUME MgInv, NEW m, Mg!ServerHears(m)
  PROVE  /\ up /\ MgTalk /\ toCli = <<>> /\ toSrv' = <<>> /\ m = toSrv[1]
         /\ \/ cl \in {"start", "proof", "confirm"} /\ m = [type |-> cl] /\ srv = "listen"
            \/ cl = "reply" /\ m.type = op /\ (op = "insert" => \E t \in posted : m.doc = ToBson(t))
<1>1. up /\ toSrv # <<>> /\ m = Head(toSrv) /\ toSrv' = Tail(toSrv) /\ MgTalk /\ IsSeq(toSrv)
  BY DEF MgInv, MgTypes, Shapes, Mg!ServerHears
<1>2. cl \in {"start", "proof", "confirm", "reply"}
  BY <1>1 DEF MgInv, MgTypes, MgTalk, Talk, MgFirst
<1>3. ASSUME cl \in {"start", "proof", "confirm"}
      PROVE  toSrv = <<[type |-> cl]>> /\ toCli = <<>> /\ srv = "listen"
  <2>1. CASE cl = "start"
    BY <1>1, <2>1 DEF MgTalk, Talk
  <2>2. CASE cl = "proof"
    BY <1>1, <2>2 DEF MgTalk, Talk
  <2>3. CASE cl = "confirm"
    BY <1>1, <2>3 DEF MgTalk, Talk
  <2>4. QED
    BY <1>3, <2>1, <2>2, <2>3
<1>4. ASSUME cl = "reply"
      PROVE  /\ toCli = <<>> /\ Len(toSrv) = 1 /\ toSrv[1].type = op
             /\ op = "insert" => \E t \in posted : toSrv[1].doc = ToBson(t)
  BY <1>1, <1>4 DEF MgTalk
<1>5. Len(toSrv) = 1
  BY <1>2, <1>3, <1>4, OneIs
<1>6. m = toSrv[1] /\ toSrv' = <<>>
  <2>1. IsSeq(Tail(toSrv)) /\ Len(Tail(toSrv)) = 0 /\ Head(toSrv) = toSrv[1]
    BY <1>1, <1>5, TailIs
  <2>2. QED
    BY <1>1, <2>1, SeqShape
<1>7. cl \in {"start", "proof", "confirm"} => m = [type |-> cl]
  BY <1>3, <1>6, OneIs
<1>8. QED
  BY <1>1, <1>2, <1>3, <1>4, <1>6, <1>7

(* The server answers with one message. *)
LEMMA MgAnswers ==
  ASSUME MgTypes, toCli = <<>>, NEW m, NEW s, Mg!Answer(<<m>>, s)
  PROVE  toCli' = <<m>> /\ IsSeq(toCli') /\ Len(toCli') = 1 /\ toCli'[1] = m /\ srv' = s
<1>1. toCli' = toCli \o <<m>> /\ srv' = s
  BY DEF Mg!Answer
<1>2. <<>> \o <<m>> = <<m>>
  BY OneIs, AfterNothing
<1>3. QED
  BY <1>1, <1>2, OneIs

LEMMA MgAuthenticate == MgInv /\ Mg!Authenticate => MgInv'
<1> SUFFICES ASSUME MgInv, Mg!Authenticate PROVE MgInv'
  OBVIOUS
<1> DEFINE Done(type) == type = "confirm" \/ (type = "proof" /\ method = "scram")
<1>1. PICK type \in {"start", "proof", "confirm"} :
         /\ Mg!ServerHears([type |-> type])
         /\ Mg!Answer(<<[ok |-> type = "start" \/ valid, done |-> Done(type)]>>,
                      IF valid /\ Done(type) THEN "ready" ELSE "listen")
  BY DEF Mg!Authenticate
<1>2. UNCHANGED <<cl, q, op, rows, errout, sock, valid, produced, outcome, up, posted>>
  BY DEF Mg!Authenticate, Mg!client
<1> DEFINE a == type = "start" \/ valid
           m == [ok |-> a, done |-> Done(type)]
<1>3. /\ up /\ toCli = <<>> /\ toSrv' = <<>>
      /\ cl = type \/ (cl = "reply" /\ type = op)
  <2>1. type \in {"start", "proof", "confirm"} /\ [type |-> type].type = type
    OBVIOUS
  <2>2. [type |-> type] = [type |-> cl] => type = cl
    OBVIOUS
  <2>3. QED
    BY <1>1, <2>1, <2>2, MgHears
<1>4. cl = type
  BY <1>3 DEF MgInv, MgResult, MgKinds
<1>5. /\ toCli' = <<m>> /\ IsSeq(toCli') /\ Len(toCli') = 1
      /\ srv' = IF valid /\ Done(type) THEN "ready" ELSE "listen"
  BY <1>1, <1>3, MgAnswers DEF MgInv
<1>6. MgTypes'
  <2>1. Shapes'
    BY <1>2, <1>3, <1>5, EmptyIs DEF MgInv, MgTypes, Shapes
  <2>2. Fresh => Fresh'
    BY <1>2 DEF Fresh
  <2>3. QED
    BY <1>2, <1>4, <1>5, <2>1, <2>2 DEF MgInv, MgTypes, MgFirst, Inserted
<1>7. MgResult'
  BY <1>2, <1>4 DEF MgInv, MgResult, ReadBack
<1>8. MgTalk'
  <2>1. CASE cl = "start"
    <3>1. m = [ok |-> TRUE, done |-> FALSE] /\ srv' = "listen"
      BY <1>4, <1>5, <2>1
    <3>2. Talk("listen", <<>>, <<[ok |-> TRUE, done |-> FALSE]>>)'
      BY <1>3, <1>5, <3>1 DEF Talk
    <3>3. QED
      BY <1>2, <2>1, <3>2 DEF MgTalk
  <2>2. CASE cl = "proof"
    <3>2. a /\ ~Done(type) => srv' = "listen"
      BY <1>5
    <3> HIDE DEF a, Done
    <3>3. \E s, b, c : srv' = s /\ toSrv' = <<>> /\ toCli' = <<[ok |-> b, done |-> c]>> /\ (b /\ ~c => s = "listen")
      BY <1>3, <1>5, <3>2
    <3>4. QED
      BY <1>2, <2>2, <3>3 DEF MgTalk, Talk
  <2>3. CASE cl = "confirm"
    <3>1. Done(type) = TRUE
      BY <1>4, <2>3
    <3>2. m = [ok |-> a, done |-> TRUE]
      BY <3>1
    <3> HIDE DEF a, Done
    <3>3. \E s, b : srv' = s /\ toSrv' = <<>> /\ toCli' = <<[ok |-> b, done |-> TRUE]>>
      BY <1>3, <1>5, <3>2
    <3>4. QED
      BY <1>2, <2>3, <3>3 DEF MgTalk, Talk
  <2>4. QED
    BY <1>4, <2>1, <2>2, <2>3
<1>9. QED
  BY <1>2, <1>6, <1>7, <1>8 DEF MgInv

LEMMA MgExecute == MgInv /\ Mg!Execute => MgInv'
<1> SUFFICES ASSUME MgInv, Mg!Execute PROVE MgInv'
  OBVIOUS
<1> DEFINE Batch(m, ok) == IF m.type = "find" /\ ok
                             THEN SubSeq(produced, 1, Mg!Min({FirstBatch, Len(produced)})) ELSE <<>>
           Reply(m, ok, writeErrors) == [ok |-> ok, writeErrors |-> writeErrors, batch |-> Batch(m, ok)]
<1>1. PICK m \in Mg!ToSet(toSrv), ok \in BOOLEAN, writeErrors \in BOOLEAN :
         /\ Mg!ServerHears(m)
         /\ m.type \in MgKinds
         /\ outcome'  = IF ok /\ ~writeErrors THEN "done" ELSE "failed"
         /\ produced' = CASE m.type = "insert" /\ outcome' = "done" -> Append(produced, Mg!WithId(m.doc))
                          [] m.type = "delete" /\ outcome' = "done" -> <<>>
                          [] OTHER -> produced
         /\ Mg!Answer(<<Reply(m, ok, writeErrors)>>, srv)
  BY DEF Mg!Execute, MgKinds
<1>2. UNCHANGED <<cl, q, op, rows, errout, sock, valid, up, posted>>
  BY DEF Mg!Execute, Mg!client
<1>3. /\ up /\ MgTalk /\ toCli = <<>> /\ toSrv' = <<>> /\ cl = "reply" /\ m.type = op
      /\ op = "insert" => \E t \in posted : m.doc = ToBson(t)
  <2>1. ASSUME cl \in {"start", "proof", "confirm"}, m = [type |-> cl] PROVE FALSE
    <3>1. m.type = cl
      BY <2>1
    <3>2. QED
      BY <1>1, <2>1, <3>1 DEF MgKinds
  <2>2. QED
    BY <1>1, <2>1, MgHears
<1>0. PICK r : r = Reply(m, ok, writeErrors)
  OBVIOUS
<1>4. /\ toCli' = <<r>> /\ IsSeq(toCli') /\ Len(toCli') = 1 /\ toCli'[1] = r
  BY <1>0, <1>1, <1>3, MgAnswers DEF MgInv
<1>5. r.ok = ok /\ r.writeErrors = writeErrors /\ r.batch = Batch(m, ok)
  BY <1>0
<1>6. IsSeq(produced) /\ \A i \in 1 .. Len(produced) : Inserted(produced[i])
  BY DEF MgInv, MgTypes, Shapes
<1>7. IsSeq(produced') /\ \A i \in 1 .. Len(produced') : Inserted(produced'[i])
  <2>1. CASE m.type = "insert" /\ outcome' = "done"
    <3>1. produced' = Append(produced, Mg!WithId(m.doc))
      BY <1>1, <2>1
    <3>2. PICK t \in posted : m.doc = ToBson(t)
      BY <1>3, <2>1
    <3>3. Inserted(Mg!WithId(m.doc))
      BY <3>2 DEF Inserted
    <3> DEFINE e == Mg!WithId(m.doc)
    <3> HIDE DEF e
    <3>4. Len(produced) \in Nat /\ IsSeq(Append(produced, e)) /\ Len(Append(produced, e)) = Len(produced) + 1
          /\ (\A i \in 1 .. Len(produced) : Append(produced, e)[i] = produced[i])
          /\ Append(produced, e)[Len(produced) + 1] = e
      BY <1>6, AppendIs, SeqShape
    <3>5. produced' = Append(produced, e) /\ Inserted(e)
      BY <3>1, <3>3 DEF e
    <3>6. ASSUME NEW i \in 1 .. Len(produced') PROVE Inserted(produced'[i])
      <4>1. i \in 1 .. Len(produced) \/ i = Len(produced) + 1
        BY <3>4, <3>5
      <4>2. produced'[i] = e \/ (i \in 1 .. Len(produced) /\ produced'[i] = produced[i])
        BY <3>4, <3>5, <4>1
      <4>3. QED
        BY <1>6, <3>5, <4>2
    <3>7. QED
      BY <3>4, <3>5, <3>6
  <2>2. CASE m.type = "delete" /\ outcome' = "done"
    <3>1. produced' = <<>> /\ Len(<<>>) = 0
      BY <1>1, <2>2
    <3>2. QED
      BY <3>1, EmptyIs
  <2>3. CASE ~(m.type = "insert" /\ outcome' = "done") /\ ~(m.type = "delete" /\ outcome' = "done")
    <3>1. produced' = produced
      BY <1>1, <2>3
    <3>2. QED
      BY <1>6, <3>1
  <2>4. QED
    BY <2>1, <2>2, <2>3
<1>8. /\ IsSeq(r.batch)
      /\ op = "find" /\ ok => Len(r.batch) = Min({FirstBatch, Len(produced')})
      /\ \A i \in 1 .. Len(r.batch) : Inserted(r.batch[i])
  <2>1. CASE m.type = "find" /\ ok
    <3> DEFINE n == Min({FirstBatch, Len(produced)})
    <3>1. produced' = produced
      BY <1>1, <2>1
    <3>2. n \in 0 .. Len(produced) /\ Mg!Min({FirstBatch, Len(produced)}) = n
      BY <1>6, SeqShape, Least, DatabaseAssumption
    <3>3. r.batch = SubSeq(produced, 1, n)
      BY <1>5, <2>1, <3>2
    <3>4. n = Min({FirstBatch, Len(produced')})
      BY <3>1
    <3> HIDE DEF n
    <3>5. IsSeq(SubSeq(produced, 1, n)) /\ Len(SubSeq(produced, 1, n)) = n
          /\ \A i \in 1 .. n : SubSeq(produced, 1, n)[i] = produced[i]
      BY <1>6, <3>2, PrefixIs
    <3>6. \A i \in 1 .. n : i \in 1 .. Len(produced)
      BY <3>2, <1>6, SeqShape
    <3>7. QED
      BY <1>6, <3>3, <3>4, <3>5, <3>6
  <2>2. CASE ~(m.type = "find" /\ ok)
    <3>1. r.batch = <<>> /\ Len(<<>>) = 0
      BY <1>5, <2>2
    <3>2. ~(op = "find" /\ ok)
      BY <1>3, <2>2
    <3>3. QED
      BY <3>1, <3>2, EmptyIs
  <2>3. QED
    BY <2>1, <2>2
<1> HIDE DEF Reply, Batch
<1>9. MgAnswer(r)'
  <2>1. outcome' = IF r.ok /\ ~r.writeErrors THEN "done" ELSE "failed"
    BY <1>1, <1>5
  <2>2. op' = "find" /\ outcome' = "done" => Len(r.batch) = Min({FirstBatch, Len(produced')})
    BY <1>1, <1>2, <1>8
  <2>3. \A i \in 1 .. Len(r.batch) : \E t \in posted' : r.batch[i] = Mg!WithId(ToBson(t))
    BY <1>2, <1>8 DEF Inserted
  <2>4. r.ok \in BOOLEAN /\ r.writeErrors \in BOOLEAN
    BY <1>5
  <2>5. QED
    BY <1>8, <2>1, <2>2, <2>3, <2>4 DEF MgAnswer, Inserted
<1>10. MgTypes'
  <2>1. Shapes'
    BY <1>2, <1>3, <1>4, <1>7, EmptyIs DEF MgInv, MgTypes, Shapes
  <2>2. (\A i \in 1 .. Len(produced) : Inserted(produced[i]))'
    BY <1>2, <1>7 DEF Inserted
  <2>3. QED
    BY <1>2, <1>3, <1>4, <2>1, <2>2 DEF MgTypes, MgFirst
<1>11. MgResult'
  <2>1. (\A i \in 1 .. Len(toCli) : MgAnswer(toCli[i]))'
    BY <1>4, <1>9
  <2>2. (\A i \in 1 .. Len(rows) : ReadBack(rows[i]))'
    BY <1>2 DEF MgInv, MgResult, ReadBack
  <2>3. op' \in MgKinds /\ ~errout' /\ rows' = <<>> /\ cl' = "reply"
    BY <1>2, <1>3 DEF MgInv, MgResult
  <2>4. QED
    BY <2>1, <2>2, <2>3 DEF MgResult
<1>12. MgTalk'
  BY <1>2, <1>3, <1>4 DEF MgTalk
<1>13. QED
  BY <1>10, <1>11, <1>12 DEF MgInv

LEMMA MgNetworkDrop == MgInv /\ Mg!NetworkDrop => MgInv'
<1> SUFFICES ASSUME MgInv, Mg!NetworkDrop PROVE MgInv'
  OBVIOUS
<1>1. /\ up' = FALSE
      /\ UNCHANGED <<cl, q, op, rows, errout, sock, valid, produced, outcome, toSrv, posted>>
  BY DEF Mg!NetworkDrop, Mg!Drop, Mg!client
<1>2. PICK n \in 0 .. Len(toCli) : toCli' = SubSeq(toCli, 1, n)
  BY DEF Mg!NetworkDrop, Mg!Drop
<1>3. IsSeq(toCli) /\ Len(toCli) \in Nat /\ Len(toCli) <= 1 /\ (cl = "idle" => toCli = <<>>)
  BY SeqShape DEF MgInv, MgTypes, Shapes
<1>4. IsSeq(toCli') /\ Len(toCli') = n /\ n <= Len(toCli) /\ n \in Nat
      /\ \A i \in 1 .. n : toCli'[i] = toCli[i]
  <2>1. IsSeq(SubSeq(toCli, 1, n)) /\ Len(SubSeq(toCli, 1, n)) = n
        /\ \A i \in 1 .. n : SubSeq(toCli, 1, n)[i] = toCli[i]
    BY <1>3, PrefixIs
  <2>2. QED
    BY <1>2, <1>3, <2>1
<1>5. cl = "idle" => toCli' = <<>>
  <2>1. toCli = <<>> => Len(toCli') = 0
    BY <1>3, <1>4, SeqShape
  <2>2. QED
    BY <1>3, <1>4, <2>1, SeqShape
<1>6. MgTypes'
  <2>1. Shapes'
    BY <1>1, <1>4 DEF MgInv, MgTypes, Shapes
  <2>2. Len(toCli') <= 1
    BY <1>3, <1>4
  <2>3. Fresh => Fresh'
    BY <1>1 DEF Fresh
  <2>4. QED
    BY <1>1, <1>5, <2>1, <2>2, <2>3 DEF MgInv, MgTypes, Inserted
<1>7. MgResult'
  <2>1. ASSUME cl = "reply" PROVE (\A i \in 1 .. Len(toCli) : MgAnswer(toCli[i]))'
    <3>1. \A i \in 1 .. Len(toCli) : MgAnswer(toCli[i])
      BY <2>1 DEF MgInv, MgResult
    <3>2. \A i \in 1 .. Len(toCli') : i \in 1 .. Len(toCli) /\ toCli'[i] = toCli[i]
      BY <1>3, <1>4
    <3>3. ASSUME NEW m, MgAnswer(m) PROVE MgAnswer(m)'
      BY <1>1, <3>3 DEF MgAnswer, Inserted
    <3>4. QED
      BY <3>1, <3>2, <3>3
  <2>2. QED
    BY <1>1, <2>1 DEF MgInv, MgResult, ReadBack
<1>8. QED
  BY <1>1, <1>6, <1>7 DEF MgInv

LEMMA MgSteps == MgInv /\ Mg!Next => MgInv'
<1> SUFFICES ASSUME MgInv, Mg!Next PROVE MgInv'
  OBVIOUS
<1>1. CASE Mg!Opening
  BY <1>1, MgConnect, MgSaslStart DEF Mg!Opening
<1>2. CASE Mg!ClientReads
  BY <1>2, MgSaslRead, MgReplyRead DEF Mg!ClientReads
<1>3. CASE Mg!Requests
  <2>1. ASSUME NEW t, Mg!Insert(t) PROVE MgInv'
    BY <2>1, MgInsert
  <2>2. CASE Mg!Find
    BY <2>2, MgSimple DEF Mg!Find, MgKinds
  <2>3. CASE Mg!Update
    BY <2>3, MgSimple DEF Mg!Update, MgKinds
  <2>4. CASE Mg!Delete
    BY <2>4, MgSimple DEF Mg!Delete, MgKinds
  <2>5. CASE Mg!RequestInvalid
    BY <2>5, MgRequestInvalid
  <2>6. QED
    BY <1>3, <2>1, <2>2, <2>3, <2>4, <2>5 DEF Mg!Requests
<1>4. CASE Mg!Close
  BY <1>4, MgClose
<1>5. CASE Mg!ServerStep
  BY <1>5, MgAuthenticate, MgExecute DEF Mg!ServerStep
<1>6. CASE Mg!NetworkDrop
  BY <1>6, MgNetworkDrop
<1>7. QED
  BY <1>1, <1>2, <1>3, <1>4, <1>5, <1>6 DEF Mg!Next

LEMMA MgStarts == Mg!Init => MgInv
<1> SUFFICES ASSUME Mg!Init PROVE MgInv
  OBVIOUS
<1>1. /\ cl = "connect" /\ q = 0 /\ op = "none" /\ rows = <<>> /\ errout = FALSE /\ sock = FALSE
      /\ srv = "listen" /\ valid \in BOOLEAN /\ produced = <<>> /\ outcome = "none"
      /\ toSrv = <<>> /\ toCli = <<>> /\ up = TRUE
  BY DEF Mg!Init, Mg!ConnInit
<1>2. MgTypes
  <2>1. Shapes
    BY <1>1, EmptyIs DEF Shapes
  <2>2. QED
    BY <1>1, <2>1 DEF MgTypes, MgFirst, Fresh
<1>3. MgTalk
  BY <1>1 DEF MgTalk, Talk
<1>4. MgResult
  BY <1>1 DEF MgResult
<1>5. QED
  BY <1>2, <1>3, <1>4 DEF MgInv

LEMMA MgSame == ASSUME MgInv, UNCHANGED conn, UNCHANGED posted PROVE MgInv'
<1>1. UNCHANGED <<cl, q, op, rows, errout, sock, srv, valid, produced, outcome, toSrv, toCli, up>>
  BY DEF conn, client, server, link
<1>2. MgTypes'
  BY <1>1 DEF MgInv, MgTypes, Shapes, Fresh, Inserted
<1>3. up => MgTalk'
  BY <1>1 DEF MgInv, MgTalk, Talk
<1>4. MgResult'
  <2>1. ASSUME NEW m, MgAnswer(m) PROVE MgAnswer(m)'
    BY <1>1, <2>1 DEF MgAnswer, Inserted
  <2>2. (\A i \in 1 .. Len(toCli) : MgAnswer(toCli[i])) => (\A i \in 1 .. Len(toCli) : MgAnswer(toCli[i]))'
    BY <1>1, <2>1
  <2>3. QED
    BY <1>1, <2>2 DEF MgInv, MgResult, ReadBack
<1>5. QED
  BY <1>1, <1>2, <1>3, <1>4 DEF MgInv

(* Every step of a program with a connection to MongoDB, which has no loop *)
(* over rows.                                                              *)
LEMMA MgDb ==
  ASSUME kind = "mongo", MgInv, loop = "none", [Next]_vars
  PROVE  MgInv' /\ loop' = "none"
<1>1. CASE UNCHANGED conn /\ UNCHANGED program /\ UNCHANGED posted
  BY <1>1, MgSame DEF program
<1>2. CASE MongoStep
  BY <1>2, MgSteps DEF MongoStep, program
<1>3. QED
  <2>1. ~Sqlite /\ ~WireStep /\ ~WireDrop /\ ~WireNext
    BY DEF Sqlite, SqliteOpen, SqliteExec, SqliteQuery, SqliteNext, SqliteClose, SqliteInvalid,
           WireStep, WireDrop, WireNext, Wire
  <2>2. ~WireRequest /\ ~Break
    BY DEF WireRequest, Query, Break
  <2>3. Finished \/ UNCHANGED vars => UNCHANGED conn /\ UNCHANGED program /\ UNCHANGED posted
    BY DEF Finished, vars
  <2>4. QED
    BY <1>1, <1>2, <2>1, <2>2, <2>3 DEF Next

-----------------------------------------------------------------------------
(* SQLite *)

(* A statement is alive while the loop over its rows is open, and for ever *)
(* when that loop was left; the rows seen are the first ones produced.     *)
SqliteInv ==
  /\ q \in Nat /\ errout \in BOOLEAN /\ IsSeq(rows) /\ IsSeq(produced) /\ abandoned \in Nat
  /\ cl \in {"connect", "idle", "failed", "closed"}
  /\ loop \in {"none", "open", "ended", "left"}
  /\ alive = IF loop = "open" THEN abandoned + 1 ELSE abandoned
  /\ cl # "idle" => loop # "open"
  /\ cl = "closed" => (sock => alive > 0)
  /\ cl \in {"connect", "failed"} => ~sock
  /\ loop = "open" => seen = Len(rows) /\ op = "query"
  /\ Len(rows) <= Len(produced)
  /\ \A i \in 1 .. Len(rows) : rows[i] = produced[i]
  /\ loop = "ended" /\ outcome = "done" => seen = Len(produced)
  /\ q > 0 /\ op = "exec" => (errout <=> outcome # "done")
  /\ q > 0 => op \in {"exec", "query"}
  /\ srv = "listen"

LEMMA SqliteOpens == SqliteInv /\ SqliteOpen => SqliteInv'
BY DEF SqliteInv, SqliteOpen, server, program

LEMMA SqliteExecs == SqliteInv /\ SqliteExec => SqliteInv'
<1> SUFFICES ASSUME SqliteInv, SqliteExec PROVE SqliteInv'
  OBVIOUS
<1>1. /\ cl = "idle" /\ loop # "open" /\ q' = q + 1 /\ op' = "exec"
      /\ rows' = <<>> /\ produced' = <<>> /\ loop' = "none" /\ seen' = 0
      /\ UNCHANGED <<cl, sock, srv, alive, abandoned>>
  BY DEF SqliteExec
<1>2. errout' \in BOOLEAN /\ (errout' <=> outcome' # "done")
  BY DEF SqliteExec
<1>3. IsSeq(rows') /\ IsSeq(produced') /\ Len(rows') = 0 /\ Len(produced') = 0
  BY <1>1, EmptyIs
<1>4. QED
  BY <1>1, <1>2, <1>3 DEF SqliteInv

LEMMA SqliteQueries == SqliteInv /\ SqliteQuery => SqliteInv'
<1> SUFFICES ASSUME SqliteInv, SqliteQuery PROVE SqliteInv'
  OBVIOUS
<1>1. /\ cl = "idle" /\ loop # "open" /\ q' = q + 1 /\ op' = "query"
      /\ rows' = <<>> /\ seen' = 0 /\ errout' = FALSE
      /\ UNCHANGED <<cl, sock, srv, abandoned>>
  BY DEF SqliteQuery
<1>2. IsSeq(rows') /\ Len(rows') = 0
  BY <1>1, EmptyIs
<1>0. /\ alive = abandoned /\ abandoned \in Nat /\ errout' \in BOOLEAN /\ q' \in Nat
      /\ cl = "idle" /\ cl' = "idle" /\ srv' = "listen" /\ abandoned' = abandoned
      /\ \A i \in 1 .. Len(rows') : rows'[i] = produced'[i]
  <2>1. alive = abandoned /\ abandoned \in Nat /\ q' \in Nat
    BY <1>1 DEF SqliteInv
  <2>2. errout' \in BOOLEAN
    BY <1>1
  <2>3. cl = "idle" /\ cl' = "idle" /\ srv' = "listen" /\ abandoned' = abandoned
    BY <1>1 DEF SqliteInv
  <2>4. \A i \in 1 .. Len(rows') : rows'[i] = produced'[i]
    BY <1>2
  <2>5. QED
    BY <2>1, <2>2, <2>3, <2>4
<1>3. CASE loop' = "open" /\ alive' = alive + 1 /\ \E n \in 0 .. MaxRows : produced' = [k \in 1 .. n |-> <<q', k>>]
  <2>1. PICK n \in 0 .. MaxRows : produced' = [k \in 1 .. n |-> <<q', k>>]
    BY <1>3
  <2>2. n \in Nat /\ DOMAIN produced' = 1 .. n /\ \A k \in 1 .. n : produced'[k] = <<q', k>>
    BY <2>1, ConnectionAssumption
  <2>3. produced' = [k \in 1 .. n |-> produced'[k]]
    BY <2>1, <2>2
  <2>4. IsSeq(produced') /\ Len(produced') = n
    BY <2>2, <2>3, FunctionIs
  <2>5. QED
    BY <1>0, <1>1, <1>2, <1>3, <2>2, <2>4 DEF SqliteInv
<1>4. CASE loop' = "ended" /\ outcome' = "failed" /\ produced' = <<>> /\ UNCHANGED alive
  <2>1. IsSeq(produced') /\ Len(produced') = 0
    BY <1>4, EmptyIs
  <2>2. QED
    BY <1>0, <1>1, <1>2, <1>4, <2>1 DEF SqliteInv
<1>5. QED
  BY <1>3, <1>4 DEF SqliteQuery

LEMMA SqliteNexts == SqliteInv /\ SqliteNext => SqliteInv'
<1> SUFFICES ASSUME SqliteInv, SqliteNext PROVE SqliteInv'
  OBVIOUS
<1>1. /\ loop = "open" /\ cl = "idle" /\ op = "query" /\ seen = Len(rows)
      /\ UNCHANGED <<cl, q, op, errout, sock, srv, produced, abandoned>>
  BY DEF SqliteInv, SqliteNext
<1>2. CASE /\ seen < Len(produced)
           /\ rows' = Append(rows, produced[seen + 1])
           /\ seen' = seen + 1
           /\ UNCHANGED <<outcome, loop, alive>>
  <2> DEFINE e == produced[seen + 1]
  <2>1. IsSeq(rows) /\ Len(rows) \in Nat /\ Len(produced) \in Nat
    BY SeqShape DEF SqliteInv
  <2>2. rows' = Append(rows, e) /\ e = produced[Len(rows) + 1]
    BY <1>1, <1>2
  <2> HIDE DEF e
  <2>3. IsSeq(Append(rows, e)) /\ Len(Append(rows, e)) = Len(rows) + 1
        /\ (\A i \in 1 .. Len(rows) : Append(rows, e)[i] = rows[i])
        /\ Append(rows, e)[Len(rows) + 1] = e
    BY <2>1, AppendIs
  <2>4. ASSUME NEW i \in 1 .. Len(rows') PROVE rows'[i] = produced[i]
    <3>1. i \in 1 .. Len(rows) \/ i = Len(rows) + 1
      BY <2>1, <2>2, <2>3
    <3>2. QED
      BY <2>2, <2>3, <3>1 DEF SqliteInv
  <2>5. IsSeq(rows') /\ Len(rows') = Len(rows) + 1 /\ Len(rows') <= Len(produced)
    BY <1>1, <1>2, <2>1, <2>2, <2>3
  <2>6. QED
    BY <1>1, <1>2, <2>1, <2>4, <2>5 DEF SqliteInv
<1>3. CASE /\ outcome' \in {"failed"} \cup (IF seen = Len(produced) THEN {"done"} ELSE {})
           /\ loop' = "ended" /\ alive' = alive - 1
           /\ UNCHANGED <<rows, seen>>
  <2>1. outcome' = "done" => seen = Len(produced)
    BY <1>3
  <2>2. alive' = abandoned
    BY <1>1, <1>3 DEF SqliteInv
  <2>3. QED
    BY <1>1, <1>3, <2>1, <2>2 DEF SqliteInv
<1>4. QED
  BY <1>2, <1>3 DEF SqliteNext

LEMMA SqliteCloses == SqliteInv /\ SqliteClose => SqliteInv'
<1> SUFFICES ASSUME SqliteInv, SqliteClose PROVE SqliteInv'
  OBVIOUS
<1>1. /\ cl = "idle" /\ loop # "open" /\ cl' = "closed" /\ (sock' => alive > 0)
      /\ UNCHANGED <<q, op, rows, errout, srv, produced, outcome, loop, seen, alive, abandoned>>
  BY DEF SqliteClose, server, program
<1>2. QED
  BY <1>1 DEF SqliteInv

LEMMA SqliteInvalids == SqliteInv /\ SqliteInvalid => SqliteInv'
<1> SUFFICES ASSUME SqliteInv, SqliteInvalid PROVE SqliteInv'
  OBVIOUS
<1>1. /\ cl = "failed" /\ q' = q + 1 /\ outcome' = "none"
      /\ UNCHANGED <<cl, rows, sock, srv, produced, loop, seen, alive, abandoned>>
  BY DEF SqliteInvalid, Begin, program
<1>2. op' \in {"exec", "query"} /\ errout' \in BOOLEAN /\ (op' = "exec" => errout')
  BY DEF SqliteInvalid, Begin
<1>3. QED
  BY <1>1, <1>2 DEF SqliteInv

LEMMA SqliteBreaks == SqliteInv /\ Break => SqliteInv'
<1> SUFFICES ASSUME SqliteInv, Break PROVE SqliteInv'
  OBVIOUS
<1>1. /\ loop = "open" /\ loop' = "left" /\ abandoned' = abandoned + 1
      /\ UNCHANGED <<cl, q, op, rows, errout, sock, srv, produced, outcome, seen, alive>>
  BY DEF Break, conn, client, server
<1>2. QED
  BY <1>1 DEF SqliteInv

(* Every step of a program with a SQLite database. *)
LEMMA SqliteDb ==
  ASSUME kind = "sqlite", SqliteInv, [Next]_vars
  PROVE  SqliteInv'
<1>1. CASE UNCHANGED conn /\ UNCHANGED program
  BY <1>1 DEF SqliteInv, conn, client, server, program
<1>2. CASE Sqlite
  BY <1>2, SqliteOpens, SqliteExecs, SqliteQueries, SqliteNexts, SqliteCloses, SqliteInvalids DEF Sqlite
<1>3. CASE Break
  BY <1>3, SqliteBreaks
<1>4. QED
  <2>1. ~WireStep /\ ~WireDrop /\ ~WireNext /\ ~MongoStep
    BY DEF WireStep, WireDrop, WireNext, MongoStep, Wire
  <2>2. ~WireRequest
    BY DEF WireRequest, Query
  <2>3. Finished \/ UNCHANGED vars => UNCHANGED conn /\ UNCHANGED program
    BY DEF Finished, vars
  <2>4. QED
    BY <1>1, <1>2, <1>3, <2>1, <2>2, <2>3 DEF Next

-----------------------------------------------------------------------------
(* All of them. *)

DbInv ==
  /\ kind \in {"postgres", "mysql", "mongo", "sqlite"}
  /\ kind = "postgres" => PgInv /\ LoopInv
  /\ kind = "mysql"    => MyInv /\ LoopInv
  /\ kind = "mongo"    => MgInv /\ loop = "none"
  /\ kind = "sqlite"   => SqliteInv

LEMMA DbStarts == Init => DbInv
<1> SUFFICES ASSUME Init PROVE DbInv
  OBVIOUS
<1>1. kind \in {"postgres", "mysql", "mongo", "sqlite"}
  BY DatabaseAssumption DEF Init
<1>2. loop = "none" /\ seen = 0 /\ alive = 0 /\ abandoned = 0
  BY DEF Init
<1>3. ASSUME kind = "postgres" PROVE PgInv /\ LoopInv
  <2>1. Pg!Init
    BY <1>3 DEF Init
  <2>2. rows = <<>> /\ cl = "connect"
    BY <2>1 DEF Pg!Init, Pg!ConnInit
  <2>3. QED
    BY <1>2, <2>1, <2>2, PgStarts DEF LoopInv
<1>4. ASSUME kind = "mysql" PROVE MyInv /\ LoopInv
  <2>1. My!Init
    BY <1>4 DEF Init
  <2>2. rows = <<>> /\ cl = "connect"
    BY <2>1 DEF My!Init, My!ConnInit
  <2>3. QED
    BY <1>2, <2>1, <2>2, MyStarts DEF LoopInv
<1>5. ASSUME kind = "mongo" PROVE MgInv
  BY <1>5, MgStarts DEF Init
<1>6. ASSUME kind = "sqlite" PROVE SqliteInv
  <2>1. ConnInit
    BY <1>6 DEF Init
  <2>2. /\ cl = "connect" /\ q = 0 /\ errout = FALSE /\ sock = FALSE /\ srv = "listen"
        /\ rows = <<>> /\ produced = <<>>
    BY <2>1 DEF ConnInit
  <2>3. IsSeq(rows) /\ IsSeq(produced) /\ Len(rows) = 0 /\ Len(produced) = 0
    BY <2>2, EmptyIs
  <2>4. errout \in BOOLEAN
    BY <2>2
  <2>5. QED
    BY <1>2, <2>2, <2>3, <2>4 DEF SqliteInv
<1>7. QED
  BY <1>1, <1>2, <1>3, <1>4, <1>5, <1>6 DEF DbInv

LEMMA KindStays == [Next]_vars => kind' = kind
<1> SUFFICES ASSUME [Next]_vars PROVE kind' = kind
  OBVIOUS
<1>1. Sqlite => kind' = kind
  BY DEF Sqlite, SqliteOpen, SqliteExec, SqliteQuery, SqliteNext, SqliteClose, SqliteInvalid, program
<1>2. WireStep \/ WireRequest \/ WireNext \/ Break \/ MongoStep \/ WireDrop => kind' = kind
  BY DEF WireStep, WireRequest, WireNext, Break, MongoStep, WireDrop, program
<1>3. Finished \/ UNCHANGED vars => kind' = kind
  BY DEF Finished, vars, program
<1>4. QED
  BY <1>1, <1>2, <1>3 DEF Next

LEMMA DbSteps == DbInv /\ [Next]_vars => DbInv'
<1> SUFFICES ASSUME DbInv, [Next]_vars PROVE DbInv'
  OBVIOUS
<1>1. kind' = kind
  BY KindStays
<1>2. CASE kind = "postgres"
  BY <1>1, <1>2, PgDb DEF DbInv
<1>3. CASE kind = "mysql"
  BY <1>1, <1>3, MyDb DEF DbInv
<1>4. CASE kind = "mongo"
  BY <1>1, <1>4, MgDb DEF DbInv
<1>5. CASE kind = "sqlite"
  BY <1>1, <1>5, SqliteDb DEF DbInv
<1>6. QED
  BY <1>2, <1>3, <1>4, <1>5 DEF DbInv

LEMMA DbInvariant == Spec => []DbInv
<1>1. Init => DbInv
  BY DbStarts
<1>2. DbInv /\ [Next]_vars => DbInv'
  BY DbSteps
<1>3. QED
  BY <1>1, <1>2, PTL DEF Spec

-----------------------------------------------------------------------------
(* What follows from it, for any number of requests, rows and documents,   *)
(* any ways of authentication and links that hold or do not.               *)

(* The conversation stays in step (DbConnection!InStep): no message of an  *)
(* answer is ever left over for the next request on the connection.        *)
THEOREM ConversationInStep == Spec => []InStep
<1>1. ASSUME DbInv PROVE InStep
  <2>1. CASE kind = "postgres"
    BY <1>1, <2>1 DEF DbInv, PgInv, PgTalk, Talk, InStep
  <2>2. CASE kind = "mysql"
    BY <1>1, <2>2 DEF DbInv, MyInv, MyTalk, Talk, InStep
  <2>3. CASE kind = "mongo"
    BY <1>1, <2>3 DEF DbInv, MgInv, MgTypes, MgTalk, InStep
  <2>4. CASE kind = "sqlite"
    BY <1>1, <2>4 DEF DbInv, SqliteInv, InStep
  <2>5. QED
    BY <1>1, <2>1, <2>2, <2>3, <2>4 DEF DbInv
<1>2. QED
  BY <1>1, DbInvariant, PTL

(* What a driver hands over is the answer to the request that was made,    *)
(* row by row, and the whole of it unless it says otherwise                *)
(* (Database!CompleteOrError).                                             *)
THEOREM ResultsComplete == Spec => []CompleteOrError
<1>1. ASSUME DbInv PROVE CompleteOrError
  <2>1. CASE kind = "postgres"
    <3>1. PgResult
      BY <1>1, <2>1 DEF DbInv, PgInv
    <3>2. Pg!CompleteOrError
      BY <3>1 DEF PgResult, Numbered, Pg!CompleteOrError, Pg!Settled
    <3>3. QED
      BY <2>1, <3>2 DEF CompleteOrError
  <2>2. CASE kind = "mysql"
    <3>1. MyResult
      BY <1>1, <2>2 DEF DbInv, MyInv
    <3>2. My!CompleteOrError
      BY <3>1 DEF MyResult, Numbered, My!CompleteOrError, My!Settled
    <3>3. QED
      BY <2>2, <3>2 DEF CompleteOrError
  <2>3. CASE kind = "mongo"
    BY <1>1, <2>3 DEF DbInv, MgInv, MgResult, CompleteOrError, Settled
  <2>4. CASE kind = "sqlite"
    <3>1. /\ IsSeq(rows) /\ IsSeq(produced) /\ Len(rows) <= Len(produced)
          /\ \A i \in 1 .. Len(rows) : rows[i] = produced[i]
      BY <1>1, <2>4 DEF DbInv, SqliteInv
    <3>2. Len(rows) \in Nat /\ Len(produced) \in Nat
      BY <3>1, SeqShape
    <3>3. SubSeq(produced, 1, Len(rows)) = [i \in 1 .. Len(rows) |-> produced[i]]
      BY <3>2
    <3>4. rows = [i \in 1 .. Len(rows) |-> rows[i]]
      BY <3>1 DEF IsSeq
    <3>5. rows = SubSeq(produced, 1, Len(rows))
      BY <3>1, <3>3, <3>4
    <3>6. QED
      BY <2>4, <3>5 DEF CompleteOrError
  <2>5. QED
    BY <1>1, <2>1, <2>2, <2>3, <2>4 DEF DbInv
<1>2. QED
  BY <1>1, DbInvariant, PTL

(* A loop over rows that came to its end has seen all that a successful    *)
(* query produced, while the link holds (Database!Delivered).              *)
THEOREM LoopsDeliver == Spec => []Delivered
<1>1. ASSUME DbInv PROVE Delivered
  <2>1. CASE kind = "postgres"
    <3>1. PgResult /\ LoopInv /\ (up => PgTalk)
      BY <1>1, <2>1 DEF DbInv, PgInv
    <3>2. ASSUME loop = "ended", outcome = "done", up PROVE seen = Len(produced)
      <4>1. cl \in {"idle", "failed"} /\ seen = Len(rows)
        BY <3>1, <3>2 DEF LoopInv, Resting, PgTalk
      <4>2. rows = produced
        BY <3>1, <3>2, <4>1 DEF PgResult
      <4>3. QED
        BY <4>1, <4>2
    <3>3. QED
      BY <2>1, <3>2 DEF Delivered
  <2>2. CASE kind = "mysql"
    <3>1. MyResult /\ LoopInv /\ (up => MyTalk)
      BY <1>1, <2>2 DEF DbInv, MyInv
    <3>2. ASSUME loop = "ended", outcome = "done", up PROVE seen = Len(produced)
      <4>1. cl \in {"idle", "failed"} /\ seen = Len(rows)
        BY <3>1, <3>2 DEF LoopInv, Resting, MyTalk
      <4>2. rows = produced
        BY <3>1, <3>2, <4>1 DEF MyResult
      <4>3. QED
        BY <4>1, <4>2
    <3>3. QED
      BY <2>2, <3>2 DEF Delivered
  <2>3. CASE kind = "mongo"
    BY <1>1, <2>3 DEF DbInv, Delivered
  <2>4. CASE kind = "sqlite"
    BY <1>1, <2>4 DEF DbInv, SqliteInv, Delivered
  <2>5. QED
    BY <1>1, <2>1, <2>2, <2>3, <2>4 DEF DbInv
<1>2. QED
  BY <1>1, DbInvariant, PTL

(* The answer to a request that changes data is true (Database!AnswerTrue). *)
THEOREM AnswersTrue == Spec => []AnswerTrue
<1>1. ASSUME DbInv PROVE AnswerTrue
  <2>1. CASE kind = "postgres"
    BY <1>1, <2>1 DEF DbInv, PgInv, PgResult, AnswerTrue, Settled
  <2>2. CASE kind = "mysql"
    BY <1>1, <2>2 DEF DbInv, MyInv, MyResult, MyEnded, AnswerTrue, Settled
  <2>3. CASE kind = "mongo"
    BY <1>1, <2>3 DEF DbInv, MgInv, MgResult, AnswerTrue, Settled
  <2>4. CASE kind = "sqlite"
    BY <1>1, <2>4 DEF DbInv, SqliteInv, AnswerTrue, Settled
  <2>5. QED
    BY <1>1, <2>1, <2>2, <2>3, <2>4 DEF DbInv
<1>2. QED
  BY <1>1, DbInvariant, PTL

(* Nothing stays behind (Database!Released): a closed connection has no    *)
(* descriptor unless a loop was left, and a SQLite or MongoDB connection   *)
(* that could not be opened has none.                                      *)
THEOREM DescriptorsReleased == Spec => []Released
<1>1. ASSUME DbInv PROVE Released
  <2>1. CASE kind = "postgres"
    BY <1>1, <2>1 DEF DbInv, PgInv, PgTypes, Released, Wire
  <2>2. CASE kind = "mysql"
    BY <1>1, <2>2 DEF DbInv, MyInv, MyTypes, Released, Wire
  <2>3. CASE kind = "mongo"
    BY <1>1, <2>3 DEF DbInv, MgInv, MgTypes, Released
  <2>4. CASE kind = "sqlite"
    BY <1>1, <2>4 DEF DbInv, SqliteInv, Released
  <2>5. QED
    BY <1>1, <2>1, <2>2, <2>3, <2>4 DEF DbInv
<1>2. QED
  BY <1>1, DbInvariant, PTL

(* What find of std/mongo returns was inserted: every element of a batch   *)
(* is what becomes of a text that the program inserted, with the _id that  *)
(* the server gave it, whatever the conversion of documents.               *)
FoundWasInserted == kind = "mongo" => \A i \in 1 .. Len(rows) : ReadBack(rows[i])

THEOREM FoundAsInserted == Spec => []FoundWasInserted
<1>1. ASSUME DbInv PROVE FoundWasInserted
  BY <1>1 DEF DbInv, MgInv, MgResult, FoundWasInserted
<1>2. QED
  BY <1>1, DbInvariant, PTL
=============================================================================
