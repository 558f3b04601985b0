--------------------------- MODULE VaderChanProofs ---------------------------
(***************************************************************************)
(* Proofs about VaderChan, for any finite set of threads, any set of       *)
(* channels, any requested capacities and any set of values.               *)
(***************************************************************************)
EXTENDS VaderChan, TLAPS, FiniteSetTheorems, SequenceTheorems

USE ThreadsAssumption, AskedAssumption, NothingAssumption

-----------------------------------------------------------------------------
(* Index arithmetic of the ring: the remainder of an index that has run at *)
(* most once past the end.                                                 *)
LEMMA Wrap ==
  ASSUME NEW n \in Nat, n >= 1, NEW x \in Nat, x < n + n
  PROVE  x % n = IF x < n THEN x ELSE x - n
OBVIOUS

LEMMA WrapSum ==
  ASSUME NEW n \in Nat, n >= 1, NEW h \in 0 .. n - 1, NEW k \in 0 .. n
  PROVE  /\ (h + k) % n = IF h + k < n THEN h + k ELSE h + k - n
         /\ (h + k) % n \in 0 .. n - 1
OBVIOUS

LEMMA Advance ==
  ASSUME NEW n \in Nat, n >= 1, NEW x \in 0 .. n - 1
  PROVE  (x + 1) % n \in 0 .. n - 1
OBVIOUS

LEMMA CapacityType ==
  ASSUME NEW c \in Chans
  PROVE  Capacity[c] \in Nat /\ Capacity[c] >= 1
BY DEF Capacity

(* What the pieces of the critical sections do to the struct's type. *)
LEMMA PutType ==
  ASSUME NEW c \in Chans, NEW s \in ChanState(c), NEW v \in Values,
         s.count # s.cap
  PROVE  /\ Put(s, v) \in ChanState(c)
         /\ Put(s, v).mu = s.mu
         /\ Put(s, v).closed = s.closed
         /\ Put(s, v).notFull = s.notFull
         /\ Put(s, v).notEmpty = s.notEmpty
<1> DEFINE n == Capacity[c]
<1>1. n \in Nat /\ n >= 1
  BY CapacityType
<1>2. /\ s.cap = n
      /\ s.tail \in 0 .. n - 1
      /\ s.count \in 0 .. n - 1
      /\ s.buf \in [0 .. n - 1 -> Values \cup {Nothing}]
  BY <1>1 DEF ChanState
<1> HIDE DEF n
<1>4. (s.tail + 1) % s.cap \in 0 .. n - 1
  BY <1>1, <1>2, Advance
<1>5. s.count + 1 \in 0 .. n
  BY <1>1, <1>2
<1>6. [s.buf EXCEPT ![s.tail] = v] \in [0 .. n - 1 -> Values \cup {Nothing}]
  BY <1>2
<1>7. QED
  BY <1>4, <1>5, <1>6 DEF ChanState, Put, n

LEMMA TakeType ==
  ASSUME NEW c \in Chans, NEW s \in ChanState(c), s.count # 0
  PROVE  /\ Take(s) \in ChanState(c)
         /\ Take(s).mu = s.mu
         /\ Take(s).closed = s.closed
         /\ Take(s).notFull = s.notFull
         /\ Take(s).notEmpty = s.notEmpty
<1> DEFINE n == Capacity[c]
<1>1. n \in Nat /\ n >= 1
  BY CapacityType
<1>2. s.cap = n /\ s.head \in 0 .. n - 1 /\ s.count \in 1 .. n
  BY <1>1 DEF ChanState
<1> HIDE DEF n
<1>4. (s.head + 1) % s.cap \in 0 .. n - 1
  BY <1>1, <1>2, Advance
<1>5. s.count - 1 \in 0 .. n
  BY <1>1, <1>2
<1>6. QED
  BY <1>4, <1>5 DEF ChanState, Take, n

-----------------------------------------------------------------------------
(* What each action does, spelled out: which struct changes and into what. *)

Becomes(c, s) ==
  /\ DOMAIN chan' = Chans
  /\ chan'[c] = s
  /\ \A d \in Chans : d # c => chan'[d] = chan[d]

Moves(t, l) ==
  /\ pc' \in [Threads -> {"idle", "lock", "body", "wait", "unlock"}]
  /\ pc'[t] = l
  /\ \A u \in Threads : u # t => pc'[u] = pc[u]

LEMMA RequestOf ==
  ASSUME TypeOK, NEW t \in Threads, pc[t] # "idle"
  PROVE  /\ req[t] \in Request
         /\ req[t].ch \in Chans
         /\ req[t].op = "send" => req[t].val \in Values
BY DEF TypeOK, Request

LEMMA MoveOf ==
  ASSUME TypeOK, NEW t \in Threads,
         NEW l \in {"idle", "lock", "body", "wait", "unlock"}, Goto(t, l)
  PROVE  Moves(t, l)
BY DEF TypeOK, Goto, Moves

LEMMA UpdateOf ==
  ASSUME TypeOK, NEW c \in Chans, NEW s, chan' = [chan EXCEPT ![c] = s]
  PROVE  Becomes(c, s)
BY DEF TypeOK, Becomes

LEMMA LockShape ==
  ASSUME TypeOK, NEW t \in Threads, Lock(t)
  PROVE  /\ chan[req[t].ch].mu = Nothing
         /\ Becomes(req[t].ch, [chan[req[t].ch] EXCEPT !.mu = t])
         /\ Moves(t, "body")
         /\ req' = req /\ res' = res
<1>1. req[t].ch \in Chans
  BY RequestOf DEF Lock
<1>2. chan' = [chan EXCEPT ![req[t].ch] = [chan[req[t].ch] EXCEPT !.mu = t]]
  BY DEF Lock
<1>3. QED
  BY <1>1, <1>2, UpdateOf, MoveOf DEF Lock

LEMMA SendWaitShape ==
  ASSUME TypeOK, NEW t \in Threads, SendWait(t)
  PROVE  /\ Becomes(req[t].ch, [chan[req[t].ch] EXCEPT
                                  !.mu = Nothing, !.notFull = @ \cup {t}])
         /\ Moves(t, "wait")
         /\ req' = req /\ res' = res
<1>1. req[t].ch \in Chans
  BY RequestOf DEF SendWait, Body
<1>2. chan' = [chan EXCEPT ![req[t].ch] =
                 [chan[req[t].ch] EXCEPT !.mu = Nothing,
                                         !.notFull = @ \cup {t}]]
  BY <1>1 DEF SendWait, TypeOK
<1>3. QED
  BY <1>1, <1>2, UpdateOf, MoveOf DEF SendWait, Body

LEMMA SendPutShape ==
  ASSUME TypeOK, NEW t \in Threads, SendPut(t)
  PROVE  /\ \E W \in Signal(chan[req[t].ch].notEmpty) :
              Becomes(req[t].ch, [Put(chan[req[t].ch], req[t].val)
                                    EXCEPT !.notEmpty = W])
         /\ Moves(t, "unlock")
         /\ req' = req /\ res' = res
<1>1. req[t].ch \in Chans
  BY RequestOf DEF SendPut, Body
<1>2. PICK W \in Signal(chan[req[t].ch].notEmpty) :
        chan' = [chan EXCEPT ![req[t].ch] =
                   [Put(chan[req[t].ch], req[t].val) EXCEPT !.notEmpty = W]]
  BY <1>1 DEF SendPut, TypeOK
<1>3. QED
  BY <1>1, <1>2, UpdateOf, MoveOf DEF SendPut, Body

LEMMA RecvWaitShape ==
  ASSUME TypeOK, NEW t \in Threads, RecvWait(t)
  PROVE  /\ Becomes(req[t].ch, [chan[req[t].ch] EXCEPT
                                  !.mu = Nothing, !.notEmpty = @ \cup {t}])
         /\ Moves(t, "wait")
         /\ req' = req /\ res' = res
<1>1. req[t].ch \in Chans
  BY RequestOf DEF RecvWait, Body
<1>2. chan' = [chan EXCEPT ![req[t].ch] =
                 [chan[req[t].ch] EXCEPT !.mu = Nothing,
                                         !.notEmpty = @ \cup {t}]]
  BY <1>1 DEF RecvWait, TypeOK
<1>3. QED
  BY <1>1, <1>2, UpdateOf, MoveOf DEF RecvWait, Body

LEMMA RecvTakeShape ==
  ASSUME TypeOK, NEW t \in Threads, RecvTake(t)
  PROVE  /\ \E W \in Signal(chan[req[t].ch].notFull) :
              Becomes(req[t].ch, [Take(chan[req[t].ch]) EXCEPT !.notFull = W])
         /\ Moves(t, "unlock")
         /\ req' = req
         /\ res' = [res EXCEPT ![t] = Oldest(chan[req[t].ch])]
<1>1. req[t].ch \in Chans
  BY RequestOf DEF RecvTake, Body
<1>2. PICK W \in Signal(chan[req[t].ch].notFull) :
        chan' = [chan EXCEPT ![req[t].ch] =
                   [Take(chan[req[t].ch]) EXCEPT !.notFull = W]]
  BY <1>1 DEF RecvTake, TypeOK
<1>3. QED
  BY <1>1, <1>2, UpdateOf, MoveOf DEF RecvTake, Body

LEMMA CloseShape ==
  ASSUME TypeOK, NEW t \in Threads, CloseBody(t)
  PROVE  /\ Becomes(req[t].ch, [chan[req[t].ch] EXCEPT
                        !.closed = TRUE, !.notEmpty = {}, !.notFull = {}])
         /\ Moves(t, "unlock")
         /\ req' = req /\ res' = res
<1>1. req[t].ch \in Chans
  BY RequestOf DEF CloseBody, Body
<1>2. chan' = [chan EXCEPT ![req[t].ch] =
                 [chan[req[t].ch] EXCEPT !.closed = TRUE,
                                         !.notEmpty = {}, !.notFull = {}]]
  BY <1>1 DEF CloseBody, TypeOK
<1>3. QED
  BY <1>1, <1>2, UpdateOf, MoveOf DEF CloseBody, Body

LEMMA UnlockShape ==
  ASSUME TypeOK, NEW t \in Threads, Unlock(t)
  PROVE  /\ req[t].ch \in Chans
         /\ Becomes(req[t].ch, [chan[req[t].ch] EXCEPT !.mu = Nothing])
         /\ Moves(t, "idle")
         /\ req' = [req EXCEPT ![t] = Nothing] /\ res' = res
<1>1. req[t].ch \in Chans
  BY RequestOf DEF Unlock
<1>2. chan' = [chan EXCEPT ![req[t].ch] =
                 [chan[req[t].ch] EXCEPT !.mu = Nothing]]
  BY <1>1 DEF Unlock, TypeOK
<1>3. QED
  BY <1>1, <1>2, UpdateOf, MoveOf DEF Unlock

LEMMA SpuriousShape ==
  ASSUME TypeOK, NEW t \in Threads, Spurious(t)
  PROVE  /\ Becomes(req[t].ch,
                    [chan[req[t].ch] EXCEPT !.notFull = @ \ {t},
                                            !.notEmpty = @ \ {t}])
         /\ pc' = pc /\ req' = req /\ res' = res
<1>1. req[t].ch \in Chans
  BY RequestOf DEF Spurious
<1>2. chan' = [chan EXCEPT ![req[t].ch] =
                 [chan[req[t].ch] EXCEPT !.notFull = @ \ {t},
                                         !.notEmpty = @ \ {t}]]
  BY <1>1 DEF Spurious, TypeOK
<1>3. QED
  BY <1>1, <1>2, UpdateOf DEF Spurious

LEMMA QuietShape ==
  ASSUME TypeOK, NEW t \in Threads, SendDrop(t) \/ RecvEnd(t)
  PROVE  /\ chan' = chan
         /\ Moves(t, "unlock")
         /\ req' = req /\ res' = res
BY MoveOf DEF SendDrop, RecvEnd, Body

-----------------------------------------------------------------------------
(* The type of a struct survives each of those changes. *)
LEMMA StructType ==
  ASSUME NEW c \in Chans, NEW s \in ChanState(c),
         NEW m \in Threads \cup {Nothing}, NEW b \in BOOLEAN,
         NEW F \in SUBSET Threads, NEW E \in SUBSET Threads
  PROVE  /\ [s EXCEPT !.mu = m] \in ChanState(c)
         /\ [s EXCEPT !.mu = m, !.notFull = F] \in ChanState(c)
         /\ [s EXCEPT !.mu = m, !.notEmpty = E] \in ChanState(c)
         /\ [s EXCEPT !.notFull = F, !.notEmpty = E] \in ChanState(c)
         /\ [s EXCEPT !.closed = b, !.notEmpty = E, !.notFull = F] \in ChanState(c)
BY DEF ChanState

LEMMA TypeFromShape ==
  ASSUME TypeOK, NEW c \in Chans, NEW s \in ChanState(c), Becomes(c, s)
  PROVE  DOMAIN chan' = Chans /\ \A d \in Chans : chan'[d] \in ChanState(d)
BY DEF TypeOK, Becomes

LEMMA SignalType ==
  ASSUME NEW W \in SUBSET Threads, NEW X \in Signal(W)
  PROVE  X \in SUBSET Threads /\ X \subseteq W
BY DEF Signal

LEMMA TypeInit == Init => TypeOK
BY CapacityType DEF Init, TypeOK, Make, ChanState

LEMMA TypeStep == TypeOK /\ [Next]_vars => TypeOK'
<1> SUFFICES ASSUME TypeOK, [Next]_vars PROVE TypeOK'
  OBVIOUS
<1> DEFINE PcReq == /\ pc' \in [Threads -> {"idle", "lock", "body", "wait", "unlock"}]
                    /\ req' \in [Threads -> Request \cup {Nothing}]
                    /\ \A t \in Threads : req'[t] = Nothing <=> pc'[t] = "idle"
           ChanOK == DOMAIN chan' = Chans /\ \A d \in Chans : chan'[d] \in ChanState(d)
<1>1. ASSUME NEW t \in Threads, NEW r \in Request, Call(t, r)
      PROVE  TypeOK'
  <2>1. Moves(t, "lock")
    BY <1>1, MoveOf DEF Call
  <2>2. r # Nothing
    BY NothingAssumption
  <2>3. PcReq
    BY <1>1, <2>1, <2>2 DEF Call, TypeOK, Moves
  <2>4. QED
    BY <1>1, <2>3 DEF Call, TypeOK
<1>2. ASSUME NEW t \in Threads, Lock(t) PROVE TypeOK'
  <2>1. req[t].ch \in Chans /\ pc[t] # "idle"
    BY <1>2, RequestOf DEF Lock
  <2>2. /\ chan[req[t].ch] \in ChanState(req[t].ch)
        /\ chan[req[t].ch].notFull \in SUBSET Threads
        /\ chan[req[t].ch].notEmpty \in SUBSET Threads
    BY <2>1 DEF TypeOK, ChanState
  <2>2a. [chan[req[t].ch] EXCEPT !.mu = t] \in ChanState(req[t].ch)
    BY <2>1, <2>2, StructType
  <2>3. ChanOK
    BY <1>2, <2>1, <2>2a, LockShape, TypeFromShape
  <2>4. PcReq
    BY <1>2, <2>1, LockShape DEF TypeOK, Moves
  <2>5. QED
    BY <1>2, <2>3, <2>4, LockShape DEF TypeOK
<1>3. ASSUME NEW t \in Threads, SendWait(t) PROVE TypeOK'
  <2>1. req[t].ch \in Chans /\ pc[t] # "idle"
    BY <1>3, RequestOf DEF SendWait, Body
  <2>2. /\ chan[req[t].ch] \in ChanState(req[t].ch)
        /\ chan[req[t].ch].notFull \in SUBSET Threads
        /\ chan[req[t].ch].notEmpty \in SUBSET Threads
    BY <2>1 DEF TypeOK, ChanState
  <2>2a. [chan[req[t].ch] EXCEPT !.mu = Nothing, !.notFull = @ \cup {t}]
          \in ChanState(req[t].ch)
    BY <2>1, <2>2, StructType
  <2>3. ChanOK
    BY <1>3, <2>1, <2>2a, SendWaitShape, TypeFromShape
  <2>4. PcReq
    BY <1>3, <2>1, SendWaitShape DEF TypeOK, Moves
  <2>5. QED
    BY <1>3, <2>3, <2>4, SendWaitShape DEF TypeOK
<1>4. ASSUME NEW t \in Threads, SendDrop(t) \/ RecvEnd(t) PROVE TypeOK'
  <2>1. pc[t] # "idle"
    BY <1>4 DEF SendDrop, RecvEnd, Body
  <2>2. PcReq
    BY <1>4, <2>1, QuietShape DEF TypeOK, Moves
  <2>3. QED
    BY <1>4, <2>2, QuietShape DEF TypeOK
<1>5. ASSUME NEW t \in Threads, SendPut(t) PROVE TypeOK'
  <2> DEFINE c == req[t].ch
  <2>1. c \in Chans /\ pc[t] # "idle" /\ req[t].val \in Values
    BY <1>5, RequestOf DEF SendPut, Body
  <2>2. chan[c] \in ChanState(c) /\ chan[c].count # chan[c].cap
    BY <1>5, <2>1 DEF TypeOK, SendPut
  <2>3. PICK W \in Signal(chan[c].notEmpty) :
          Becomes(c, [Put(chan[c], req[t].val) EXCEPT !.notEmpty = W])
    BY <1>5, SendPutShape
  <2>4. W \in SUBSET Threads
    BY <2>2, SignalType DEF ChanState
  <2>5. Put(chan[c], req[t].val) \in ChanState(c)
    BY <2>1, <2>2, PutType
  <2>6. [Put(chan[c], req[t].val) EXCEPT !.notEmpty = W] \in ChanState(c)
    BY <2>4, <2>5 DEF ChanState
  <2>7. ChanOK
    BY <2>1, <2>3, <2>6, TypeFromShape
  <2>8. PcReq
    BY <1>5, <2>1, SendPutShape DEF TypeOK, Moves
  <2>9. QED
    BY <1>5, <2>7, <2>8, SendPutShape DEF TypeOK
<1>6. ASSUME NEW t \in Threads, RecvWait(t) PROVE TypeOK'
  <2>1. req[t].ch \in Chans /\ pc[t] # "idle"
    BY <1>6, RequestOf DEF RecvWait, Body
  <2>2. /\ chan[req[t].ch] \in ChanState(req[t].ch)
        /\ chan[req[t].ch].notFull \in SUBSET Threads
        /\ chan[req[t].ch].notEmpty \in SUBSET Threads
    BY <2>1 DEF TypeOK, ChanState
  <2>2a. [chan[req[t].ch] EXCEPT !.mu = Nothing, !.notEmpty = @ \cup {t}]
          \in ChanState(req[t].ch)
    BY <2>1, <2>2, StructType
  <2>3. ChanOK
    BY <1>6, <2>1, <2>2a, RecvWaitShape, TypeFromShape
  <2>4. PcReq
    BY <1>6, <2>1, RecvWaitShape DEF TypeOK, Moves
  <2>5. QED
    BY <1>6, <2>3, <2>4, RecvWaitShape DEF TypeOK
<1>7. ASSUME NEW t \in Threads, RecvTake(t) PROVE TypeOK'
  <2> DEFINE c == req[t].ch
  <2>1. c \in Chans /\ pc[t] # "idle"
    BY <1>7, RequestOf DEF RecvTake, Body
  <2>2. chan[c] \in ChanState(c) /\ chan[c].count # 0
    BY <1>7, <2>1 DEF TypeOK, RecvTake
  <2>3. PICK W \in Signal(chan[c].notFull) :
          Becomes(c, [Take(chan[c]) EXCEPT !.notFull = W])
    BY <1>7, RecvTakeShape
  <2>4. W \in SUBSET Threads
    BY <2>2, SignalType DEF ChanState
  <2>5. Take(chan[c]) \in ChanState(c)
    BY <2>1, <2>2, TakeType
  <2>6. [Take(chan[c]) EXCEPT !.notFull = W] \in ChanState(c)
    BY <2>4, <2>5 DEF ChanState
  <2>7. ChanOK
    BY <2>1, <2>3, <2>6, TypeFromShape
  <2>8. PcReq
    BY <1>7, <2>1, RecvTakeShape DEF TypeOK, Moves
  <2>9. Oldest(chan[c]) \in Values \cup {Nothing}
    BY <2>1, <2>2, CapacityType DEF ChanState, Oldest
  <2>10. res' \in [Threads -> Values \cup {Nothing}]
    BY <1>7, <2>9, RecvTakeShape DEF TypeOK
  <2>11. QED
    BY <2>7, <2>8, <2>10 DEF TypeOK
<1>8. ASSUME NEW t \in Threads, CloseBody(t) PROVE TypeOK'
  <2>1. req[t].ch \in Chans /\ pc[t] # "idle"
    BY <1>8, RequestOf DEF CloseBody, Body
  <2>2. /\ chan[req[t].ch] \in ChanState(req[t].ch)
        /\ chan[req[t].ch].notFull \in SUBSET Threads
        /\ chan[req[t].ch].notEmpty \in SUBSET Threads
    BY <2>1 DEF TypeOK, ChanState
  <2>2a. [chan[req[t].ch] EXCEPT !.closed = TRUE, !.notEmpty = {}, !.notFull = {}]
          \in ChanState(req[t].ch)
    BY <2>1, <2>2, StructType
  <2>3. ChanOK
    BY <1>8, <2>1, <2>2a, CloseShape, TypeFromShape
  <2>4. PcReq
    BY <1>8, <2>1, CloseShape DEF TypeOK, Moves
  <2>5. QED
    BY <1>8, <2>3, <2>4, CloseShape DEF TypeOK
<1>9. ASSUME NEW t \in Threads, Unlock(t) PROVE TypeOK'
  <2>1. req[t].ch \in Chans
    BY <1>9, RequestOf DEF Unlock
  <2>2. /\ chan[req[t].ch] \in ChanState(req[t].ch)
        /\ chan[req[t].ch].notFull \in SUBSET Threads
        /\ chan[req[t].ch].notEmpty \in SUBSET Threads
    BY <2>1 DEF TypeOK, ChanState
  <2>2a. [chan[req[t].ch] EXCEPT !.mu = Nothing] \in ChanState(req[t].ch)
    BY <2>1, <2>2, StructType
  <2>3. ChanOK
    BY <1>9, <2>1, <2>2a, UnlockShape, TypeFromShape
  <2>4. PcReq
    BY <1>9, UnlockShape DEF TypeOK, Moves
  <2>5. QED
    BY <1>9, <2>3, <2>4, UnlockShape DEF TypeOK
<1>10. ASSUME NEW t \in Threads, Spurious(t) PROVE TypeOK'
  <2>1. req[t].ch \in Chans
    BY <1>10, RequestOf DEF Spurious
  <2>2. /\ chan[req[t].ch] \in ChanState(req[t].ch)
        /\ chan[req[t].ch].notFull \in SUBSET Threads
        /\ chan[req[t].ch].notEmpty \in SUBSET Threads
    BY <2>1 DEF TypeOK, ChanState
  <2>2a. [chan[req[t].ch] EXCEPT !.notFull = @ \ {t}, !.notEmpty = @ \ {t}]
          \in ChanState(req[t].ch)
    BY <2>1, <2>2, StructType
  <2>3. ChanOK
    BY <1>10, <2>1, <2>2a, SpuriousShape, TypeFromShape
  <2>4. QED
    BY <1>10, <2>3, SpuriousShape DEF TypeOK
<1>11. CASE UNCHANGED vars
  BY <1>11 DEF vars, TypeOK
<1>12. QED
  BY <1>1, <1>2, <1>3, <1>4, <1>5, <1>6, <1>7, <1>8, <1>9, <1>10, <1>11
  DEF Next, Step

(* The state of every channel and every thread keeps its shape: indices    *)
(* stay inside the buffer, and a thread has a request exactly while it is  *)
(* inside vader_chan_send, recv or close.                                  *)
THEOREM TypeCorrect == Spec => []TypeOK
BY TypeInit, TypeStep, PTL DEF Spec

-----------------------------------------------------------------------------
(* The part of a struct that an action leaves alone. *)
Puts(c, v) ==
  /\ c \in Chans
  /\ DOMAIN chan' = Chans
  /\ \A d \in Chans : d # c => chan'[d] = chan[d]
  /\ chan'[c].mu = chan[c].mu
  /\ chan'[c].closed = chan[c].closed
  /\ chan'[c].notFull = chan[c].notFull
  /\ chan'[c].notEmpty \in Signal(chan[c].notEmpty)
  /\ chan'[c].cap = chan[c].cap
  /\ chan'[c].count = chan[c].count + 1
  /\ chan'[c].head = chan[c].head
  /\ chan'[c].tail = (chan[c].tail + 1) % chan[c].cap
  /\ chan'[c].buf = [chan[c].buf EXCEPT ![chan[c].tail] = v]

Takes(c) ==
  /\ c \in Chans
  /\ DOMAIN chan' = Chans
  /\ \A d \in Chans : d # c => chan'[d] = chan[d]
  /\ chan'[c].mu = chan[c].mu
  /\ chan'[c].closed = chan[c].closed
  /\ chan'[c].notEmpty = chan[c].notEmpty
  /\ chan'[c].notFull \in Signal(chan[c].notFull)
  /\ chan'[c].cap = chan[c].cap
  /\ chan'[c].count = chan[c].count - 1
  /\ chan'[c].tail = chan[c].tail
  /\ chan'[c].head = (chan[c].head + 1) % chan[c].cap
  /\ chan'[c].buf = chan[c].buf

LEMMA PutFrame ==
  ASSUME TypeOK, NEW t \in Threads, NEW c, c = req[t].ch, SendPut(t)
  PROVE  Puts(c, req[t].val)
<1>1. c \in Chans /\ req[t].val \in Values
  BY RequestOf DEF SendPut, Body
<1>2. chan[c] \in ChanState(c)
  BY <1>1 DEF TypeOK
<1>3. PICK W \in Signal(chan[c].notEmpty) :
        Becomes(c, [Put(chan[c], req[t].val) EXCEPT !.notEmpty = W])
  BY SendPutShape
<1>4. chan'[c] = [Put(chan[c], req[t].val) EXCEPT !.notEmpty = W]
  BY <1>3 DEF Becomes
<1>5. chan'[c] = [cap |-> chan[c].cap,
                  buf |-> [chan[c].buf EXCEPT ![chan[c].tail] = req[t].val],
                  count |-> chan[c].count + 1,
                  head |-> chan[c].head,
                  tail |-> (chan[c].tail + 1) % chan[c].cap,
                  closed |-> chan[c].closed,
                  mu |-> chan[c].mu,
                  notFull |-> chan[c].notFull,
                  notEmpty |-> W]
  BY <1>2, <1>4 DEF Put, ChanState
<1>6. QED
  BY <1>1, <1>3, <1>5 DEF Becomes, Puts

LEMMA TakeFrame ==
  ASSUME TypeOK, NEW t \in Threads, NEW c, c = req[t].ch, RecvTake(t)
  PROVE  Takes(c)
<1>1. c \in Chans
  BY RequestOf DEF RecvTake, Body
<1>2. chan[c] \in ChanState(c)
  BY <1>1 DEF TypeOK
<1>3. PICK W \in Signal(chan[c].notFull) :
        Becomes(c, [Take(chan[c]) EXCEPT !.notFull = W])
  BY RecvTakeShape
<1>4. chan'[c] = [Take(chan[c]) EXCEPT !.notFull = W]
  BY <1>3 DEF Becomes
<1>5. chan'[c] = [cap |-> chan[c].cap,
                  buf |-> chan[c].buf,
                  count |-> chan[c].count - 1,
                  head |-> (chan[c].head + 1) % chan[c].cap,
                  tail |-> chan[c].tail,
                  closed |-> chan[c].closed,
                  mu |-> chan[c].mu,
                  notFull |-> W,
                  notEmpty |-> chan[c].notEmpty]
  BY <1>2, <1>4 DEF Take, ChanState
<1>6. QED
  BY <1>1, <1>3, <1>5 DEF Becomes, Takes

(* The other actions leave the ring as it was and set only the mutex, the  *)
(* waiter sets and the closed flag.                                        *)
Sets(c, m, F, E, b) ==
  /\ c \in Chans
  /\ DOMAIN chan' = Chans
  /\ \A d \in Chans : d # c => chan'[d] = chan[d]
  /\ chan'[c].cap = chan[c].cap
  /\ chan'[c].buf = chan[c].buf
  /\ chan'[c].count = chan[c].count
  /\ chan'[c].head = chan[c].head
  /\ chan'[c].tail = chan[c].tail
  /\ chan'[c].mu = m
  /\ chan'[c].notFull = F
  /\ chan'[c].notEmpty = E
  /\ chan'[c].closed = b

LEMMA LockFrame ==
  ASSUME TypeOK, NEW t \in Threads, NEW c, c = req[t].ch, Lock(t)
  PROVE  Sets(c, t, chan[c].notFull, chan[c].notEmpty, chan[c].closed)
<1>1. c \in Chans
  BY RequestOf DEF Lock
<1>2. chan[c] \in ChanState(c)
  BY <1>1 DEF TypeOK
<1>3. Becomes(c, [chan[c] EXCEPT !.mu = t])
  BY LockShape
<1>4. QED
  BY <1>1, <1>2, <1>3 DEF Becomes, ChanState, Sets

LEMMA UnlockFrame ==
  ASSUME TypeOK, NEW t \in Threads, NEW c, c = req[t].ch, Unlock(t)
  PROVE  Sets(c, Nothing, chan[c].notFull, chan[c].notEmpty, chan[c].closed)
<1>1. c \in Chans
  BY RequestOf DEF Unlock
<1>2. chan[c] \in ChanState(c)
  BY <1>1 DEF TypeOK
<1>3. Becomes(c, [chan[c] EXCEPT !.mu = Nothing])
  BY UnlockShape
<1>4. QED
  BY <1>1, <1>2, <1>3 DEF Becomes, ChanState, Sets

LEMMA SendWaitFrame ==
  ASSUME TypeOK, NEW t \in Threads, NEW c, c = req[t].ch, SendWait(t)
  PROVE  Sets(c, Nothing, chan[c].notFull \cup {t}, chan[c].notEmpty,
              chan[c].closed)
<1>1. c \in Chans
  BY RequestOf DEF SendWait, Body
<1>2. chan[c] \in ChanState(c)
  BY <1>1 DEF TypeOK
<1>3. Becomes(c, [chan[c] EXCEPT !.mu = Nothing, !.notFull = @ \cup {t}])
  BY SendWaitShape
<1>4. QED
  BY <1>1, <1>2, <1>3 DEF Becomes, ChanState, Sets

LEMMA RecvWaitFrame ==
  ASSUME TypeOK, NEW t \in Threads, NEW c, c = req[t].ch, RecvWait(t)
  PROVE  Sets(c, Nothing, chan[c].notFull, chan[c].notEmpty \cup {t},
              chan[c].closed)
<1>1. c \in Chans
  BY RequestOf DEF RecvWait, Body
<1>2. chan[c] \in ChanState(c)
  BY <1>1 DEF TypeOK
<1>3. Becomes(c, [chan[c] EXCEPT !.mu = Nothing, !.notEmpty = @ \cup {t}])
  BY RecvWaitShape
<1>4. QED
  BY <1>1, <1>2, <1>3 DEF Becomes, ChanState, Sets

LEMMA CloseFrame ==
  ASSUME TypeOK, NEW t \in Threads, NEW c, c = req[t].ch, CloseBody(t)
  PROVE  Sets(c, chan[c].mu, {}, {}, TRUE)
<1>1. c \in Chans
  BY RequestOf DEF CloseBody, Body
<1>2. chan[c] \in ChanState(c)
  BY <1>1 DEF TypeOK
<1>3. Becomes(c, [chan[c] EXCEPT !.closed = TRUE, !.notEmpty = {}, !.notFull = {}])
  BY CloseShape
<1>4. QED
  BY <1>1, <1>2, <1>3 DEF Becomes, ChanState, Sets

LEMMA SpuriousFrame ==
  ASSUME TypeOK, NEW t \in Threads, NEW c, c = req[t].ch, Spurious(t)
  PROVE  Sets(c, chan[c].mu, chan[c].notFull \ {t}, chan[c].notEmpty \ {t},
              chan[c].closed)
<1>1. c \in Chans
  BY RequestOf DEF Spurious
<1>2. chan[c] \in ChanState(c)
  BY <1>1 DEF TypeOK
<1>3. Becomes(c, [chan[c] EXCEPT !.notFull = @ \ {t}, !.notEmpty = @ \ {t}])
  BY SpuriousShape
<1>4. QED
  BY <1>1, <1>2, <1>3 DEF Becomes, ChanState, Sets

-----------------------------------------------------------------------------
(* Mutual exclusion. *)
LEMMA MutexInit == Init => MutexInv
BY ThreadsAssumption DEF Init, MutexInv, Make

LEMMA MutexStep == TypeOK /\ MutexInv /\ [Next]_vars => MutexInv'
<1> SUFFICES ASSUME TypeOK, MutexInv, [Next]_vars PROVE MutexInv'
  OBVIOUS
<1>1. ASSUME NEW t \in Threads, NEW r \in Request, Call(t, r)
      PROVE  MutexInv'
  <2>1. Moves(t, "lock")
    BY <1>1, MoveOf DEF Call
  <2>2. QED
    BY <1>1, <2>1 DEF Call, MutexInv, Moves, TypeOK
<1>2. ASSUME NEW t \in Threads, Lock(t) PROVE MutexInv'
  <2>1. pc[t] \in {"lock", "wait"}
    BY <1>2 DEF Lock
  <2>2. PICK c : c = req[t].ch
    OBVIOUS
  <2>3. Sets(c, t, chan[c].notFull, chan[c].notEmpty, chan[c].closed)
    BY <1>2, <2>2, LockFrame
  <2>4. Moves(t, "body") /\ req' = req
    BY <1>2, LockShape
  <2>4a. chan[c].mu = Nothing
    BY <1>2, <2>2, LockShape
  <2>5. QED
    BY <2>1, <2>2, <2>3, <2>4, <2>4a DEF MutexInv, Moves, Sets, TypeOK
<1>3. ASSUME NEW t \in Threads, SendWait(t) PROVE MutexInv'
  <2>1. pc[t] = "body"
    BY <1>3 DEF SendWait, Body
  <2>2. PICK c : c = req[t].ch
    OBVIOUS
  <2>3. Sets(c, Nothing, chan[c].notFull \cup {t}, chan[c].notEmpty, chan[c].closed)
    BY <1>3, <2>2, SendWaitFrame
  <2>4. Moves(t, "wait") /\ req' = req
    BY <1>3, SendWaitShape
  <2>5. QED
    BY <2>1, <2>2, <2>3, <2>4 DEF MutexInv, Moves, Sets, TypeOK
<1>4. ASSUME NEW t \in Threads, SendDrop(t) \/ RecvEnd(t) PROVE MutexInv'
  <2>1. pc[t] = "body"
    BY <1>4 DEF SendDrop, RecvEnd, Body
  <2>2. chan' = chan /\ Moves(t, "unlock") /\ req' = req
    BY <1>4, QuietShape
  <2>3. QED
    BY <2>1, <2>2 DEF MutexInv, Moves
<1>5. ASSUME NEW t \in Threads, SendPut(t) PROVE MutexInv'
  <2>1. pc[t] = "body"
    BY <1>5 DEF SendPut, Body
  <2>2. PICK c : c = req[t].ch
    OBVIOUS
  <2>3. Puts(c, req[t].val)
    BY <1>5, <2>2, PutFrame
  <2>4. Moves(t, "unlock") /\ req' = req
    BY <1>5, SendPutShape
  <2>5. QED
    BY <2>1, <2>2, <2>3, <2>4 DEF MutexInv, Moves, Puts
<1>6. ASSUME NEW t \in Threads, RecvWait(t) PROVE MutexInv'
  <2>1. pc[t] = "body"
    BY <1>6 DEF RecvWait, Body
  <2>2. PICK c : c = req[t].ch
    OBVIOUS
  <2>3. Sets(c, Nothing, chan[c].notFull, chan[c].notEmpty \cup {t}, chan[c].closed)
    BY <1>6, <2>2, RecvWaitFrame
  <2>4. Moves(t, "wait") /\ req' = req
    BY <1>6, RecvWaitShape
  <2>5. QED
    BY <2>1, <2>2, <2>3, <2>4 DEF MutexInv, Moves, Sets, TypeOK
<1>7. ASSUME NEW t \in Threads, RecvTake(t) PROVE MutexInv'
  <2>1. pc[t] = "body"
    BY <1>7 DEF RecvTake, Body
  <2>2. PICK c : c = req[t].ch
    OBVIOUS
  <2>3. Takes(c)
    BY <1>7, <2>2, TakeFrame
  <2>4. Moves(t, "unlock") /\ req' = req
    BY <1>7, RecvTakeShape
  <2>5. QED
    BY <2>1, <2>2, <2>3, <2>4 DEF MutexInv, Moves, Takes
<1>8. ASSUME NEW t \in Threads, CloseBody(t) PROVE MutexInv'
  <2>1. pc[t] = "body"
    BY <1>8 DEF CloseBody, Body
  <2>2. PICK c : c = req[t].ch
    OBVIOUS
  <2>3. Sets(c, chan[c].mu, {}, {}, TRUE)
    BY <1>8, <2>2, CloseFrame
  <2>4. Moves(t, "unlock") /\ req' = req
    BY <1>8, CloseShape
  <2>5. QED
    BY <2>1, <2>2, <2>3, <2>4 DEF MutexInv, Moves, Sets, TypeOK
<1>9. ASSUME NEW t \in Threads, Unlock(t) PROVE MutexInv'
  <2>1. pc[t] = "unlock"
    BY <1>9 DEF Unlock
  <2>2. PICK c : c = req[t].ch
    OBVIOUS
  <2>3. Sets(c, Nothing, chan[c].notFull, chan[c].notEmpty, chan[c].closed)
    BY <1>9, <2>2, UnlockFrame
  <2>4. Moves(t, "idle") /\ req' = [req EXCEPT ![t] = Nothing]
    BY <1>9, UnlockShape
  <2>5. QED
    BY <2>1, <2>2, <2>3, <2>4 DEF MutexInv, Moves, Sets, TypeOK
<1>10. ASSUME NEW t \in Threads, Spurious(t) PROVE MutexInv'
  <2>1. PICK c : c = req[t].ch
    OBVIOUS
  <2>2. Sets(c, chan[c].mu, chan[c].notFull \ {t}, chan[c].notEmpty \ {t},
             chan[c].closed)
    BY <1>10, <2>1, SpuriousFrame
  <2>3. pc' = pc /\ req' = req
    BY <1>10, SpuriousShape
  <2>4. QED
    BY <2>2, <2>3 DEF MutexInv, Sets
<1>11. CASE UNCHANGED vars
  BY <1>11 DEF vars, MutexInv
<1>12. QED
  BY <1>1, <1>2, <1>3, <1>4, <1>5, <1>6, <1>7, <1>8, <1>9, <1>10, <1>11
  DEF Next, Step

(* No two threads are ever inside the critical sections of one channel. *)
THEOREM MutualExclusion == Spec => []MutexInv
<1>1. Init => TypeOK /\ MutexInv
  BY TypeInit, MutexInit
<1>2. TypeOK /\ MutexInv /\ [Next]_vars => TypeOK' /\ MutexInv'
  BY TypeStep, MutexStep
<1>3. QED
  BY <1>1, <1>2, PTL DEF Spec

-----------------------------------------------------------------------------
(* The ring.  Only the thread that holds the mutex moves head or tail; what *)
(* is left to show is that the window of written slots follows them round  *)
(* the end of the buffer.                                                  *)
RingOK(s) ==
  /\ s.tail = (s.head + s.count) % s.cap
  /\ \A i \in 0 .. s.count - 1 : s.buf[(s.head + i) % s.cap] \in Values

LEMMA RingInit == Init => RingInv
<1> SUFFICES ASSUME Init, NEW c \in Chans PROVE RingOK(chan[c])
  BY DEF RingInv, RingOK
<1>1. Capacity[c] \in Nat /\ Capacity[c] >= 1
  BY CapacityType
<1>2. (0 + 0) % Capacity[c] = 0
  BY <1>1, Wrap
<1>3. chan[c] = Make(Capacity[c])
  BY DEF Init
<1>4. QED
  BY <1>1, <1>2, <1>3 DEF RingOK, Make

(* Adding at the tail and taking at the head, on plain numbers and a       *)
(* buffer, for a ring of n slots with k values from h on.                  *)
Room(n, h, k, b) ==
  /\ n \in Nat /\ n >= 1
  /\ h \in 0 .. n - 1
  /\ k \in 0 .. n - 1
  /\ b \in [0 .. n - 1 -> Values \cup {Nothing}]
  /\ \A i \in 0 .. k - 1 : b[(h + i) % n] \in Values

LEMMA RingAdd ==
  ASSUME NEW n, NEW h, NEW k, NEW b, Room(n, h, k, b), NEW v \in Values
  PROVE  LET b2 == [b EXCEPT ![(h + k) % n] = v] IN
         /\ (((h + k) % n) + 1) % n = (h + (k + 1)) % n
         /\ \A i \in 0 .. k : b2[(h + i) % n] \in Values
         /\ \A i \in 0 .. k - 1 : b2[(h + i) % n] = b[(h + i) % n]
         /\ b2[(h + k) % n] = v
<1> USE DEF Room
<1> DEFINE b2 == [b EXCEPT ![(h + k) % n] = v]
<1>1. ASSUME NEW i \in 0 .. k
      PROVE  (h + i) % n = IF h + i < n THEN h + i ELSE h + i - n
  <2>1. i \in 0 .. n
    OBVIOUS
  <2>2. QED
    BY <2>1, WrapSum, Zenon
<1>2. (h + k) % n \in 0 .. n - 1
  BY <1>1
<1>3. \A i \in 0 .. k - 1 : (h + i) % n # (h + k) % n
  BY <1>1
<1>4. \A i \in 0 .. k - 1 : (h + i) % n \in 0 .. n - 1
  BY <1>1
<1>5. b2[(h + k) % n] = v
  BY <1>2
<1>6. \A i \in 0 .. k - 1 : b2[(h + i) % n] = b[(h + i) % n]
  BY <1>3, <1>4
<1>7. (((h + k) % n) + 1) % n = (h + (k + 1)) % n
  <2>1. (h + k) % n = IF h + k < n THEN h + k ELSE h + k - n
    BY <1>1
  <2>2. k + 1 \in 0 .. n
    OBVIOUS
  <2>3. (h + (k + 1)) % n = IF h + (k + 1) < n THEN h + (k + 1) ELSE h + (k + 1) - n
    BY <2>2, WrapSum, Zenon
  <2>4. CASE h + k < n
    <3>1. ((h + k) % n) + 1 = h + (k + 1)
      BY <2>1, <2>4
    <3>2. QED
      BY <3>1
  <2>5. CASE h + k >= n
    <3> DEFINE x == h + k - n + 1
    <3>1. x \in Nat /\ x < n
      BY <2>5
    <3>2. x < n + n /\ ((h + k) % n) + 1 = x
      BY <2>1, <2>5, <3>1
    <3>3. (h + (k + 1)) % n = x
      BY <2>3, <2>5
    <3> HIDE DEF x
    <3>4. x % n = x
      BY <3>1, <3>2, Wrap
    <3>5. QED
      BY <3>2, <3>3, <3>4
  <2>6. QED
    BY <2>4, <2>5
<1>8. \A i \in 0 .. k : b2[(h + i) % n] \in Values
  <2>1. \A i \in 0 .. k : i \in 0 .. k - 1 \/ i = k
    OBVIOUS
  <2>2. QED
    BY <1>5, <1>6, <2>1
<1>9. QED
  BY <1>5, <1>6, <1>7, <1>8

LEMMA RingDrop ==
  ASSUME NEW n \in Nat, n >= 1, NEW h \in 0 .. n - 1, NEW k \in 1 .. n
  PROVE  /\ (h + 1) % n \in 0 .. n - 1
         /\ \A i \in 0 .. k - 1 :
              (((h + 1) % n) + i) % n = (h + (i + 1)) % n
<1>1. (h + 1) % n = IF h + 1 < n THEN h + 1 ELSE h + 1 - n
  BY Wrap
<1>2. SUFFICES ASSUME NEW i \in 0 .. k - 1
               PROVE  (((h + 1) % n) + i) % n = (h + (i + 1)) % n
  BY <1>1
<1>3. i + 1 \in 0 .. n
  OBVIOUS
<1>4. (h + (i + 1)) % n = IF h + (i + 1) < n THEN h + (i + 1) ELSE h + (i + 1) - n
  BY <1>3, WrapSum, Zenon
<1>5. CASE h + 1 < n
  <2>1. ((h + 1) % n) + i = h + (i + 1)
    BY <1>1, <1>5
  <2>2. QED
    BY <2>1
<1>6. CASE h + 1 >= n
  <2>1. (h + 1) % n = 0
    BY <1>1, <1>6
  <2>2. i \in Nat /\ i < n
    OBVIOUS
  <2>3. (0 + i) % n = i
    BY <2>2, Wrap
  <2>4. h + (i + 1) - n = i
    BY <1>6
  <2>5. QED
    BY <1>4, <1>6, <2>1, <2>3, <2>4
<1>7. QED
  BY <1>5, <1>6

LEMMA ChanFields ==
  ASSUME TypeOK, NEW c \in Chans
  PROVE  /\ chan[c].cap \in Nat /\ chan[c].cap >= 1
         /\ chan[c].count \in 0 .. chan[c].cap
         /\ chan[c].head \in 0 .. chan[c].cap - 1
         /\ chan[c].tail \in 0 .. chan[c].cap - 1
         /\ chan[c].buf \in [0 .. chan[c].cap - 1 -> Values \cup {Nothing}]
         /\ chan[c].closed \in BOOLEAN
         /\ chan[c].notFull \in SUBSET Threads
         /\ chan[c].notEmpty \in SUBSET Threads
<1>1. chan[c] \in ChanState(c)
  BY DEF TypeOK
<1>2. QED
  BY <1>1, CapacityType DEF ChanState

LEMMA SameRing ==
  ASSUME NEW c, NEW m, NEW F, NEW E, NEW b, Sets(c, m, F, E, b), RingInv
  PROVE  RingInv'
BY DEF Sets, RingInv

LEMMA RingStep == TypeOK /\ RingInv /\ [Next]_vars => RingInv'
<1> SUFFICES ASSUME TypeOK, RingInv, [Next]_vars PROVE RingInv'
  OBVIOUS
<1>1. ASSUME NEW t \in Threads, SendPut(t) PROVE RingInv'
  <2>1. PICK c : c = req[t].ch
    OBVIOUS
  <2>2. Puts(c, req[t].val)
    BY <1>1, <2>1, PutFrame
  <2>3. c \in Chans /\ req[t].val \in Values /\ chan[c].count # chan[c].cap
    BY <1>1, <2>1, <2>2, RequestOf DEF SendPut, Body, Puts
  <2> DEFINE n == chan[c].cap
             h == chan[c].head
             k == chan[c].count
             v == req[t].val
             b == chan[c].buf
             D == Values \cup {Nothing}
  <2>4. /\ n \in Nat /\ n >= 1 /\ h \in 0 .. n - 1 /\ k \in 0 .. n - 1
        /\ b \in [0 .. n - 1 -> D]
    BY <2>3, ChanFields
  <2>5. /\ \A i \in 0 .. k - 1 : b[(h + i) % n] \in Values
        /\ chan[c].tail = (h + k) % n
    BY <2>3 DEF RingInv
  <2>6. /\ chan'[c].cap = n /\ chan'[c].head = h /\ chan'[c].count = k + 1
        /\ chan'[c].tail = (((h + k) % n) + 1) % n
        /\ chan'[c].buf = [b EXCEPT ![(h + k) % n] = v]
        /\ \A d \in Chans : d # c => chan'[d] = chan[d]
    BY <2>2, <2>5 DEF Puts
  <2>7. v \in Values
    BY <2>3
  <2> HIDE DEF n, h, k, v, b, D
  <2>7a. Room(n, h, k, b)
    BY <2>4, <2>5 DEF Room, D
  <2>8. /\ (((h + k) % n) + 1) % n = (h + (k + 1)) % n
        /\ \A i \in 0 .. k : [b EXCEPT ![(h + k) % n] = v][(h + i) % n] \in Values
    BY <2>7, <2>7a, RingAdd
  <2>9. (k + 1) - 1 = k
    BY <2>4
  <2>10. RingOK(chan[c])'
    BY <2>6, <2>8, <2>9 DEF RingOK
  <2>11. QED
    BY <2>6, <2>10 DEF RingInv, RingOK
<1>2. ASSUME NEW t \in Threads, RecvTake(t) PROVE RingInv'
  <2>1. PICK c : c = req[t].ch
    OBVIOUS
  <2>2. Takes(c)
    BY <1>2, <2>1, TakeFrame
  <2>3. c \in Chans /\ chan[c].count # 0
    BY <1>2, <2>1, <2>2 DEF RecvTake, Takes
  <2> DEFINE n == chan[c].cap
             h == chan[c].head
             k == chan[c].count
             b == chan[c].buf
  <2>4. n \in Nat /\ n >= 1 /\ h \in 0 .. n - 1 /\ k \in 1 .. n
    BY <2>3, ChanFields
  <2>5. /\ \A i \in 0 .. k - 1 : b[(h + i) % n] \in Values
        /\ chan[c].tail = (h + k) % n
    BY <2>3 DEF RingInv
  <2>6. /\ chan'[c].cap = n /\ chan'[c].head = (h + 1) % n
        /\ chan'[c].count = k - 1 /\ chan'[c].tail = (h + k) % n
        /\ chan'[c].buf = b
        /\ \A d \in Chans : d # c => chan'[d] = chan[d]
    BY <2>2, <2>5 DEF Takes
  <2> HIDE DEF n, h, k, b
  <2>7. \A i \in 0 .. k - 1 : (((h + 1) % n) + i) % n = (h + (i + 1)) % n
    BY <2>4, RingDrop
  <2>8. (((h + 1) % n) + (k - 1)) % n = (h + k) % n
    <3>1. k - 1 \in 0 .. k - 1 /\ (k - 1) + 1 = k
      BY <2>4
    <3>2. QED
      BY <2>7, <3>1
  <2>9. \A i \in 0 .. (k - 1) - 1 : b[(((h + 1) % n) + i) % n] \in Values
    <3>1. ASSUME NEW i \in 0 .. (k - 1) - 1
          PROVE  i \in 0 .. k - 1 /\ i + 1 \in 0 .. k - 1
      BY <2>4
    <3>2. QED
      BY <2>5, <2>7, <3>1
  <2>10. RingOK(chan[c])'
    BY <2>6, <2>8, <2>9 DEF RingOK
  <2>11. QED
    BY <2>6, <2>10 DEF RingInv, RingOK
<1>3. ASSUME NEW t \in Threads,
             \/ Lock(t) \/ SendWait(t) \/ RecvWait(t)
             \/ CloseBody(t) \/ Unlock(t) \/ Spurious(t)
      PROVE  RingInv'
  <2>1. PICK c : c = req[t].ch
    OBVIOUS
  <2>2. \E m, F, E, b : Sets(c, m, F, E, b)
    BY <1>3, <2>1, LockFrame, SendWaitFrame, RecvWaitFrame, CloseFrame,
       UnlockFrame, SpuriousFrame, Zenon
  <2>3. QED
    BY <2>2, SameRing
<1>4. ASSUME NEW t \in Threads, SendDrop(t) \/ RecvEnd(t) PROVE RingInv'
  BY <1>4, QuietShape DEF RingInv
<1>5. ASSUME NEW t \in Threads, NEW r \in Request, Call(t, r) PROVE RingInv'
  BY <1>5 DEF Call, RingInv
<1>6. CASE UNCHANGED vars
  BY <1>6 DEF vars, RingInv
<1>7. QED
  BY <1>1, <1>2, <1>3, <1>4, <1>5, <1>6 DEF Next, Step

(* Whatever is sent and received, the slots from head on hold exactly the  *)
(* accepted values that have not been received, and tail is the next slot. *)
THEOREM RingCorrect == Spec => []RingInv
<1>1. Init => TypeOK /\ RingInv
  BY TypeInit, RingInit
<1>2. TypeOK /\ RingInv /\ [Next]_vars => TypeOK' /\ RingInv'
  BY TypeStep, RingStep
<1>3. QED
  BY <1>1, <1>2, PTL DEF Spec

-----------------------------------------------------------------------------
(* Wake-ups.  Counting active threads: one fewer at most, or one more. *)
LEMMA CountUp ==
  ASSUME NEW A, NEW B, A \subseteq B, B \subseteq Threads
  PROVE  Cardinality(A) \in Nat /\ Cardinality(B) \in Nat
         /\ Cardinality(A) <= Cardinality(B)
BY ThreadsAssumption, FS_Subset, FS_CardinalityType

LEMMA CountMore ==
  ASSUME NEW A, NEW B, A \subseteq B, B \subseteq Threads,
         NEW x \in B, x \notin A
  PROVE  Cardinality(A) + 1 <= Cardinality(B)
<1>1. IsFiniteSet(A)
  BY ThreadsAssumption, FS_Subset
<1>2. Cardinality(A \cup {x}) = Cardinality(A) + 1
  BY <1>1, FS_AddElement
<1>3. A \cup {x} \subseteq B
  OBVIOUS
<1>4. QED
  BY <1>2, <1>3, CountUp

LEMMA CountLess ==
  ASSUME NEW A, NEW B, NEW x, A \subseteq B \cup {x}, A \subseteq Threads,
         B \subseteq Threads
  PROVE  Cardinality(A) - 1 <= Cardinality(B)
<1>1. IsFiniteSet(A) /\ IsFiniteSet(B)
  BY ThreadsAssumption, FS_Subset
<1>2. IsFiniteSet(B \cup {x}) /\ Cardinality(B \cup {x}) <= Cardinality(B) + 1
  <2>1. Cardinality(B) \in Nat
    BY <1>1, FS_CardinalityType
  <2>2. /\ IsFiniteSet(B \cup {x})
        /\ Cardinality(B \cup {x}) = IF x \in B THEN Cardinality(B) ELSE Cardinality(B) + 1
    BY <1>1, FS_AddElement
  <2>3. QED
    BY <2>1, <2>2
<1>3. Cardinality(A) <= Cardinality(B \cup {x})
  BY <1>2, FS_Subset
<1>4. QED
  BY <1>1, <1>2, <1>3, FS_CardinalityType

WakeOK(c) ==
  LET s == chan[c] IN
  /\ s.notEmpty # {} => s.count <= Cardinality(Active(c, "recv"))
  /\ s.notFull  # {} => s.cap - s.count <= Cardinality(Active(c, "send"))
  /\ s.closed => s.notEmpty = {} /\ s.notFull = {}

(* The easy case: nothing was put or taken, nobody went to sleep. *)
LEMMA WakeKept ==
  ASSUME TypeOK, NEW c \in Chans, WakeOK(c),
         chan'[c].cap = chan[c].cap, chan'[c].count = chan[c].count,
         chan'[c].closed = chan[c].closed,
         chan'[c].notFull \subseteq chan[c].notFull,
         chan'[c].notEmpty \subseteq chan[c].notEmpty,
         Active(c, "recv") \subseteq Active(c, "recv")',
         Active(c, "send") \subseteq Active(c, "send")'
  PROVE  WakeOK(c)'
<1>1. /\ Cardinality(Active(c, "recv")) \in Nat
      /\ Cardinality(Active(c, "recv")') \in Nat
      /\ Cardinality(Active(c, "recv")) <= Cardinality(Active(c, "recv")')
  BY CountUp DEF Active
<1>2. /\ Cardinality(Active(c, "send")) \in Nat
      /\ Cardinality(Active(c, "send")') \in Nat
      /\ Cardinality(Active(c, "send")) <= Cardinality(Active(c, "send")')
  BY CountUp DEF Active
<1>3. /\ chan[c].cap \in Nat /\ chan[c].count \in Nat
  BY ChanFields
<1>4. QED
  BY <1>1, <1>2, <1>3 DEF WakeOK

(* Another thread's call does not change who is active on a channel. *)
LEMMA ActiveElsewhere ==
  ASSUME NEW t \in Threads, NEW d, NEW op,
         \A u \in Threads : u # t => pc'[u] = pc[u] /\ req'[u] = req[u],
         t \notin Active(d, op),
         chan'[d].notFull \subseteq chan[d].notFull,
         chan'[d].notEmpty \subseteq chan[d].notEmpty
  PROVE  Active(d, op) \subseteq Active(d, op)'
BY DEF Active, Waiters

LEMMA WaitersInit == Init => WaitersInv
BY DEF Init, WaitersInv, Make

LEMMA WaitersStep == TypeOK /\ WaitersInv /\ [Next]_vars => WaitersInv'
<1> SUFFICES ASSUME TypeOK, WaitersInv, [Next]_vars PROVE WaitersInv'
  OBVIOUS
<1>1. ASSUME NEW t \in Threads, NEW r \in Request, Call(t, r)
      PROVE  WaitersInv'
  <2>1. Moves(t, "lock")
    BY <1>1, MoveOf DEF Call
  <2>2. QED
    BY <1>1, <2>1 DEF Call, WaitersInv, Moves, TypeOK
<1>2. ASSUME NEW t \in Threads, Lock(t) PROVE WaitersInv'
  <2>1. PICK c : c = req[t].ch
    OBVIOUS
  <2>2. pc[t] = "lock" \/ t \notin chan[c].notFull \cup chan[c].notEmpty
    BY <1>2, <2>1 DEF Lock, Waiters
  <2>3. Sets(c, t, chan[c].notFull, chan[c].notEmpty, chan[c].closed)
    BY <1>2, <2>1, LockFrame
  <2>4. Moves(t, "body") /\ req' = req
    BY <1>2, LockShape
  <2>5. QED
    BY <2>1, <2>2, <2>3, <2>4 DEF WaitersInv, Moves, Sets, Puts, Takes, Signal
<1>3. ASSUME NEW t \in Threads, SendWait(t) PROVE WaitersInv'
  <2>1. PICK c : c = req[t].ch
    OBVIOUS
  <2>2. pc[t] = "body" /\ req[t].op = "send"
    BY <1>3, <2>1 DEF SendWait, Body
  <2>3. Sets(c, Nothing, chan[c].notFull \cup {t}, chan[c].notEmpty, chan[c].closed)
    BY <1>3, <2>1, SendWaitFrame
  <2>4. Moves(t, "wait") /\ req' = req
    BY <1>3, SendWaitShape
  <2>5. QED
    BY <2>1, <2>2, <2>3, <2>4 DEF WaitersInv, Moves, Sets, Puts, Takes, Signal
<1>4. ASSUME NEW t \in Threads, SendDrop(t) \/ RecvEnd(t) PROVE WaitersInv'
  <2>1. pc[t] = "body"
    BY <1>4 DEF SendDrop, RecvEnd, Body
  <2>2. chan' = chan /\ Moves(t, "unlock") /\ req' = req
    BY <1>4, QuietShape
  <2>3. QED
    BY <2>1, <2>2 DEF WaitersInv, Moves
<1>5. ASSUME NEW t \in Threads, SendPut(t) PROVE WaitersInv'
  <2>1. PICK c : c = req[t].ch
    OBVIOUS
  <2>2. pc[t] = "body"
    BY <1>5, <2>1 DEF SendPut, Body
  <2>3. Puts(c, req[t].val)
    BY <1>5, <2>1, PutFrame
  <2>4. Moves(t, "unlock") /\ req' = req
    BY <1>5, SendPutShape
  <2>5. QED
    BY <2>1, <2>2, <2>3, <2>4 DEF WaitersInv, Moves, Sets, Puts, Takes, Signal
<1>6. ASSUME NEW t \in Threads, RecvWait(t) PROVE WaitersInv'
  <2>1. PICK c : c = req[t].ch
    OBVIOUS
  <2>2. pc[t] = "body" /\ req[t].op = "recv"
    BY <1>6, <2>1 DEF RecvWait, Body
  <2>3. Sets(c, Nothing, chan[c].notFull, chan[c].notEmpty \cup {t}, chan[c].closed)
    BY <1>6, <2>1, RecvWaitFrame
  <2>4. Moves(t, "wait") /\ req' = req
    BY <1>6, RecvWaitShape
  <2>5. QED
    BY <2>1, <2>2, <2>3, <2>4 DEF WaitersInv, Moves, Sets, Puts, Takes, Signal
<1>7. ASSUME NEW t \in Threads, RecvTake(t) PROVE WaitersInv'
  <2>1. PICK c : c = req[t].ch
    OBVIOUS
  <2>2. pc[t] = "body"
    BY <1>7, <2>1 DEF RecvTake, Body
  <2>3. Takes(c)
    BY <1>7, <2>1, TakeFrame
  <2>4. Moves(t, "unlock") /\ req' = req
    BY <1>7, RecvTakeShape
  <2>5. QED
    BY <2>1, <2>2, <2>3, <2>4 DEF WaitersInv, Moves, Sets, Puts, Takes, Signal
<1>8. ASSUME NEW t \in Threads, CloseBody(t) PROVE WaitersInv'
  <2>1. PICK c : c = req[t].ch
    OBVIOUS
  <2>2. pc[t] = "body"
    BY <1>8, <2>1 DEF CloseBody, Body
  <2>3. Sets(c, chan[c].mu, {}, {}, TRUE)
    BY <1>8, <2>1, CloseFrame
  <2>4. Moves(t, "unlock") /\ req' = req
    BY <1>8, CloseShape
  <2>5. QED
    BY <2>1, <2>2, <2>3, <2>4 DEF WaitersInv, Moves, Sets, Puts, Takes, Signal
<1>9. ASSUME NEW t \in Threads, Unlock(t) PROVE WaitersInv'
  <2>1. PICK c : c = req[t].ch
    OBVIOUS
  <2>2. pc[t] = "unlock"
    BY <1>9, <2>1 DEF Unlock
  <2>3. Sets(c, Nothing, chan[c].notFull, chan[c].notEmpty, chan[c].closed)
    BY <1>9, <2>1, UnlockFrame
  <2>4. Moves(t, "idle") /\ req' = [req EXCEPT ![t] = Nothing]
    BY <1>9, UnlockShape
  <2>5. QED
    BY <2>1, <2>2, <2>3, <2>4 DEF WaitersInv, Moves, Sets, Puts, Takes, Signal, TypeOK
<1>10. ASSUME NEW t \in Threads, Spurious(t) PROVE WaitersInv'
  <2>1. PICK c : c = req[t].ch
    OBVIOUS
  <2>2. pc[t] = "wait"
    BY <1>10, <2>1 DEF Spurious
  <2>3. Sets(c, chan[c].mu, chan[c].notFull \ {t}, chan[c].notEmpty \ {t}, chan[c].closed)
    BY <1>10, <2>1, SpuriousFrame
  <2>4. pc' = pc /\ req' = req
    BY <1>10, SpuriousShape
  <2>5. QED
    BY <2>1, <2>2, <2>3, <2>4 DEF WaitersInv, Moves, Sets, Puts, Takes, Signal
<1>11. CASE UNCHANGED vars
  BY <1>11 DEF vars, WaitersInv
<1>12. QED
  BY <1>1, <1>2, <1>3, <1>4, <1>5, <1>6, <1>7, <1>8, <1>9, <1>10, <1>11
  DEF Next, Step


(* The channels a step does not touch. *)
LEMMA WakeElsewhere ==
  ASSUME TypeOK, NEW t \in Threads, NEW d \in Chans, WakeOK(d),
         chan'[d] = chan[d],
         \A u \in Threads : u # t => pc'[u] = pc[u] /\ req'[u] = req[u],
         pc[t] \in {"idle", "unlock"} \/ req[t].ch # d
  PROVE  WakeOK(d)'
<1>1. t \notin Active(d, "recv") /\ t \notin Active(d, "send")
  BY DEF Active
<1>2. /\ Active(d, "recv") \subseteq Active(d, "recv")'
      /\ Active(d, "send") \subseteq Active(d, "send")'
  BY <1>1, ActiveElsewhere
<1>3. QED
  BY <1>2, WakeKept

LEMMA ActiveCounts ==
  ASSUME NEW c, NEW op
  PROVE  Cardinality(Active(c, op)) \in Nat /\ Cardinality(Active(c, op)') \in Nat
BY CountUp DEF Active

LEMMA WakeStep ==
  TypeOK /\ WaitersInv /\ NoLostWakeup /\ [Next]_vars => NoLostWakeup'
<1> SUFFICES ASSUME TypeOK, WaitersInv, NoLostWakeup, [Next]_vars,
                    NEW d \in Chans
             PROVE  WakeOK(d)'
  BY DEF NoLostWakeup, WakeOK
<1>0. WakeOK(d)
  BY DEF NoLostWakeup, WakeOK
<1>1. ASSUME NEW t \in Threads, NEW r \in Request, Call(t, r)
      PROVE  WakeOK(d)'
  BY <1>0, <1>1, MoveOf, WakeElsewhere DEF Call, Moves, TypeOK
<1>2. ASSUME NEW t \in Threads, SendDrop(t) \/ RecvEnd(t) PROVE WakeOK(d)'
  <2>1. chan' = chan /\ Moves(t, "unlock") /\ req' = req
    BY <1>2, QuietShape
  <2>2. CASE req[t].ch # d
    BY <1>0, <2>1, <2>2, WakeElsewhere DEF Moves
  <2>3. CASE req[t].ch = d
    <3>1. chan[d].closed
      BY <1>2, <2>3 DEF SendDrop, RecvEnd
    <3>2. QED
      BY <1>0, <2>1, <3>1 DEF WakeOK
  <2>4. QED
    BY <2>2, <2>3
<1>3. ASSUME NEW t \in Threads, Unlock(t) PROVE WakeOK(d)'
  <2>1. PICK c : c = req[t].ch
    OBVIOUS
  <2>2. Sets(c, Nothing, chan[c].notFull, chan[c].notEmpty, chan[c].closed)
    BY <1>3, <2>1, UnlockFrame
  <2>3. Moves(t, "idle") /\ req' = [req EXCEPT ![t] = Nothing] /\ pc[t] = "unlock"
    BY <1>3, UnlockShape DEF Unlock
  <2>4. \A u \in Threads : u # t => pc'[u] = pc[u] /\ req'[u] = req[u]
    BY <2>3 DEF Moves, TypeOK
  <2>5. t \notin Active(d, "recv") /\ t \notin Active(d, "send")
    BY <2>3 DEF Active
  <2>6. /\ chan'[d].cap = chan[d].cap /\ chan'[d].count = chan[d].count
        /\ chan'[d].closed = chan[d].closed
        /\ chan'[d].notFull = chan[d].notFull
        /\ chan'[d].notEmpty = chan[d].notEmpty
    BY <2>2 DEF Sets
  <2>7. /\ Active(d, "recv") \subseteq Active(d, "recv")'
        /\ Active(d, "send") \subseteq Active(d, "send")'
    BY <2>4, <2>5, <2>6, ActiveElsewhere
  <2>8. QED
    BY <1>0, <2>6, <2>7, WakeKept
<1>4. ASSUME NEW t \in Threads, Lock(t) PROVE WakeOK(d)'
  <2>1. PICK c : c = req[t].ch
    OBVIOUS
  <2>2. Sets(c, t, chan[c].notFull, chan[c].notEmpty, chan[c].closed)
    BY <1>4, <2>1, LockFrame
  <2>3. Moves(t, "body") /\ req' = req
    BY <1>4, LockShape
  <2>4. /\ chan'[d].cap = chan[d].cap /\ chan'[d].count = chan[d].count
        /\ chan'[d].closed = chan[d].closed
        /\ chan'[d].notFull = chan[d].notFull
        /\ chan'[d].notEmpty = chan[d].notEmpty
    BY <2>2 DEF Sets
  <2>5. /\ Active(d, "recv") \subseteq Active(d, "recv")'
        /\ Active(d, "send") \subseteq Active(d, "send")'
    BY <2>3, <2>4 DEF Active, Waiters, Moves
  <2>6. QED
    BY <1>0, <2>4, <2>5, WakeKept
<1>5. ASSUME NEW t \in Threads, Spurious(t) PROVE WakeOK(d)'
  <2>1. PICK c : c = req[t].ch
    OBVIOUS
  <2>2. Sets(c, chan[c].mu, chan[c].notFull \ {t}, chan[c].notEmpty \ {t},
             chan[c].closed)
    BY <1>5, <2>1, SpuriousFrame
  <2>3. pc' = pc /\ req' = req
    BY <1>5, SpuriousShape
  <2>4. /\ chan'[d].cap = chan[d].cap /\ chan'[d].count = chan[d].count
        /\ chan'[d].closed = chan[d].closed
        /\ chan'[d].notFull \subseteq chan[d].notFull
        /\ chan'[d].notEmpty \subseteq chan[d].notEmpty
    BY <2>2 DEF Sets
  <2>5. /\ Active(d, "recv") \subseteq Active(d, "recv")'
        /\ Active(d, "send") \subseteq Active(d, "send")'
    BY <2>3, <2>4 DEF Active, Waiters
  <2>6. QED
    BY <1>0, <2>4, <2>5, WakeKept
<1>6. ASSUME NEW t \in Threads, CloseBody(t) PROVE WakeOK(d)'
  <2>1. PICK c : c = req[t].ch
    OBVIOUS
  <2>2. Sets(c, chan[c].mu, {}, {}, TRUE)
    BY <1>6, <2>1, CloseFrame
  <2>3. Moves(t, "unlock") /\ req' = req
    BY <1>6, CloseShape
  <2>4. CASE c # d
    BY <1>0, <2>1, <2>2, <2>3, <2>4, WakeElsewhere DEF Sets, Moves
  <2>5. CASE c = d
    BY <2>2, <2>5 DEF Sets, WakeOK
  <2>6. QED
    BY <2>4, <2>5
<1>7. ASSUME NEW t \in Threads, SendWait(t) PROVE WakeOK(d)'
  <2>1. PICK c : c = req[t].ch
    OBVIOUS
  <2>2. Sets(c, Nothing, chan[c].notFull \cup {t}, chan[c].notEmpty, chan[c].closed)
    BY <1>7, <2>1, SendWaitFrame
  <2>3. Moves(t, "wait") /\ req' = req
    BY <1>7, SendWaitShape
  <2>4. CASE c # d
    BY <1>0, <2>1, <2>2, <2>3, <2>4, WakeElsewhere DEF Sets, Moves
  <2>5. CASE c = d
    <3>1. /\ chan[d].count = chan[d].cap /\ ~chan[d].closed
          /\ req[t].op = "send"
      BY <1>7, <2>1, <2>5 DEF SendWait, Body
    <3>2. /\ chan'[d].cap = chan[d].cap /\ chan'[d].count = chan[d].count
          /\ chan'[d].closed = chan[d].closed
          /\ chan'[d].notFull = chan[d].notFull \cup {t}
          /\ chan'[d].notEmpty = chan[d].notEmpty
      BY <2>2, <2>5 DEF Sets
    <3>3. Active(d, "recv") \subseteq Active(d, "recv")'
      BY <2>3, <3>1, <3>2 DEF Active, Waiters, Moves
    <3>4. Cardinality(Active(d, "recv")) <= Cardinality(Active(d, "recv")')
      BY <3>3, CountUp DEF Active
    <3>5. /\ Cardinality(Active(d, "send")') \in Nat
          /\ Cardinality(Active(d, "recv")) \in Nat
          /\ Cardinality(Active(d, "recv")') \in Nat
          /\ chan[d].cap \in Nat /\ chan[d].count \in Nat
      BY ActiveCounts, ChanFields
    <3>6. QED
      BY <1>0, <3>1, <3>2, <3>4, <3>5 DEF WakeOK
  <2>6. QED
    BY <2>4, <2>5
<1>8. ASSUME NEW t \in Threads, RecvWait(t) PROVE WakeOK(d)'
  <2>1. PICK c : c = req[t].ch
    OBVIOUS
  <2>2. Sets(c, Nothing, chan[c].notFull, chan[c].notEmpty \cup {t}, chan[c].closed)
    BY <1>8, <2>1, RecvWaitFrame
  <2>3. Moves(t, "wait") /\ req' = req
    BY <1>8, RecvWaitShape
  <2>4. CASE c # d
    BY <1>0, <2>1, <2>2, <2>3, <2>4, WakeElsewhere DEF Sets, Moves
  <2>5. CASE c = d
    <3>1. /\ chan[d].count = 0 /\ ~chan[d].closed
          /\ req[t].op = "recv"
      BY <1>8, <2>1, <2>5 DEF RecvWait, Body
    <3>2. /\ chan'[d].cap = chan[d].cap /\ chan'[d].count = chan[d].count
          /\ chan'[d].closed = chan[d].closed
          /\ chan'[d].notFull = chan[d].notFull
          /\ chan'[d].notEmpty = chan[d].notEmpty \cup {t}
      BY <2>2, <2>5 DEF Sets
    <3>3. Active(d, "send") \subseteq Active(d, "send")'
      BY <2>3, <3>1, <3>2 DEF Active, Waiters, Moves
    <3>4. Cardinality(Active(d, "send")) <= Cardinality(Active(d, "send")')
      BY <3>3, CountUp DEF Active
    <3>5. /\ Cardinality(Active(d, "recv")') \in Nat
          /\ Cardinality(Active(d, "send")) \in Nat
          /\ Cardinality(Active(d, "send")') \in Nat
          /\ chan[d].cap \in Nat /\ chan[d].count \in Nat
      BY ActiveCounts, ChanFields
    <3>6. QED
      BY <1>0, <3>1, <3>2, <3>4, <3>5 DEF WakeOK
  <2>6. QED
    BY <2>4, <2>5
<1>9. ASSUME NEW t \in Threads, SendPut(t) PROVE WakeOK(d)'
  <2>1. PICK c : c = req[t].ch
    OBVIOUS
  <2>2. Puts(c, req[t].val)
    BY <1>9, <2>1, PutFrame
  <2>3. Moves(t, "unlock") /\ req' = req /\ pc[t] = "body" /\ req[t].op = "send"
    BY <1>9, SendPutShape DEF SendPut, Body
  <2>4. CASE c # d
    BY <1>0, <2>1, <2>2, <2>3, <2>4, WakeElsewhere DEF Puts, Moves
  <2>5. CASE c = d
    <3>1. /\ chan'[d].cap = chan[d].cap
          /\ chan'[d].count = chan[d].count + 1
          /\ chan'[d].closed = chan[d].closed
          /\ chan'[d].notFull = chan[d].notFull
          /\ chan'[d].notEmpty \in Signal(chan[d].notEmpty)
      BY <2>2, <2>5 DEF Puts
    <3>2. chan'[d].notEmpty \subseteq chan[d].notEmpty
      BY <3>1 DEF Signal
    <3>3. /\ Cardinality(Active(d, "recv")) \in Nat
          /\ Cardinality(Active(d, "send")) \in Nat
          /\ Cardinality(Active(d, "recv")') \in Nat
          /\ Cardinality(Active(d, "send")') \in Nat
          /\ chan[d].cap \in Nat /\ chan[d].count \in Nat
      BY ActiveCounts, ChanFields
    \* t itself stops being active on its own side
    <3>4. Cardinality(Active(d, "send")) - 1 <= Cardinality(Active(d, "send")')
      <4>1. Active(d, "send") \subseteq Active(d, "send")' \cup {t}
        BY <2>3, <3>1, <3>2 DEF Active, Waiters, Moves
      <4>2. QED
        BY <4>1, CountLess DEF Active
    \* on the other side a sleeper, if there is one, has become active
    <3>5. CASE chan'[d].notEmpty # {}
      <4>1. PICK x \in chan[d].notEmpty : chan'[d].notEmpty = chan[d].notEmpty \ {x}
        BY <3>1, <3>5 DEF Signal
      <4>2. /\ x \in Threads /\ x # t
            /\ pc[x] = "wait" /\ req[x].op = "recv" /\ req[x].ch = d
            /\ x \notin chan[d].notFull
        <5>1. x \in Threads
          BY <4>1, ChanFields
        <5>2. QED
          BY <2>3, <4>1, <5>1 DEF WaitersInv
      <4>3. x \in Active(d, "recv")' /\ x \notin Active(d, "recv")
        BY <2>3, <3>1, <4>1, <4>2 DEF Active, Waiters, Moves
      <4>4. Active(d, "recv") \subseteq Active(d, "recv")'
        BY <2>3, <3>1, <3>2 DEF Active, Waiters, Moves
      <4>5. Cardinality(Active(d, "recv")) + 1 <= Cardinality(Active(d, "recv")')
        BY <4>3, <4>4, CountMore DEF Active
      <4>6. chan[d].notEmpty # {}
        BY <4>1
      <4>7. QED
        BY <1>0, <3>1, <3>3, <3>4, <4>5, <4>6 DEF WakeOK
    <3>6. CASE chan'[d].notEmpty = {}
      BY <1>0, <3>1, <3>3, <3>4, <3>6 DEF WakeOK
    <3>7. QED
      BY <3>5, <3>6
  <2>6. QED
    BY <2>4, <2>5
<1>10. ASSUME NEW t \in Threads, RecvTake(t) PROVE WakeOK(d)'
  <2>1. PICK c : c = req[t].ch
    OBVIOUS
  <2>2. Takes(c)
    BY <1>10, <2>1, TakeFrame
  <2>3. Moves(t, "unlock") /\ req' = req /\ pc[t] = "body" /\ req[t].op = "recv"
    BY <1>10, RecvTakeShape DEF RecvTake, Body
  <2>4. CASE c # d
    BY <1>0, <2>1, <2>2, <2>3, <2>4, WakeElsewhere DEF Takes, Moves
  <2>5. CASE c = d
    <3>1. /\ chan'[d].cap = chan[d].cap
          /\ chan'[d].count = chan[d].count - 1
          /\ chan'[d].closed = chan[d].closed
          /\ chan'[d].notEmpty = chan[d].notEmpty
          /\ chan'[d].notFull \in Signal(chan[d].notFull)
      BY <2>2, <2>5 DEF Takes
    <3>2. chan'[d].notFull \subseteq chan[d].notFull
      BY <3>1 DEF Signal
    <3>3. /\ Cardinality(Active(d, "recv")) \in Nat
          /\ Cardinality(Active(d, "send")) \in Nat
          /\ Cardinality(Active(d, "recv")') \in Nat
          /\ Cardinality(Active(d, "send")') \in Nat
          /\ chan[d].cap \in Nat /\ chan[d].count \in Nat
      BY ActiveCounts, ChanFields
    \* t itself stops being active on its own side
    <3>4. Cardinality(Active(d, "recv")) - 1 <= Cardinality(Active(d, "recv")')
      <4>1. Active(d, "recv") \subseteq Active(d, "recv")' \cup {t}
        BY <2>3, <3>1, <3>2 DEF Active, Waiters, Moves
      <4>2. QED
        BY <4>1, CountLess DEF Active
    \* on the other side a sleeper, if there is one, has become active
    <3>5. CASE chan'[d].notFull # {}
      <4>1. PICK x \in chan[d].notFull : chan'[d].notFull = chan[d].notFull \ {x}
        BY <3>1, <3>5 DEF Signal
      <4>2. /\ x \in Threads /\ x # t
            /\ pc[x] = "wait" /\ req[x].op = "send" /\ req[x].ch = d
            /\ x \notin chan[d].notEmpty
        <5>1. x \in Threads
          BY <4>1, ChanFields
        <5>2. QED
          BY <2>3, <4>1, <5>1 DEF WaitersInv
      <4>3. x \in Active(d, "send")' /\ x \notin Active(d, "send")
        BY <2>3, <3>1, <4>1, <4>2 DEF Active, Waiters, Moves
      <4>4. Active(d, "send") \subseteq Active(d, "send")'
        BY <2>3, <3>1, <3>2 DEF Active, Waiters, Moves
      <4>5. Cardinality(Active(d, "send")) + 1 <= Cardinality(Active(d, "send")')
        BY <4>3, <4>4, CountMore DEF Active
      <4>6. chan[d].notFull # {}
        BY <4>1
      <4>7. QED
        BY <1>0, <3>1, <3>3, <3>4, <4>5, <4>6 DEF WakeOK
    <3>6. CASE chan'[d].notFull = {}
      BY <1>0, <3>1, <3>3, <3>4, <3>6 DEF WakeOK
    <3>7. QED
      BY <3>5, <3>6
  <2>6. QED
    BY <2>4, <2>5
<1>11. CASE UNCHANGED vars
  BY <1>0, <1>11 DEF vars, WakeOK, Active, Waiters
<1>12. QED
  BY <1>1, <1>2, <1>3, <1>4, <1>5, <1>6, <1>7, <1>8, <1>9, <1>10, <1>11
  DEF Next, Step

(* One signal per send and per recv is enough: while a receiver sleeps,    *)
(* every value in the buffer has an awake receiver of its own, while a     *)
(* sender sleeps every free slot has an awake sender, and nobody sleeps on *)
(* a closed channel.                                                       *)
THEOREM NoWakeupLost == Spec => []NoLostWakeup
<1>1. Init => TypeOK /\ WaitersInv /\ NoLostWakeup
  <2>1. Init => NoLostWakeup
    BY DEF Init, NoLostWakeup, Make
  <2>2. QED
    BY <2>1, TypeInit, WaitersInit
<1>2. TypeOK /\ WaitersInv /\ NoLostWakeup /\ [Next]_vars
        => TypeOK' /\ WaitersInv' /\ NoLostWakeup'
  BY TypeStep, WaitersStep, WakeStep
<1>3. QED
  BY <1>1, <1>2, PTL DEF Spec

-----------------------------------------------------------------------------
(* Closing.  What a step leaves of a closed channel. *)
StaysClosed(c) ==
  chan[c].closed =>
    chan'[c].closed /\ chan'[c].tail = chan[c].tail /\ chan'[c].count <= chan[c].count

LEMMA ClosedStep == TypeOK /\ [Next]_vars => \A d \in Chans : StaysClosed(d)
<1> SUFFICES ASSUME TypeOK, [Next]_vars, NEW d \in Chans PROVE StaysClosed(d)
  OBVIOUS
<1>0. chan[d].count \in Nat
  BY ChanFields
<1>1. ASSUME chan'[d] = chan[d] PROVE StaysClosed(d)
  BY <1>0, <1>1 DEF StaysClosed
<1>2. ASSUME NEW t \in Threads, SendPut(t) PROVE StaysClosed(d)
  <2>1. PICK c : c = req[t].ch
    OBVIOUS
  <2>2. Puts(c, req[t].val) /\ ~chan[c].closed
    BY <1>2, <2>1, PutFrame DEF SendPut
  <2>3. QED
    BY <1>1, <2>2 DEF Puts, StaysClosed
<1>3. ASSUME NEW t \in Threads, RecvTake(t) PROVE StaysClosed(d)
  <2>1. PICK c : c = req[t].ch
    OBVIOUS
  <2>2. Takes(c)
    BY <1>3, <2>1, TakeFrame
  <2>3. QED
    BY <1>0, <1>1, <2>2 DEF Takes, StaysClosed
<1>4. ASSUME NEW t \in Threads,
             \/ Lock(t) \/ SendWait(t) \/ RecvWait(t)
             \/ CloseBody(t) \/ Unlock(t) \/ Spurious(t)
      PROVE  StaysClosed(d)
  <2>1. PICK c : c = req[t].ch
    OBVIOUS
  <2>2. \E m, F, E, b : Sets(c, m, F, E, b) /\ (b = chan[c].closed \/ b = TRUE)
    BY <1>4, <2>1, LockFrame, SendWaitFrame, RecvWaitFrame, CloseFrame,
       UnlockFrame, SpuriousFrame, Zenon
  <2>3. QED
    BY <1>0, <1>1, <2>2 DEF Sets, StaysClosed
<1>5. ASSUME NEW t \in Threads, SendDrop(t) \/ RecvEnd(t) PROVE StaysClosed(d)
  BY <1>1, <1>5, QuietShape
<1>6. ASSUME NEW t \in Threads, NEW r \in Request, Call(t, r) PROVE StaysClosed(d)
  BY <1>1, <1>6 DEF Call
<1>7. CASE UNCHANGED vars
  BY <1>1, <1>7 DEF vars
<1>8. QED
  BY <1>2, <1>3, <1>4, <1>5, <1>6, <1>7 DEF Next, Step

(* A channel never opens again, and nothing is put into it once it is      *)
(* closed, by any of the senders that were blocked then.                   *)
THEOREM ClosedStays == Spec => ClosedForGood
<1>1. TypeOK /\ [Next]_vars => [\A c \in Chans : StaysClosed(c)]_vars
  BY ClosedStep
<1>2. Spec => [][\A c \in Chans : StaysClosed(c)]_vars
  BY <1>1, TypeInit, TypeStep, PTL DEF Spec
<1>3. QED
  BY <1>2 DEF ClosedForGood, StaysClosed

-----------------------------------------------------------------------------
(* The lock-based runtime implements the abstract channel: each behaviour  *)
(* of VaderChan is, seen through the refinement mapping, one of Channel.   *)

(* The abstract queue of a ring, as a sequence. *)
LEMMA ContentsSeq ==
  ASSUME NEW s, s.count \in Nat,
         \A i \in 0 .. s.count - 1 : s.buf[(s.head + i) % s.cap] \in Values
  PROVE  /\ Contents(s) \in Seq(Values)
         /\ Len(Contents(s)) = s.count
         /\ \A i \in 1 .. s.count :
              Contents(s)[i] = s.buf[(s.head + (i - 1)) % s.cap]
<1>1. ASSUME NEW i \in 1 .. s.count
      PROVE  s.buf[(s.head + (i - 1)) % s.cap] \in Values
  <2>1. i - 1 \in 0 .. s.count - 1
    OBVIOUS
  <2>2. QED
    BY <2>1
<1>2. Contents(s) \in [1 .. s.count -> Values]
  BY <1>1 DEF Contents
<1>3. Contents(s) \in Seq(Values) /\ Len(Contents(s)) = s.count
  BY <1>2
<1>4. QED
  BY <1>3 DEF Contents

(* Writing at the tail appends to the queue. *)
LEMMA PutAppends ==
  ASSUME NEW s, NEW s2, NEW v \in Values,
         Room(s.cap, s.head, s.count, s.buf),
         s2.cap = s.cap, s2.head = s.head, s2.count = s.count + 1,
         s2.buf = [s.buf EXCEPT ![(s.head + s.count) % s.cap] = v]
  PROVE  Contents(s2) = Append(Contents(s), v)
<1> DEFINE n == s.cap
           h == s.head
           k == s.count
           b == s.buf
           b2 == [b EXCEPT ![(h + k) % n] = v]
           q == Contents(s)
           r == Contents(s2)
<1>1. Room(n, h, k, b)
  OBVIOUS
<1>2. /\ k \in Nat /\ n \in Nat
      /\ \A i \in 0 .. k - 1 : b[(h + i) % n] \in Values
  BY <1>1 DEF Room
<1>3. /\ s2.cap = n /\ s2.head = h /\ s2.count = k + 1 /\ s2.buf = b2
  OBVIOUS
<1>4. /\ q \in Seq(Values) /\ Len(q) = k
      /\ \A i \in 1 .. k : q[i] = b[(h + (i - 1)) % n]
  BY <1>2, ContentsSeq
<1> HIDE DEF n, h, k, b
<1>5. /\ \A i \in 0 .. k : b2[(h + i) % n] \in Values
      /\ \A i \in 0 .. k - 1 : b2[(h + i) % n] = b[(h + i) % n]
      /\ b2[(h + k) % n] = v
  BY <1>1, RingAdd
<1> HIDE DEF b2, q, r
<1>6. s2.count \in Nat /\ s2.count - 1 = k
  BY <1>2, <1>3
<1>7. /\ r \in Seq(Values) /\ Len(r) = k + 1
      /\ \A i \in 1 .. k + 1 : r[i] = b2[(h + (i - 1)) % n]
  BY <1>3, <1>5, <1>6, ContentsSeq DEF r
<1>8. /\ Append(q, v) \in Seq(Values) /\ Len(Append(q, v)) = k + 1
      /\ \A i \in 1 .. k : Append(q, v)[i] = q[i]
      /\ Append(q, v)[k + 1] = v
  BY <1>2, <1>4
<1>9. ASSUME NEW i \in 1 .. k + 1
      PROVE  r[i] = Append(q, v)[i]
  <2>1. CASE i = k + 1
    <3>1. i - 1 = k
      BY <1>2, <2>1
    <3>2. QED
      BY <1>5, <1>7, <1>8, <2>1, <3>1
  <2>2. CASE i # k + 1
    <3>1. i \in 1 .. k /\ i - 1 \in 0 .. k - 1
      BY <1>2, <2>2
    <3>2. QED
      BY <1>4, <1>5, <1>7, <1>8, <3>1
  <2>3. QED
    BY <2>1, <2>2
<1>10. r = Append(q, v)
  BY <1>7, <1>8, <1>9, SeqEqual
<1>11. QED
  BY <1>10 DEF q, r

(* Reading at the head removes the oldest value. *)
LEMMA TakeRemoves ==
  ASSUME NEW s, NEW s2, s.cap \in Nat, s.cap >= 1,
         s.head \in 0 .. s.cap - 1, s.count \in 1 .. s.cap,
         \A i \in 0 .. s.count - 1 : s.buf[(s.head + i) % s.cap] \in Values,
         s2.cap = s.cap, s2.head = (s.head + 1) % s.cap,
         s2.count = s.count - 1, s2.buf = s.buf
  PROVE  /\ Contents(s) # <<>>
         /\ Head(Contents(s)) = s.buf[s.head]
         /\ Contents(s2) = Tail(Contents(s))
<1> DEFINE n == s.cap
           h == s.head
           k == s.count
           b == s.buf
           q == Contents(s)
           r == Contents(s2)
<1>1. n \in Nat /\ n >= 1 /\ h \in 0 .. n - 1 /\ k \in 1 .. n
  OBVIOUS
<1>2. k \in Nat /\ \A i \in 0 .. k - 1 : b[(h + i) % n] \in Values
  BY <1>1
<1>3. s2.cap = n /\ s2.head = (h + 1) % n /\ s2.count = k - 1 /\ s2.buf = b
  OBVIOUS
<1>4. /\ q \in Seq(Values) /\ Len(q) = k
      /\ \A i \in 1 .. k : q[i] = b[(h + (i - 1)) % n]
  BY <1>2, ContentsSeq
<1>5. (h + 0) % n = h
  <2>1. 0 \in 0 .. n
    BY <1>1
  <2> HIDE DEF n, h
  <2>2. (h + 0) % n = IF h + 0 < n THEN h + 0 ELSE h + 0 - n
    BY <1>1, <2>1, WrapSum, Zenon
  <2>3. QED
    BY <1>1, <2>2
<1> HIDE DEF n, h, k, b
<1>6. \A i \in 0 .. k - 1 : (((h + 1) % n) + i) % n = (h + (i + 1)) % n
  BY <1>1, RingDrop
<1>7. ASSUME NEW i \in 0 .. (k - 1) - 1
      PROVE  b[(((h + 1) % n) + i) % n] \in Values
  <2>1. i \in 0 .. k - 1 /\ i + 1 \in 0 .. k - 1
    BY <1>1
  <2>2. QED
    BY <1>2, <1>6, <2>1
<1> HIDE DEF q, r
<1>8. k - 1 \in Nat
  BY <1>1
<1>9. /\ r \in Seq(Values) /\ Len(r) = k - 1
      /\ \A i \in 1 .. k - 1 : r[i] = b[(((h + 1) % n) + (i - 1)) % n]
  BY <1>3, <1>7, <1>8, ContentsSeq DEF r
<1>10. q # <<>> /\ Head(q) = q[1]
  BY <1>1, <1>4
<1>11. /\ Tail(q) \in Seq(Values) /\ Len(Tail(q)) = k - 1
       /\ \A i \in 1 .. k - 1 : Tail(q)[i] = q[i + 1]
  BY <1>1, <1>4, <1>10, HeadTailProperties
<1>12. ASSUME NEW i \in 1 .. k - 1
       PROVE  r[i] = Tail(q)[i]
  <2>1. /\ i - 1 \in 0 .. k - 1 /\ (i - 1) + 1 = i
        /\ i + 1 \in 1 .. k /\ (i + 1) - 1 = i
    BY <1>1
  <2>2. (((h + 1) % n) + (i - 1)) % n = (h + i) % n
    BY <1>6, <2>1
  <2>3. q[i + 1] = b[(h + i) % n]
    BY <1>4, <2>1
  <2>4. QED
    BY <1>9, <1>11, <2>2, <2>3
<1>13. r = Tail(q)
  BY <1>9, <1>11, <1>12, SeqEqual
<1>14. q[1] = b[h]
  <2>1. 1 \in 1 .. k /\ 1 - 1 = 0
    BY <1>1
  <2>2. QED
    BY <1>4, <1>5, <2>1
<1>15. QED
  BY <1>10, <1>13, <1>14 DEF q, r, b, h

-----------------------------------------------------------------------------
(* The mapping, and the abstract actions with it substituted. *)
Q == [c \in Chans |-> Contents(chan[c])]
Shut == {c \in Chans : chan[c].closed}
Phase == [t \in Threads |-> PhaseOf(pc[t])]

LEMMA PhaseMoves ==
  ASSUME TypeOK, NEW t \in Threads, NEW l, Moves(t, l)
  PROVE  Phase' = [Phase EXCEPT ![t] = PhaseOf(l)]
BY DEF Phase, Moves

LEMMA RingSame ==
  ASSUME NEW c, NEW m, NEW F, NEW E, NEW b, Sets(c, m, F, E, b)
  PROVE  Q' = Q
<1>1. ASSUME NEW d \in Chans PROVE Contents(chan'[d]) = Contents(chan[d])
  BY DEF Sets, Contents
<1>2. QED
  BY <1>1 DEF Q

LEMMA ClosedSame ==
  ASSUME NEW c, NEW m, NEW F, NEW E, Sets(c, m, F, E, chan[c].closed)
  PROVE  Shut' = Shut
BY DEF Sets, Shut

LEMMA InitRefines == Init => Abstract!Init
<1> SUFFICES ASSUME Init PROVE Abstract!Init
  OBVIOUS
<1>1. ASSUME NEW c \in Chans PROVE Contents(chan[c]) = <<>> /\ ~chan[c].closed
  BY DEF Init, Make, Contents
<1>2. Q = [c \in Chans |-> <<>>] /\ Shut = {}
  BY <1>1 DEF Q, Shut
<1>3. Phase = [t \in Threads |-> "idle"]
  BY DEF Init, Phase, PhaseOf
<1>4. QED
  BY <1>2, <1>3 DEF Init, Abstract!Init, Q, Shut, Phase

LEMMA PutRefines ==
  ASSUME TypeOK, RingInv, NEW t \in Threads, SendPut(t)
  PROVE  Abstract!Accept(t)
<1>1. PICK c : c = req[t].ch
  OBVIOUS
<1>2. Puts(c, req[t].val)
  BY <1>1, PutFrame
<1>3. /\ pc[t] = "body" /\ req[t].op = "send" /\ ~chan[c].closed
      /\ chan[c].count # chan[c].cap /\ res' = res
  BY <1>1 DEF SendPut, Body
<1>4. c \in Chans /\ req[t].val \in Values
  BY <1>1, <1>3, RequestOf
<1>5. Moves(t, "unlock") /\ req' = req
  BY SendPutShape
<1>6. Phase[t] = "pending" /\ Phase' = [Phase EXCEPT ![t] = "done"]
  BY <1>3, <1>5, PhaseMoves DEF Phase, PhaseOf
<1>7. Shut' = Shut /\ c \notin Shut
  BY <1>2, <1>3 DEF Puts, Shut
<1>8. /\ chan[c].count \in Nat /\ chan[c].cap \in Nat
      /\ \A i \in 0 .. chan[c].count - 1 :
           chan[c].buf[(chan[c].head + i) % chan[c].cap] \in Values
      /\ chan[c].tail = (chan[c].head + chan[c].count) % chan[c].cap
  BY <1>4, ChanFields DEF RingInv
<1>9. Room(chan[c].cap, chan[c].head, chan[c].count, chan[c].buf)
  BY <1>3, <1>4, <1>8, ChanFields DEF Room
<1>10. Contents(chan'[c]) = Append(Contents(chan[c]), req[t].val)
  BY <1>2, <1>4, <1>8, <1>9, PutAppends DEF Puts
<1>11. Q' = [Q EXCEPT ![c] = Append(Q[c], req[t].val)]
  BY <1>2, <1>4, <1>10 DEF Puts, Q
<1>12. Len(Q[c]) = chan[c].count
  BY <1>4, <1>8, ContentsSeq DEF Q
<1>13. chan[c].cap = Capacity[c] /\ chan[c].count < Capacity[c]
  <2>1. chan[c] \in ChanState(c)
    BY <1>4 DEF TypeOK
  <2>2. QED
    BY <1>3, <1>4, <2>1, CapacityType DEF ChanState
<1>14. QED
  BY <1>1, <1>3, <1>5, <1>6, <1>7, <1>11, <1>12, <1>13
  DEF Abstract!Accept, Abstract!Effect, Q, Shut, Phase

LEMMA TakeRefines ==
  ASSUME TypeOK, RingInv, NEW t \in Threads, RecvTake(t)
  PROVE  Abstract!Deliver(t)
<1>1. PICK c : c = req[t].ch
  OBVIOUS
<1>2. Takes(c)
  BY <1>1, TakeFrame
<1>3. /\ pc[t] = "body" /\ req[t].op = "recv" /\ chan[c].count # 0
      /\ res' = [res EXCEPT ![t] = chan[c].buf[chan[c].head]]
  BY <1>1 DEF RecvTake, Body, Oldest
<1>4. c \in Chans
  BY <1>1, <1>3, RequestOf
<1>5. Moves(t, "unlock") /\ req' = req
  BY RecvTakeShape
<1>6. Phase[t] = "pending" /\ Phase' = [Phase EXCEPT ![t] = "done"]
  BY <1>3, <1>5, PhaseMoves DEF Phase, PhaseOf
<1>7. Shut' = Shut
  BY <1>2 DEF Takes, Shut
<1>8. /\ chan[c].cap \in Nat /\ chan[c].cap >= 1
      /\ chan[c].head \in 0 .. chan[c].cap - 1
      /\ chan[c].count \in 1 .. chan[c].cap
      /\ \A i \in 0 .. chan[c].count - 1 :
           chan[c].buf[(chan[c].head + i) % chan[c].cap] \in Values
  BY <1>3, <1>4, ChanFields DEF RingInv
<1>9. /\ Contents(chan[c]) # <<>>
      /\ Head(Contents(chan[c])) = chan[c].buf[chan[c].head]
      /\ Contents(chan'[c]) = Tail(Contents(chan[c]))
  BY <1>2, <1>8, TakeRemoves DEF Takes
<1>10. /\ Q[c] # <<>> /\ Head(Q[c]) = chan[c].buf[chan[c].head]
       /\ Q' = [Q EXCEPT ![c] = Tail(Q[c])]
  BY <1>2, <1>4, <1>9 DEF Takes, Q
<1>11. QED
  BY <1>1, <1>3, <1>5, <1>6, <1>7, <1>10
  DEF Abstract!Deliver, Abstract!Effect, Q, Shut, Phase

(* A step that changes neither the ring, nor the closed flag, nor the      *)
(* abstract phase of any thread is invisible.                              *)
LEMMA Invisible ==
  ASSUME Q' = Q, Shut' = Shut, Phase' = Phase, req' = req, res' = res
  PROVE  UNCHANGED Abstract!vars
BY DEF Abstract!vars, Q, Shut, Phase

LEMMA StepRefines ==
  TypeOK /\ RingInv /\ [Next]_vars => [Abstract!Next]_(Abstract!vars)
<1> SUFFICES ASSUME TypeOK, RingInv, [Next]_vars
             PROVE  Abstract!Next \/ UNCHANGED Abstract!vars
  OBVIOUS
<1>1. ASSUME NEW t \in Threads, NEW r \in Request, Call(t, r)
      PROVE  Abstract!Invoke(t, r)
  <2>1. Moves(t, "lock") /\ pc[t] = "idle"
    BY <1>1, MoveOf DEF Call
  <2>2. Phase[t] = "idle" /\ Phase' = [Phase EXCEPT ![t] = "pending"]
    BY <2>1, PhaseMoves DEF Phase, PhaseOf
  <2>3. Q' = Q /\ Shut' = Shut
    BY <1>1 DEF Call, Q, Shut
  <2>4. QED
    BY <1>1, <2>2, <2>3 DEF Call, Abstract!Invoke, Q, Shut, Phase
<1>2. ASSUME NEW t \in Threads, Lock(t) \/ SendWait(t) \/ RecvWait(t)
      PROVE  UNCHANGED Abstract!vars
  <2>1. PICK c : c = req[t].ch
    OBVIOUS
  <2>2. \E m, F, E : Sets(c, m, F, E, chan[c].closed)
    BY <1>2, <2>1, LockFrame, SendWaitFrame, RecvWaitFrame, Zenon
  <2>3. Q' = Q /\ Shut' = Shut
    BY <2>2, RingSame, ClosedSame
  <2>4. /\ pc[t] \in {"lock", "wait", "body"}
        /\ \E l \in {"wait", "body"} : Moves(t, l)
        /\ req' = req /\ res' = res
    BY <1>2, LockShape, SendWaitShape, RecvWaitShape
    DEF Lock, SendWait, RecvWait, Body
  <2>5. Phase[t] = "pending" /\ Phase' = [Phase EXCEPT ![t] = "pending"]
    BY <2>4, PhaseMoves DEF Phase, PhaseOf
  <2>6. Phase' = Phase
    BY <2>5 DEF Phase
  <2>7. QED
    BY <2>3, <2>4, <2>6, Invisible
<1>3. ASSUME NEW t \in Threads, Spurious(t) PROVE UNCHANGED Abstract!vars
  <2>1. PICK c : c = req[t].ch
    OBVIOUS
  <2>2. \E m, F, E : Sets(c, m, F, E, chan[c].closed)
    BY <1>3, <2>1, SpuriousFrame, Zenon
  <2>3. Q' = Q /\ Shut' = Shut
    BY <2>2, RingSame, ClosedSame
  <2>4. Phase' = Phase /\ req' = req /\ res' = res
    BY <1>3, SpuriousShape DEF Phase
  <2>5. QED
    BY <2>3, <2>4, Invisible
<1>4. ASSUME NEW t \in Threads, SendDrop(t) PROVE Abstract!Reject(t)
  <2>1. /\ pc[t] = "body" /\ req[t].op = "send" /\ req[t].ch \in Chans
        /\ chan[req[t].ch].closed
    BY <1>4, RequestOf DEF SendDrop, Body
  <2>2. chan' = chan /\ Moves(t, "unlock") /\ req' = req /\ res' = res
    BY <1>4, QuietShape
  <2>3. Phase[t] = "pending" /\ Phase' = [Phase EXCEPT ![t] = "done"]
    BY <2>1, <2>2, PhaseMoves DEF Phase, PhaseOf
  <2>4. Q' = Q /\ Shut' = Shut /\ req[t].ch \in Shut
    BY <2>1, <2>2 DEF Q, Shut
  <2>5. QED
    BY <2>1, <2>2, <2>3, <2>4
    DEF Abstract!Reject, Abstract!Effect, Q, Shut, Phase
<1>5. ASSUME NEW t \in Threads, RecvEnd(t) PROVE Abstract!End(t)
  <2>1. /\ pc[t] = "body" /\ req[t].op = "recv" /\ req[t].ch \in Chans
        /\ chan[req[t].ch].closed /\ chan[req[t].ch].count = 0
    BY <1>5, RequestOf DEF RecvEnd, Body
  <2>2. chan' = chan /\ Moves(t, "unlock") /\ req' = req /\ res' = res
    BY <1>5, QuietShape
  <2>3. Phase[t] = "pending" /\ Phase' = [Phase EXCEPT ![t] = "done"]
    BY <2>1, <2>2, PhaseMoves DEF Phase, PhaseOf
  <2>4. Q' = Q /\ Shut' = Shut /\ req[t].ch \in Shut
    BY <2>1, <2>2 DEF Q, Shut
  <2>5. Q[req[t].ch] = <<>>
    BY <2>1 DEF Q, Contents
  <2>6. QED
    BY <2>1, <2>2, <2>3, <2>4, <2>5
    DEF Abstract!End, Abstract!Effect, Q, Shut, Phase
<1>6. ASSUME NEW t \in Threads, CloseBody(t) PROVE Abstract!Shut(t)
  <2>1. PICK c : c = req[t].ch
    OBVIOUS
  <2>2. Sets(c, chan[c].mu, {}, {}, TRUE)
    BY <1>6, <2>1, CloseFrame
  <2>3. pc[t] = "body" /\ req[t].op = "close"
    BY <1>6 DEF CloseBody, Body
  <2>4. Moves(t, "unlock") /\ req' = req /\ res' = res
    BY <1>6, CloseShape
  <2>5. Phase[t] = "pending" /\ Phase' = [Phase EXCEPT ![t] = "done"]
    BY <2>3, <2>4, PhaseMoves DEF Phase, PhaseOf
  <2>6. Q' = Q
    BY <2>2, RingSame
  <2>7. Shut' = Shut \cup {c}
    BY <2>2 DEF Sets, Shut
  <2>8. QED
    BY <2>1, <2>3, <2>4, <2>5, <2>6, <2>7
    DEF Abstract!Shut, Abstract!Effect, Q, Shut, Phase
<1>7. ASSUME NEW t \in Threads, Unlock(t) PROVE Abstract!Return(t)
  <2>1. PICK c : c = req[t].ch
    OBVIOUS
  <2>2. Sets(c, Nothing, chan[c].notFull, chan[c].notEmpty, chan[c].closed)
    BY <1>7, <2>1, UnlockFrame
  <2>3. Q' = Q /\ Shut' = Shut
    BY <2>2, RingSame, ClosedSame
  <2>4. /\ pc[t] = "unlock" /\ Moves(t, "idle")
        /\ req' = [req EXCEPT ![t] = Nothing] /\ res' = res
    BY <1>7, UnlockShape DEF Unlock
  <2>5. Phase[t] = "done" /\ Phase' = [Phase EXCEPT ![t] = "idle"]
    BY <2>4, PhaseMoves DEF Phase, PhaseOf
  <2>6. QED
    BY <2>3, <2>4, <2>5 DEF Abstract!Return, Q, Shut, Phase
<1>8. CASE UNCHANGED vars
  <2>1. Q' = Q /\ Shut' = Shut /\ Phase' = Phase /\ req' = req /\ res' = res
    BY <1>8 DEF vars, Q, Shut, Phase
  <2>2. QED
    BY <2>1, Invisible
<1>9. Request = Abstract!Request
  BY DEF Request, Abstract!Request
<1>10. QED
  BY <1>1, <1>2, <1>3, <1>4, <1>5, <1>6, <1>7, <1>8, <1>9, PutRefines,
     TakeRefines
  DEF Next, Step, Abstract!Next

(* The runtime implements the channel the language promises: bounded,      *)
(* first-in first-out, nothing lost or duplicated, closed once and for     *)
(* all, with each call taking effect atomically between call and return.   *)
THEOREM ChannelImplemented == Spec => ImplementsChannel
<1>1. Init => TypeOK /\ RingInv /\ Abstract!Init
  BY TypeInit, RingInit, InitRefines
<1>2. TypeOK /\ RingInv /\ [Next]_vars
        => TypeOK' /\ RingInv' /\ [Abstract!Next]_(Abstract!vars)
  BY TypeStep, RingStep, StepRefines
<1>3. QED
  BY <1>1, <1>2, PTL DEF Spec, ImplementsChannel, Abstract!Spec
=============================================================================
