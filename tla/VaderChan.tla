------------------------------ MODULE VaderChan ------------------------------
(***************************************************************************)
(* The channel runtime of src/runtime/vader_rt.c: a ring buffer under one  *)
(* pthread mutex, with a condition variable for each direction.  Every     *)
(* thread may call vader_chan_send, vader_chan_recv and vader_chan_close   *)
(* on every channel at any time.                                           *)
(*                                                                         *)
(* A call goes through the program counter                                 *)
(*                                                                         *)
(*   idle -> lock -> body -> unlock -> idle                                *)
(*                    | ^                                                  *)
(*                    v |                                                  *)
(*                    wait        (inside pthread_cond_wait)               *)
(*                                                                         *)
(* "body" is the top of the while loop, entered with the mutex held: it    *)
(* either blocks or runs on to the end of the critical section.  A thread  *)
(* in "wait" is blocked while it is in one of the two waiter sets; once it *)
(* has been taken out of it (by a signal, a broadcast, or spuriously) it   *)
(* competes for the mutex again.                                           *)
(***************************************************************************)
EXTENDS Integers, Sequences, FiniteSets

CONSTANTS
  Threads,    \* the pthreads that share the channels
  Chans,      \* the VaderChan objects
  Values,     \* elements sent
  Asked,      \* the capacity the program asked for, per channel
  Nothing     \* free mutex, absent request or result, uninitialised slot

ASSUME ThreadsAssumption == IsFiniteSet(Threads) /\ Nothing \notin Threads
ASSUME AskedAssumption   == Asked \in [Chans -> Int]
Request ==
  [op : {"send"}, ch : Chans, val : Values] \cup
  [op : {"recv", "close"}, ch : Chans, val : {Nothing}]

ASSUME NothingAssumption == Nothing \notin Values \cup Request

VARIABLES
  chan,       \* the VaderChan struct of each channel
  pc,         \* where each thread is in its call
  req,        \* the call: operation, channel, element
  res         \* what recv copied to *out; Nothing when it returned 0

vars == <<chan, pc, req, res>>

-----------------------------------------------------------------------------
(* The struct and the pieces of the critical sections, as operators on it. *)

Capacity == [c \in Chans |-> IF Asked[c] < 1 THEN 1 ELSE Asked[c]]

Make(cap) ==
  [cap      |-> cap,
   buf      |-> [i \in 0 .. cap - 1 |-> Nothing],
   count    |-> 0,
   head     |-> 0,
   tail     |-> 0,
   closed   |-> FALSE,
   mu       |-> Nothing,
   notFull  |-> {},
   notEmpty |-> {}]

(* Mutant of Put: the tail is not wrapped. *)
PutUnwrapped(s, v) ==
  [s EXCEPT !.buf = [@ EXCEPT ![s.tail] = v], !.tail = @ + 1, !.count = @ + 1]

Put(s, v) ==
  [s EXCEPT !.buf   = [@ EXCEPT ![s.tail] = v],
            !.tail  = (s.tail + 1) % s.cap,
            !.count = @ + 1]

(* Mutants of Take: the head, or the count, stays where it was. *)
TakeKeepingHead(s)  == [s EXCEPT !.count = @ - 1]
TakeKeepingCount(s) == [s EXCEPT !.head = (@ + 1) % s.cap]

Take(s) ==
  [s EXCEPT !.head  = (s.head + 1) % s.cap,
            !.count = @ - 1]

Oldest(s) == s.buf[s.head]

(* pthread_cond_signal: the waiter sets it can leave behind. *)
Signal(W) == IF W = {} THEN {W} ELSE {W \ {t} : t \in W}

Waiters(c) == chan[c].notFull \cup chan[c].notEmpty

Init ==
  /\ chan = [c \in Chans |-> Make(Capacity[c])]
  /\ pc   = [t \in Threads |-> "idle"]
  /\ req  = [t \in Threads |-> Nothing]
  /\ res  = [t \in Threads |-> Nothing]

-----------------------------------------------------------------------------
Goto(t, l) == pc' = [pc EXCEPT ![t] = l]

Call(t, r) ==
  /\ pc[t] = "idle"
  /\ Goto(t, "lock")
  /\ req' = [req EXCEPT ![t] = r]
  /\ res' = [res EXCEPT ![t] = Nothing]
  /\ UNCHANGED chan

(* pthread_mutex_lock, and the re-acquisition inside pthread_cond_wait. *)
Lock(t) ==
  LET c == req[t].ch IN
  /\ \/ pc[t] = "lock"
     \/ pc[t] = "wait" /\ t \notin Waiters(c)
  /\ chan[c].mu = Nothing
  /\ chan' = [chan EXCEPT ![c].mu = t]
  /\ Goto(t, "body")
  /\ UNCHANGED <<req, res>>

Body(t, op) ==
  /\ pc[t] = "body"
  /\ req[t].op = op
  /\ UNCHANGED req

(* Mutant of SendWait: give the mutex back and try again, without sleeping. *)
SendSpins(t) ==
  LET c == req[t].ch IN
  /\ Body(t, "send")
  /\ chan[c].count = chan[c].cap
  /\ ~chan[c].closed
  /\ chan' = [chan EXCEPT ![c].mu = Nothing]
  /\ Goto(t, "lock")
  /\ UNCHANGED res

SendWait(t) ==
  LET c == req[t].ch IN
  /\ Body(t, "send")
  /\ chan[c].count = chan[c].cap
  /\ ~chan[c].closed
  /\ chan' = [chan EXCEPT ![c].mu = Nothing, ![c].notFull = @ \cup {t}]
  /\ Goto(t, "wait")
  /\ UNCHANGED res

(* Mutant of SendDrop: the early return forgets to unlock. *)
SendDropLocked(t) ==
  /\ pc[t] = "body" /\ req[t].op = "send"
  /\ chan[req[t].ch].closed
  /\ Goto(t, "idle")
  /\ req' = [req EXCEPT ![t] = Nothing]
  /\ UNCHANGED <<chan, res>>

SendDrop(t) ==
  /\ Body(t, "send")
  /\ chan[req[t].ch].closed
  /\ Goto(t, "unlock")
  /\ UNCHANGED <<chan, res>>

(* Mutants of SendPut: without looking at closed after the wait; and with a *)
(* signal only when the channel was empty.                                  *)
SendPutClosed(t) ==
  LET c == req[t].ch IN
  /\ Body(t, "send")
  /\ chan[c].count # chan[c].cap
  /\ \E W \in Signal(chan[c].notEmpty) :
       chan' = [chan EXCEPT ![c] = [Put(@, req[t].val) EXCEPT !.notEmpty = W]]
  /\ Goto(t, "unlock")
  /\ UNCHANGED res

SendPutSignalsFirst(t) ==
  LET c == req[t].ch
      W == chan[c].notEmpty
  IN
  /\ Body(t, "send")
  /\ chan[c].count # chan[c].cap
  /\ ~chan[c].closed
  /\ \E X \in IF chan[c].count = 0 THEN Signal(W) ELSE {W} :
       chan' = [chan EXCEPT ![c] = [Put(@, req[t].val) EXCEPT !.notEmpty = X]]
  /\ Goto(t, "unlock")
  /\ UNCHANGED res

SendPut(t) ==
  LET c == req[t].ch IN
  /\ Body(t, "send")
  /\ chan[c].count # chan[c].cap
  /\ ~chan[c].closed
  /\ \E W \in Signal(chan[c].notEmpty) :
       chan' = [chan EXCEPT ![c] = [Put(@, req[t].val) EXCEPT !.notEmpty = W]]
  /\ Goto(t, "unlock")
  /\ UNCHANGED res

RecvWait(t) ==
  LET c == req[t].ch IN
  /\ Body(t, "recv")
  /\ chan[c].count = 0
  /\ ~chan[c].closed
  /\ chan' = [chan EXCEPT ![c].mu = Nothing, ![c].notEmpty = @ \cup {t}]
  /\ Goto(t, "wait")
  /\ UNCHANGED res

(* Mutant of RecvEnd: a closed channel is taken for an empty one. *)
RecvEndUndrained(t) ==
  /\ Body(t, "recv")
  /\ chan[req[t].ch].closed
  /\ Goto(t, "unlock")
  /\ UNCHANGED <<chan, res>>

RecvEnd(t) ==
  /\ Body(t, "recv")
  /\ chan[req[t].ch].count = 0
  /\ chan[req[t].ch].closed
  /\ Goto(t, "unlock")
  /\ UNCHANGED <<chan, res>>

(* Mutant of RecvTake: nobody is told about the free slot. *)
RecvTakeSilent(t) ==
  LET c == req[t].ch IN
  /\ Body(t, "recv")
  /\ chan[c].count # 0
  /\ res' = [res EXCEPT ![t] = Oldest(chan[c])]
  /\ chan' = [chan EXCEPT ![c] = Take(@)]
  /\ Goto(t, "unlock")

RecvTake(t) ==
  LET c == req[t].ch IN
  /\ Body(t, "recv")
  /\ chan[c].count # 0
  /\ res' = [res EXCEPT ![t] = Oldest(chan[c])]
  /\ \E W \in Signal(chan[c].notFull) :
       chan' = [chan EXCEPT ![c] = [Take(@) EXCEPT !.notFull = W]]
  /\ Goto(t, "unlock")

(* Mutant of CloseBody: only the receivers are woken. *)
CloseBodyHalf(t) ==
  LET c == req[t].ch IN
  /\ Body(t, "close")
  /\ chan' = [chan EXCEPT ![c].closed = TRUE, ![c].notEmpty = {}]
  /\ Goto(t, "unlock")
  /\ UNCHANGED res

CloseBody(t) ==
  LET c == req[t].ch IN
  /\ Body(t, "close")
  /\ chan' = [chan EXCEPT ![c].closed   = TRUE,
                          ![c].notEmpty = {},
                          ![c].notFull  = {}]
  /\ Goto(t, "unlock")
  /\ UNCHANGED res

Unlock(t) ==
  /\ pc[t] = "unlock"
  /\ chan' = [chan EXCEPT ![req[t].ch].mu = Nothing]
  /\ Goto(t, "idle")
  /\ req' = [req EXCEPT ![t] = Nothing]
  /\ UNCHANGED res

(* pthread_cond_wait may return without a signal. *)
Spurious(t) ==
  LET c == req[t].ch IN
  /\ pc[t] = "wait"
  /\ t \in Waiters(c)
  /\ chan' = [chan EXCEPT ![c].notFull = @ \ {t}, ![c].notEmpty = @ \ {t}]
  /\ UNCHANGED <<pc, req, res>>

(* The steps of a thread that is inside the runtime and not blocked. *)
Step(t) ==
  \/ Lock(t)
  \/ SendWait(t) \/ SendDrop(t) \/ SendPut(t)
  \/ RecvWait(t) \/ RecvEnd(t) \/ RecvTake(t)
  \/ CloseBody(t)
  \/ Unlock(t)

Next ==
  \E t \in Threads :
    \/ \E r \in Request : Call(t, r)
    \/ Step(t)
    \/ Spurious(t)

Spec == Init /\ [][Next]_vars

-----------------------------------------------------------------------------
ChanState(c) ==
  [cap      : {Capacity[c]},
   buf      : [0 .. Capacity[c] - 1 -> Values \cup {Nothing}],
   count    : 0 .. Capacity[c],
   head     : 0 .. Capacity[c] - 1,
   tail     : 0 .. Capacity[c] - 1,
   closed   : BOOLEAN,
   mu       : Threads \cup {Nothing},
   notFull  : SUBSET Threads,
   notEmpty : SUBSET Threads]

(* The shape of the state: the channel structs, and a request exactly for  *)
(* the threads that are inside the runtime.                                *)
TypeOK ==
  /\ DOMAIN chan = Chans
  /\ \A c \in Chans : chan[c] \in ChanState(c)
  /\ pc  \in [Threads -> {"idle", "lock", "body", "wait", "unlock"}]
  /\ req \in [Threads -> Request \cup {Nothing}]
  /\ res \in [Threads -> Values \cup {Nothing}]
  /\ \A t \in Threads : req[t] = Nothing <=> pc[t] = "idle"

(* The mutex is held by the one thread that is between lock and unlock on  *)
(* that channel, so no two threads are ever in the critical sections of    *)
(* the same channel: the waits, the early returns and the wake-ups of      *)
(* vader_chan_send / recv / close all give the mutex back exactly once.    *)
MutexInv ==
  \A t \in Threads, c \in Chans :
    chan[c].mu = t <=> pc[t] \in {"body", "unlock"} /\ req[t].ch = c

(* The ring: head, tail and count move separately (send moves tail, recv   *)
(* moves head) and must always describe the same window of written slots,  *)
(* including when the window wraps and when head = tail (empty or full).   *)
RingInv ==
  \A c \in Chans :
    LET s == chan[c] IN
    /\ s.tail = (s.head + s.count) % s.cap
    /\ \A i \in 0 .. s.count - 1 : s.buf[(s.head + i) % s.cap] \in Values

(* Threads inside a blocking call of kind op on c that are not blocked:    *)
(* each of them will look at the channel again before it sleeps.           *)
Active(c, op) ==
  {t \in Threads : /\ pc[t] \in {"lock", "body", "wait"}
                   /\ req[t].op = op
                   /\ req[t].ch = c
                   /\ t \notin Waiters(c)}

(* A thread is in a waiter set only inside its own blocking call. *)
WaitersInv ==
  \A c \in Chans, t \in Threads :
    /\ t \in chan[c].notFull  =>
         pc[t] = "wait" /\ req[t].op = "send" /\ req[t].ch = c
    /\ t \in chan[c].notEmpty =>
         pc[t] = "wait" /\ req[t].op = "recv" /\ req[t].ch = c

(* No lost wake-up.  send and recv signal one waiter, not all: that is     *)
(* enough only if, while a receiver sleeps, every value in the buffer has  *)
(* a receiver of its own that is awake (and, while a sender sleeps, every  *)
(* free slot has a sender that is awake), even when a third thread takes   *)
(* the value before the woken one gets the mutex; and nobody sleeps on a   *)
(* closed channel.                                                         *)
NoLostWakeup ==
  \A c \in Chans :
    LET s == chan[c] IN
    /\ s.notEmpty # {} => s.count <= Cardinality(Active(c, "recv"))
    /\ s.notFull  # {} => s.cap - s.count <= Cardinality(Active(c, "send"))
    /\ s.closed => s.notEmpty = {} /\ s.notFull = {}

(* A closed channel never opens again and accepts nothing more: a sender   *)
(* that was blocked when the channel closed gives up instead of writing.   *)
ClosedForGood ==
  [][\A c \in Chans :
       chan[c].closed => chan'[c].closed /\ chan'[c].tail = chan[c].tail
                         /\ chan'[c].count <= chan[c].count]_vars

-----------------------------------------------------------------------------
(* Every behaviour is one of the abstract channel: the values between head *)
(* and tail are the queue, and an operation takes effect in its last step  *)
(* at "body".  Nothing is lost, duplicated or reordered, a recv fails only *)
(* on a closed and drained channel.                                        *)
Contents(s) == [i \in 1 .. s.count |-> s.buf[(s.head + (i - 1)) % s.cap]]

PhaseOf(l) ==
  CASE l = "idle"   -> "idle"
    [] l = "unlock" -> "done"
    [] OTHER        -> "pending"

Abstract ==
  INSTANCE Channel WITH
    queue  <- [c \in Chans |-> Contents(chan[c])],
    closed <- {c \in Chans : chan[c].closed},
    phase  <- [t \in Threads |-> PhaseOf(pc[t])]

ImplementsChannel == Abstract!Spec
=============================================================================
