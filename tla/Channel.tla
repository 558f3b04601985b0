------------------------------- MODULE Channel -------------------------------
(***************************************************************************)
(* What a Vader channel promises to the program, whatever the runtime does *)
(* with locks and condition variables: a bounded first-in first-out queue  *)
(* that can be closed once and for all.  An operation is invoked, takes    *)
(* effect in one atomic step, and returns:                                 *)
(*                                                                         *)
(*   send   enqueues its value while the channel is open and has room, and *)
(*          is dropped without a word once the channel is closed;          *)
(*   recv   takes the oldest value, and reports the end only when the      *)
(*          channel is closed and everything accepted has been taken;      *)
(*   close  shuts the channel.                                             *)
(*                                                                         *)
(* VaderChan, the lock-based runtime, is shown to implement this module.   *)
(***************************************************************************)
EXTENDS Integers, Sequences

CONSTANTS
  Threads,    \* goroutines (pthreads) that use the channels
  Chans,      \* the channels of the program
  Values,     \* what is sent through them
  Capacity,   \* number of slots of each channel
  Nothing     \* no request, no result

VARIABLES
  queue,      \* the values in transit, oldest first
  closed,     \* channels that were closed
  phase,      \* "idle", "pending" (invoked) or "done" (about to return)
  req,        \* the operation a thread is executing
  res         \* what its last recv delivered, Nothing at the end of the channel

vars == <<queue, closed, phase, req, res>>

Request ==
  [op : {"send"}, ch : Chans, val : Values] \cup
  [op : {"recv", "close"}, ch : Chans, val : {Nothing}]

-----------------------------------------------------------------------------
Init ==
  /\ queue  = [c \in Chans |-> <<>>]
  /\ closed = {}
  /\ phase  = [t \in Threads |-> "idle"]
  /\ req    = [t \in Threads |-> Nothing]
  /\ res    = [t \in Threads |-> Nothing]

Invoke(t, r) ==
  /\ phase[t] = "idle"
  /\ phase' = [phase EXCEPT ![t] = "pending"]
  /\ req'   = [req EXCEPT ![t] = r]
  /\ res'   = [res EXCEPT ![t] = Nothing]
  /\ UNCHANGED <<queue, closed>>

(* The single step in which a pending operation of kind op takes effect. *)
Effect(t, op) ==
  /\ phase[t] = "pending"
  /\ req[t].op = op
  /\ phase' = [phase EXCEPT ![t] = "done"]
  /\ UNCHANGED req

Accept(t) ==
  LET c == req[t].ch IN
  /\ Effect(t, "send")
  /\ c \notin closed
  /\ Len(queue[c]) < Capacity[c]
  /\ queue' = [queue EXCEPT ![c] = Append(@, req[t].val)]
  /\ UNCHANGED <<closed, res>>

Reject(t) ==
  /\ Effect(t, "send")
  /\ req[t].ch \in closed
  /\ UNCHANGED <<queue, closed, res>>

Deliver(t) ==
  LET c == req[t].ch IN
  /\ Effect(t, "recv")
  /\ queue[c] # <<>>
  /\ res'   = [res EXCEPT ![t] = Head(queue[c])]
  /\ queue' = [queue EXCEPT ![c] = Tail(@)]
  /\ UNCHANGED closed

End(t) ==
  /\ Effect(t, "recv")
  /\ req[t].ch \in closed
  /\ queue[req[t].ch] = <<>>
  /\ UNCHANGED <<queue, closed, res>>

Shut(t) ==
  /\ Effect(t, "close")
  /\ closed' = closed \cup {req[t].ch}
  /\ UNCHANGED <<queue, res>>

Return(t) ==
  /\ phase[t] = "done"
  /\ phase' = [phase EXCEPT ![t] = "idle"]
  /\ req'   = [req EXCEPT ![t] = Nothing]
  /\ UNCHANGED <<queue, closed, res>>

Next ==
  \E t \in Threads :
    \/ \E r \in Request : Invoke(t, r)
    \/ Accept(t) \/ Reject(t)
    \/ Deliver(t) \/ End(t)
    \/ Shut(t)
    \/ Return(t)

Spec == Init /\ [][Next]_vars
=============================================================================
