----------------------------- MODULE WorkerPool -----------------------------
(***************************************************************************)
(* The worker pool of src/examples/concurrency.vd as the compiler builds   *)
(* it: main spawns the workers, sends every job, closes the jobs channel   *)
(* and only then collects the results, one per job; a worker iterates over *)
(* jobs until the channel ends and sends the double of each.               *)
(*                                                                         *)
(* Each operation is a call into the channel runtime of VaderChan and takes*)
(* all the steps of that module.  What surrounds the runtime is what the   *)
(* LLVM backend emits: the receive loop for `for job in jobs`, a receive   *)
(* that does not look at the return code for `<-results`, vader_go for     *)
(* spawn (which ignores a failing pthread_create), and the end of the      *)
(* process, with every goroutine in it, when main returns.                 *)
(***************************************************************************)
EXTENDS VaderChan, SequencesExt

CONSTANTS
  Main,           \* the initial thread; every other thread is a worker
  jobs, results,  \* the two channels
  NJobs,          \* how many jobs main sends, and results it waits for
  MaxSpurious,    \* bound on spurious wake-ups
  MaxFailed       \* bound on failing pthread_create calls

Workers == Threads \ {Main}

ASSUME PoolAssumption ==
  /\ Main \in Threads /\ Workers # {}
  /\ Chans = {jobs, results} /\ jobs # results
  /\ NJobs \in Nat /\ 1 .. 2 * NJobs \subseteq Values
  /\ MaxSpurious \in Nat /\ MaxFailed \in Nat

VARIABLES
  at,         \* main: "spawn", "send", "collect", "exited"
  sent,       \* jobs main has passed to vader_chan_send
  live,       \* workers: "unborn", "failed", "loop" (about to receive a job),
              \* "asked" (receiving), "reply" (sending), "gone"
  asked,      \* receives main has started
  printed,    \* what main printed, in order
  spurious    \* spurious wake-ups so far

poolVars == <<at, sent, live, asked, printed, spurious>>

PoolInit ==
  /\ Init
  /\ at = "spawn" /\ sent = 0 /\ asked = 0
  /\ live = [w \in Workers |-> "unborn"]
  /\ printed = <<>>
  /\ spurious = 0

Send(t, c, v) == Call(t, [op |-> "send", ch |-> c, val |-> v])
Recv(t, c)    == Call(t, [op |-> "recv", ch |-> c, val |-> Nothing])
Close(t, c)   == Call(t, [op |-> "close", ch |-> c, val |-> Nothing])

Become(w, l) == live' = [live EXCEPT ![w] = l]

-----------------------------------------------------------------------------
(* main *)

(* vader_go: the thread starts, or pthread_create fails and nobody looks. *)
Spawn(w) ==
  /\ at = "spawn"
  /\ live[w] = "unborn"
  /\ \/ Become(w, "loop")
     \/ /\ Cardinality({u \in Workers : live[u] = "failed"}) < MaxFailed
        /\ Become(w, "failed")
  /\ at' = IF \E u \in Workers \ {w} : live[u] = "unborn" THEN "spawn" ELSE "send"
  /\ UNCHANGED <<vars, sent, asked, printed, spurious>>

SendJob ==
  /\ at = "send"
  /\ sent < NJobs
  /\ Send(Main, jobs, sent + 1)
  /\ sent' = sent + 1
  /\ UNCHANGED <<at, live, asked, printed, spurious>>

CloseJobs ==
  /\ at = "send"
  /\ sent = NJobs
  /\ Close(Main, jobs)
  /\ at' = "collect"
  /\ UNCHANGED <<sent, live, asked, printed, spurious>>

(* Mutant of Collect: one receive too few. *)
CollectOneShort ==
  /\ at = "collect"
  /\ pc[Main] = "idle"
  /\ printed' = IF asked = 0 THEN printed ELSE Append(printed, res[Main])
  /\ IF asked < NJobs - 1
     THEN Recv(Main, results) /\ asked' = asked + 1 /\ UNCHANGED at
     ELSE at' = "exited" /\ UNCHANGED <<vars, asked>>
  /\ UNCHANGED <<sent, live, spurious>>

(* print(<-results): the previous receive is printed, the next one starts; *)
(* after the last one main returns.                                        *)
Collect ==
  /\ at = "collect"
  /\ pc[Main] = "idle"
  /\ printed' = IF asked = 0 THEN printed ELSE Append(printed, res[Main])
  /\ IF asked < NJobs
     THEN /\ Recv(Main, results)
          /\ asked' = asked + 1
          /\ UNCHANGED at
     ELSE /\ at' = "exited"
          /\ UNCHANGED <<vars, asked>>
  /\ UNCHANGED <<sent, live, spurious>>

-----------------------------------------------------------------------------
(* a worker *)

NextJob(w) ==
  /\ live[w] = "loop"
  /\ Recv(w, jobs)
  /\ Become(w, "asked")
  /\ UNCHANGED <<at, sent, asked, printed, spurious>>

Reply(w) ==
  /\ live[w] = "asked"
  /\ res[w] # Nothing
  /\ Send(w, results, 2 * res[w])
  /\ Become(w, "reply")
  /\ UNCHANGED <<at, sent, asked, printed, spurious>>

Again(w) ==
  /\ live[w] = "reply"
  /\ pc[w] = "idle"
  /\ Become(w, "loop")
  /\ UNCHANGED <<vars, at, sent, asked, printed, spurious>>

LoopEnds(w) ==
  /\ live[w] = "asked"
  /\ pc[w] = "idle"
  /\ res[w] = Nothing
  /\ Become(w, "gone")
  /\ UNCHANGED <<vars, at, sent, asked, printed, spurious>>

-----------------------------------------------------------------------------
Runtime(t) == Step(t) /\ UNCHANGED poolVars

SpuriousWakeup(t) ==
  /\ spurious < MaxSpurious
  /\ Spurious(t)
  /\ spurious' = spurious + 1
  /\ UNCHANGED <<at, sent, live, asked, printed>>

MainStep ==
  /\ at # "exited"
  /\ (\E w \in Workers : Spawn(w)) \/ SendJob \/ CloseJobs \/ Collect \/ Runtime(Main)

WorkerStep(w) ==
  /\ at # "exited"
  /\ NextJob(w) \/ Reply(w) \/ Again(w) \/ LoopEnds(w) \/ Runtime(w)

(* main has returned: the process is gone. *)
Exited == at = "exited" /\ UNCHANGED <<vars, poolVars>>

PoolNext ==
  \/ MainStep
  \/ \E w \in Workers : WorkerStep(w)
  \/ at # "exited" /\ \E t \in Threads : SpuriousWakeup(t)
  \/ Exited

PoolSpec == PoolInit /\ [][PoolNext]_<<vars, poolVars>>

(* The operating system runs every thread that can run. *)
FairSpec ==
  /\ PoolSpec
  /\ WF_<<vars, poolVars>>(MainStep)
  /\ \A w \in Workers : WF_<<vars, poolVars>>(WorkerStep(w))

-----------------------------------------------------------------------------
Blocked(t) == pc[t] = "wait" /\ t \in Waiters(req[t].ch)

(* A job that was accepted is in exactly one place: the jobs buffer, the   *)
(* hands of one worker (the job, or its result until that is accepted),    *)
(* the results buffer, main's hands or the output.                         *)
HasJob(w)   == live[w] = "asked" /\ pc[w] \in {"idle", "unlock"} /\ res[w] # Nothing
HasReply(w) == live[w] = "reply" /\ pc[w] \in {"lock", "body", "wait"}
HasResult   == at = "collect" /\ asked > 0 /\ res[Main] # Nothing

InHand(w) == IF HasJob(w) THEN 2 * res[w] ELSE req[w].val

Places ==
  {<<"jobs", i>> : i \in 1 .. chan[jobs].count}
  \cup {<<"hand", w>> : w \in {u \in Workers : HasJob(u) \/ HasReply(u)}}
  \cup {<<"results", i>> : i \in 1 .. chan[results].count}
  \cup (IF HasResult THEN {<<"main", 1>>} ELSE {})
  \cup {<<"out", i>> : i \in 1 .. Len(printed)}

(* The double of the job that is there. *)
JobAt(p) ==
  CASE p[1] = "jobs"    -> 2 * Contents(chan[jobs])[p[2]]
    [] p[1] = "hand"    -> InHand(p[2])
    [] p[1] = "results" -> Contents(chan[results])[p[2]]
    [] p[1] = "main"    -> res[Main]
    [] p[1] = "out"     -> printed[p[2]]

Accepted == IF at = "send" /\ pc[Main] \in {"lock", "body", "wait"} THEN sent - 1 ELSE sent

(* No job is lost, done twice or invented, whatever the interleaving of    *)
(* the workers: the accepted jobs and the places that hold one are in      *)
(* one-to-one correspondence at every moment, close included.              *)
EachJobOnce ==
  /\ Cardinality(Places) = Accepted
  /\ {JobAt(p) : p \in Places} = {2 * j : j \in 1 .. Accepted}

(* `<-results` ignores the return code of vader_chan_recv and would print  *)
(* an uninitialised slot at the end of the channel: this never happens     *)
(* here, and when main returns it has printed the double of every job.     *)
AllJobsPrinted ==
  /\ \A i \in DOMAIN printed : printed[i] # Nothing
  /\ at = "exited" => ToSet(printed) = {2 * j : j \in 1 .. NJobs} /\ Len(printed) = NJobs

(* main sends everything before it collects anything, so the pool can only *)
(* hang by back-pressure: whenever nobody can move and main has not        *)
(* returned, either no worker was born, or main is blocked sending with    *)
(* both buffers full and a finished job stuck in every worker's hands.     *)
Stuck == at # "exited" /\ \A t \in Threads :
           \/ Blocked(t)
           \/ t # Main /\ live[t] \in {"failed", "gone"}

StuckOnlyWhenFull ==
  Stuck =>
    \/ \A w \in Workers : live[w] = "failed"
    \/ /\ at = "send"
       /\ chan[jobs].count = chan[jobs].cap
       /\ chan[results].count = chan[results].cap
       /\ \A w \in Workers : live[w] # "failed" => HasReply(w)
       /\ sent > chan[jobs].cap + chan[results].cap
                   + Cardinality({w \in Workers : live[w] = "reply"})

(* As long as threads that can run are run, main returns, or the pool is   *)
(* full in the sense above: it never waits for a wake-up that got lost and *)
(* never spins.  With room for every job in the buffers and in the hands   *)
(* of the workers that were born, the second case is ruled out.            *)
Finishes == <>(at = "exited" \/ Stuck)
=============================================================================
