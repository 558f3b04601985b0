----------------------------- MODULE MCWorkerPool -----------------------------
(* Two workers, a slot in each channel: room for four jobs when both are  *)
(* born, and the pool fills up when one or both are not.                   *)
EXTENDS WorkerPool

CONSTANTS m, w1, w2, cj, cr

MCThreads == {m, w1, w2}
MCAsked   == cj :> 1 @@ cr :> 1
MCValues  == 1 .. 2 * NJobs
=============================================================================
