----------------------------- MODULE MCVaderChan -----------------------------
(* Three threads that call anything, in any order, on one channel.         *)
EXTENDS VaderChan, TLC

CONSTANTS t1, t2, t3, c1, v1, v2

MCThreads == {t1, t2, t3}
MCValues  == {v1, v2}
MCAsked2  == c1 :> 2
=============================================================================
