-------------------------- MODULE TestHarnessProofs --------------------------
(***************************************************************************)
(* Proofs about TestHarness, for any number of tests, any functions, any   *)
(* goroutines and any size of the coverage table.  What the races of       *)
(* goroutines leave in the table has no part in the first two theorems;    *)
(* the last two are about the table as well.                               *)
(***************************************************************************)
EXTENDS TestHarness, FiniteSetTheorems, TLAPS

LEMMA Counts == NTests \in Nat /\ Main \notin Goroutines
BY HarnessAssumption DEF HarnessAssumption

-----------------------------------------------------------------------------
(* The inductive invariant.  The types of what the harness itself keeps, ... *)
Types ==
  /\ at \in [Threads -> {"next", "body", "passed", "failed", "unborn", "gone"}]
  /\ at[Main] \in {"next", "body", "passed", "failed"}
  /\ test \in 0 .. NTests
  /\ inTest \in BOOLEAN /\ strayed \in BOOLEAN
  /\ report \in [1 .. NTests -> {"none", "passed", "failed"}]
  /\ exit \in {"running", "crashed", "undefined", "0", "1", "2"}

(* ... where the thread of the tests is: g_in_test is set in the body of a *)
(* test and nowhere else, and the tests before have been reported; ...     *)
Progress ==
  /\ inTest <=> at[Main] = "body"
  /\ at[Main] # "next" => test \in 1 .. NTests
  /\ \A i \in 1 .. NTests :
       report[i] # "none" <=> i < test \/ (i = test /\ at[Main] = "next")

(* ... who is to blame for a failed test; ...                              *)
Blame ==
  /\ \A i \in failed :
       /\ i \in 1 .. NTests
       /\ report[i] = "failed" \/ (i = test /\ at[Main] = "failed")
  /\ ~strayed =>
       /\ \A i \in 1 .. NTests : report[i] = "failed" => i \in failed
       /\ at[Main] = "failed" => test \in failed

(* ... and how the process ended.                                          *)
Ended ==
  /\ exit = "0" => \A i \in 1 .. NTests : report[i] = "passed"
  /\ exit = "0" \/ (exit \in {"1", "2"} /\ ~strayed) => test = NTests /\ at[Main] = "next"

Inv == Types /\ Progress /\ Blame /\ Ended

LEMMA InitInv == Init => Inv
<1> SUFFICES ASSUME Init PROVE Inv
  OBVIOUS
<1>1. at[Main] = "next" /\ at \in [Threads -> {"next", "unborn"}]
  BY DEF Init, Threads
<1>2. Types
  <2>1. test \in 0 .. NTests /\ inTest \in BOOLEAN /\ strayed \in BOOLEAN
    <3>1. 0 \in 0 .. NTests
      BY Counts
    <3>2. test = 0 /\ inTest = FALSE /\ strayed = FALSE
      BY DEF Init
    <3> QED
      BY <3>1, <3>2
  <2>2. report \in [1 .. NTests -> {"none", "passed", "failed"}] /\ exit = "running"
    BY DEF Init
  <2> QED
    BY <1>1, <2>1, <2>2 DEF Types
<1>3. Progress
  BY <1>1, Counts DEF Init, Progress
<1>4. Blame /\ Ended
  BY <1>1 DEF Init, Blame, Ended
<1> QED
  BY <1>2, <1>3, <1>4 DEF Inv

-----------------------------------------------------------------------------
(* The steps that change nothing of this but, perhaps, where a goroutine   *)
(* is.                                                                     *)
LEMMA Elsewhere ==
  ASSUME Inv,
         at' \in [Threads -> {"next", "body", "passed", "failed", "unborn", "gone"}],
         at'[Main] = at[Main],
         UNCHANGED <<test, inTest, report, exit, failed, strayed>>
  PROVE  Inv'
BY DEF Inv, Types, Progress, Blame, Ended

LEMMA StartTestInv ==
  ASSUME Inv, exit = "running", StartTest
  PROVE  Inv'
<1>1. /\ test < NTests /\ test' = test + 1 /\ inTest' = TRUE
      /\ at[Main] = "next" /\ at' = [at EXCEPT ![Main] = "body"]
      /\ UNCHANGED <<report, exit, failed, strayed>>
  BY DEF StartTest, Goto
<1>2. at'[Main] = "body"
  BY <1>1 DEF Inv, Types, Threads
<1>3. Types'
  BY <1>1, <1>2, Counts DEF Inv, Types
<1>4. Progress'
  <2>1. test + 1 \in 1 .. NTests
    BY <1>1, Counts DEF Inv, Types
  <2>2. \A i \in 1 .. NTests : i < test + 1 <=> i < test \/ i = test
    BY Counts DEF Inv, Types
  <2> QED
    BY <1>1, <1>2, <2>1, <2>2 DEF Inv, Progress
<1>5. Blame'
  BY <1>1, <1>2 DEF Inv, Blame
<1> QED
  BY <1>1, <1>3, <1>4, <1>5 DEF Inv, Ended

LEMMA TestReturnsInv ==
  ASSUME Inv, exit = "running", TestReturns
  PROVE  Inv'
<1>1. /\ inTest' = FALSE /\ at[Main] = "body" /\ at' = [at EXCEPT ![Main] = "passed"]
      /\ UNCHANGED <<test, report, exit, failed, strayed>>
  BY DEF TestReturns, EndTest
<1>2. at'[Main] = "passed"
  BY <1>1 DEF Inv, Types, Threads
<1>3. Types'
  BY <1>1, <1>2 DEF Inv, Types
<1>4. Progress' /\ Blame'
  BY <1>1, <1>2 DEF Inv, Progress, Blame
<1> QED
  BY <1>1, <1>3, <1>4 DEF Inv, Ended

LEMMA ReportOneInv ==
  ASSUME Inv, exit = "running", ReportOne
  PROVE  Inv'
<1>1. /\ at[Main] \in {"passed", "failed"}
      /\ report' = [report EXCEPT ![test] = at[Main]]
      /\ at' = [at EXCEPT ![Main] = "next"]
      /\ UNCHANGED <<test, inTest, exit, failed, strayed>>
  BY DEF ReportOne, Goto
<1>2. at'[Main] = "next"
  BY <1>1 DEF Inv, Types, Threads
<1>3. test \in 1 .. NTests /\ report[test] = "none"
  BY <1>1, Counts DEF Inv, Types, Progress
<1>4. /\ report'[test] = at[Main]
      /\ \A i \in 1 .. NTests : i # test => report'[i] = report[i]
  BY <1>1, <1>3 DEF Inv, Types
<1>5. Types'
  BY <1>1, <1>2, <1>3 DEF Inv, Types
<1>6. Progress'
  <2> SUFFICES ASSUME NEW i \in 1 .. NTests
               PROVE  report'[i] # "none" <=> i < test \/ i = test
    BY <1>1, <1>2 DEF Inv, Progress
  <2>1. CASE i = test
    BY <1>1, <1>4, <2>1
  <2>2. CASE i # test
    BY <1>1, <1>4, <2>2 DEF Inv, Progress
  <2> QED
    BY <2>1, <2>2
<1>7. Blame'
  <2>1. ASSUME NEW i \in failed
        PROVE  i \in 1 .. NTests /\ report'[i] = "failed"
    <3>1. i \in 1 .. NTests /\ (report[i] = "failed" \/ (i = test /\ at[Main] = "failed"))
      BY DEF Inv, Blame
    <3>2. CASE i = test
      BY <1>3, <1>4, <3>1, <3>2
    <3>3. CASE i # test
      BY <1>4, <3>1, <3>3
    <3> QED
      BY <3>2, <3>3
  <2>2. ASSUME ~strayed, NEW i \in 1 .. NTests, report'[i] = "failed"
        PROVE  i \in failed
    <3>1. CASE i = test
      BY <1>4, <2>2, <3>1 DEF Inv, Blame
    <3>2. CASE i # test
      BY <1>4, <2>2, <3>2 DEF Inv, Blame
    <3> QED
      BY <3>1, <3>2
  <2> QED
    BY <1>1, <1>2, <2>1, <2>2 DEF Blame
<1> QED
  BY <1>1, <1>5, <1>6, <1>7 DEF Inv, Ended

LEMMA SummaryInv ==
  ASSUME Inv, exit = "running", Summary
  PROVE  Inv'
<1>1. /\ at[Main] = "next" /\ test = NTests
      /\ exit' \in {"0", "1", "2"}
      /\ exit' = "0" => \A i \in 1 .. NTests : report[i] # "failed"
      /\ UNCHANGED <<at, test, inTest, report, failed, strayed>>
  BY DEF Summary
<1>2. \A i \in 1 .. NTests : report[i] # "none"
  BY <1>1, Counts DEF Inv, Progress
<1>3. exit' = "0" => \A i \in 1 .. NTests : report[i] = "passed"
  BY <1>1, <1>2 DEF Inv, Types
<1>4. Types' /\ Progress' /\ Blame'
  BY <1>1 DEF Inv, Types, Progress, Blame
<1> QED
  BY <1>1, <1>3, <1>4 DEF Inv, Ended

-----------------------------------------------------------------------------
(* vader_panic, on the thread of the test and on others. *)
LEMMA PanicInTestInv ==
  ASSUME Inv, exit = "running", PanicInTest
  PROVE  Inv'
<1>1. /\ inTest /\ inTest' = FALSE /\ at' = [at EXCEPT ![Main] = "failed"]
      /\ failed' = failed \cup {test}
      /\ UNCHANGED <<test, report, exit, strayed>>
  BY DEF PanicInTest, EndTest
<1>2. at'[Main] = "failed" /\ at[Main] = "body" /\ test \in 1 .. NTests
  BY <1>1 DEF Inv, Types, Threads, Progress
<1>3. Types'
  BY <1>1, <1>2 DEF Inv, Types
<1>4. Progress' /\ Blame'
  BY <1>1, <1>2 DEF Inv, Progress, Blame
<1> QED
  BY <1>1, <1>3, <1>4 DEF Inv, Ended

LEMMA PanicElsewhereInv ==
  ASSUME Inv, exit = "running", NEW g \in Threads, PanicElsewhere(g)
  PROVE  Inv'
<1>1. /\ g # Main /\ inTest /\ strayed' = TRUE
      /\ UNCHANGED <<test, report, failed>>
  BY DEF PanicElsewhere
<1>2. at[Main] = "body"
  BY <1>1 DEF Inv, Progress
<1>3. CASE exit' \in {"crashed", "undefined"} /\ UNCHANGED <<at, inTest>>
  BY <1>1, <1>2, <1>3 DEF Inv, Types, Progress, Blame, Ended
<1>4. CASE /\ at' = [at EXCEPT ![g] = "gone", ![Main] = "failed"]
           /\ inTest' = FALSE /\ exit' = exit
  <2>1. /\ at'[Main] = "failed"
        /\ at' \in [Threads -> {"next", "body", "passed", "failed", "unborn", "gone"}]
    BY <1>4 DEF Inv, Types, Threads
  <2>2. Types'
    BY <1>1, <1>4, <2>1 DEF Inv, Types
  <2>3. Progress' /\ Blame'
    BY <1>1, <1>2, <1>4, <2>1 DEF Inv, Progress, Blame
  <2> QED
    BY <1>1, <1>4, <2>2, <2>3 DEF Inv, Ended
<1> QED
  BY <1>1, <1>3, <1>4 DEF PanicElsewhere

(* The thread of the tests is never in its body while g_in_test is 0.      *)
LEMMA PanicOutsideInv ==
  ASSUME Inv, exit = "running", NEW t \in Threads, PanicOutside(t)
  PROVE  Inv'
<1>1. /\ ~inTest /\ at[t] = "body"
      /\ exit' = "1" /\ UNCHANGED <<at, test, inTest, report>>
  BY DEF PanicOutside, InBody
<1>2. t # Main
  BY <1>1 DEF Inv, Progress
<1>3. strayed' = TRUE /\ failed' = failed
  BY <1>2 DEF PanicOutside
<1> QED
  BY <1>1, <1>3 DEF Inv, Types, Progress, Blame, Ended

-----------------------------------------------------------------------------
LEMMA RunningInv ==
  ASSUME Inv, exit = "running", NEW t \in Threads, Running(t)
  PROVE  Inv'
<1>0. /\ at \in [Threads -> {"next", "body", "passed", "failed", "unborn", "gone"}]
      /\ Main \in Threads
  BY DEF Inv, Types, Threads
<1>1. CASE CallFunction(t) \/ CovTest(t) \/ CovRead(t)
  <2>1. UNCHANGED <<at, test, inTest, report, exit, failed, strayed>>
    BY <1>1 DEF CallFunction, CovTest, CovRead
  <2> QED
    BY <1>0, <2>1, Elsewhere
<1>2. CASE CovScan(t) \/ CovWrite(t)
  <2>1. /\ UNCHANGED <<at, test, inTest, report, failed, strayed>>
        /\ exit' \in {"crashed", "undefined"} \/ exit' = exit
    BY <1>2 DEF CovScan, CovWrite, CovStore, CovStorePast
  <2> QED
    BY <2>1 DEF Inv, Types, Progress, Blame, Ended
<1>3. CASE SpawnGoroutine(t)
  <2>1. PICK g \in Goroutines : at' = [at EXCEPT ![g] = "body"]
    BY <1>3 DEF SpawnGoroutine, Goto
  <2>2. UNCHANGED <<test, inTest, report, exit, failed, strayed>>
    BY <1>3 DEF SpawnGoroutine
  <2>3. /\ at'[Main] = at[Main]
        /\ at' \in [Threads -> {"next", "body", "passed", "failed", "unborn", "gone"}]
    BY <1>0, <2>1, Counts
  <2> QED
    BY <2>2, <2>3, Elsewhere
<1>4. CASE GoroutineReturns(t)
  <2>1. /\ t # Main /\ at' = [at EXCEPT ![t] = "gone"]
        /\ UNCHANGED <<test, inTest, report, exit, failed, strayed>>
    BY <1>4 DEF GoroutineReturns, Goto
  <2>2. /\ at'[Main] = at[Main]
        /\ at' \in [Threads -> {"next", "body", "passed", "failed", "unborn", "gone"}]
    BY <1>0, <2>1
  <2> QED
    BY <2>1, <2>2, Elsewhere
<1>5. CASE PanicElsewhere(t) \/ PanicOutside(t)
  BY <1>5, PanicElsewhereInv, PanicOutsideInv
<1> QED
  BY <1>1, <1>2, <1>3, <1>4, <1>5 DEF Running

LEMMA NextInv == Inv /\ [Next]_vars => Inv'
<1> SUFFICES ASSUME Inv, [Next]_vars PROVE Inv'
  OBVIOUS
<1>1. CASE exit = "running" /\ (StartTest \/ TestReturns \/ ReportOne \/ Summary \/ PanicInTest)
  BY <1>1, StartTestInv, TestReturnsInv, ReportOneInv, SummaryInv, PanicInTestInv
<1>2. CASE exit = "running" /\ \E t \in Threads : Running(t)
  BY <1>2, RunningInv
<1>3. CASE UNCHANGED vars
  BY <1>3 DEF vars, Inv, Types, Progress, Blame, Ended
<1> QED
  BY <1>1, <1>2, <1>3 DEF Next

LEMMA InvHolds == Spec => []Inv
BY InitInv, NextInv, PTL DEF Spec

(* A test fails because of its own asserts and of nothing else, and no     *)
(* test is left out, unless an assert fails in a goroutine (vader_panic,   *)
(* vader_test_run).                                                        *)
THEOREM TestsAreIsolated == Spec => []Isolated
<1>1. ASSUME Inv PROVE Isolated
  <2> SUFFICES ASSUME ~strayed
               PROVE  /\ \A i \in 1 .. NTests :
                           report[i] # "none" => (report[i] = "failed" <=> i \in failed)
                      /\ exit \in {"0", "1", "2"} => \A i \in 1 .. NTests : report[i] # "none"
    BY DEF Isolated
  <2>1. ASSUME NEW i \in 1 .. NTests, report[i] # "none"
        PROVE  report[i] = "failed" <=> i \in failed
    <3>1. ~(i = test /\ at[Main] = "failed")
      BY <1>1, <2>1, Counts DEF Inv, Types, Progress
    <3> QED
      BY <1>1, <3>1 DEF Inv, Blame
  <2>2. ASSUME exit \in {"0", "1", "2"}, NEW i \in 1 .. NTests
        PROVE  report[i] # "none"
    <3>1. test = NTests /\ at[Main] = "next"
      BY <1>1, <2>2 DEF Inv, Ended
    <3> QED
      BY <1>1, <3>1, Counts DEF Inv, Progress
  <2> QED
    BY <2>1, <2>2
<1> QED
  BY <1>1, InvHolds, PTL

(* Exit code 0 is never reached with a failed test, whatever goroutines do *)
(* (vader_test_summary).                                                   *)
THEOREM GreenIsHonest == Spec => []GreenMeansPassed
<1>1. ASSUME Inv PROVE GreenMeansPassed
  <2> SUFFICES ASSUME exit = "0"
               PROVE  failed = {} /\ \A i \in 1 .. NTests : report[i] = "passed"
    BY DEF GreenMeansPassed
  <2>1. (\A i \in 1 .. NTests : report[i] = "passed") /\ at[Main] = "next"
    <3>1. Ended
      BY <1>1 DEF Inv
    <3> QED
      BY <3>1 DEF Ended
  <2>2. failed = {}
    BY <1>1, <2>1 DEF Inv, Blame
  <2> QED
    BY <2>1, <2>2
<1> QED
  BY <1>1, InvHolds, PTL

-----------------------------------------------------------------------------
(* The coverage table.                                                     *)

Seen(n) == {gHit[i] : i \in 0 .. n - 1}

Covs ==
  {NoCov} \cup [stage : {"scan", "test", "read"}, fn : Funcs]
    \cup [stage : {"write"}, fn : Funcs, n : Nat, left : SUBSET {"entry", "count"}]

(* A thread that was not born is in no call of vader_cov, nor is the thread *)
(* of the tests outside the body of a test.                                 *)
CovTypes ==
  /\ cov \in [Threads -> Covs]
  /\ gHit \in [0 .. CovMax - 1 -> Funcs \cup {NoFunc}]
  /\ gNhit \in Nat
  /\ entered \subseteq Funcs
  /\ at[Main] # "body" => cov[Main] = NoCov
  /\ \A g \in Goroutines : at[g] = "unborn" => cov[g] = NoCov

(* As long as no goroutine was started, the first n slots hold n functions, *)
(* and these are all that were entered, unless the table is full, but for   *)
(* the one that the thread of the tests may be about to add.                *)
Holds(n) ==
  /\ n \in 0 .. CovMax
  /\ Seen(n) \subseteq Funcs
  /\ Cardinality(Seen(n)) = n

Recorded(fs) == fs \subseteq entered /\ (gNhit < CovMax => entered = fs)

Counted ==
  LET c == cov[Main] IN
  /\ c.stage # "write" => Holds(gNhit)
  /\ c.stage = "none" => Recorded(Seen(gNhit))
  /\ c.stage \in {"scan", "test", "read"} => Recorded(Seen(gNhit) \cup {c.fn})
  /\ c.stage \in {"test", "read"} => c.fn \notin Seen(gNhit)
  /\ c.stage = "read" => gNhit < CovMax
  /\ c.stage = "write" =>
       /\ Holds(c.n) /\ c.n < CovMax
       /\ entered = Seen(c.n) \cup {c.fn}
       /\ c.fn \notin Seen(c.n)
       /\ c.left # {}
       /\ gNhit = IF "count" \in c.left THEN c.n ELSE c.n + 1
       /\ "entry" \notin c.left => gHit[c.n] = c.fn

(* What the exit code says when the process is over. *)
Verdict ==
  /\ exit \in {"0", "2"} => at[Main] = "next" /\ failed = {}
  /\ Quiet /\ exit = "0" => ~(Gate /\ BelowMinimum)
  /\ Quiet /\ exit = "2" => Gate /\ BelowMinimum

CovInv == CovTypes /\ (Quiet => Counted) /\ Verdict

LEMMA FuncsFinite ==
  /\ IsFiniteSet(Funcs) /\ Cardinality(Funcs) \in Nat /\ CovMax \in Nat
  /\ NoFunc \notin Funcs /\ MinCov \in 0 .. 100
BY HarnessAssumption, FS_CardinalityType DEF HarnessAssumption

(* One more function in the table. *)
LEMMA OneMore ==
  ASSUME NEW S \in SUBSET Funcs, NEW f \in Funcs, f \notin S
  PROVE  /\ Cardinality(S \cup {f}) = Cardinality(S) + 1
         /\ Cardinality(S) \in Nat
         /\ Cardinality(S) < Cardinality(Funcs)
<1>1. IsFiniteSet(S) /\ IsFiniteSet(S \cup {f})
  BY FuncsFinite, FS_Subset, S \cup {f} \subseteq Funcs
<1>2. Cardinality(S) \in Nat /\ Cardinality(S \cup {f}) = Cardinality(S) + 1
  BY <1>1, FS_AddElement, FS_CardinalityType
<1>3. Cardinality(S \cup {f}) <= Cardinality(Funcs)
  BY FuncsFinite, FS_Subset, S \cup {f} \subseteq Funcs
<1> QED
  BY <1>2, <1>3, FuncsFinite

(* The table was filled below n only, or at n as well. *)
LEMMA SeenSame ==
  ASSUME NEW n \in Nat, \A i \in 0 .. n - 1 : gHit'[i] = gHit[i]
  PROVE  Seen(n)' = Seen(n)
BY DEF Seen

LEMMA SeenMore ==
  ASSUME NEW n \in Nat
  PROVE  Seen(n + 1)' = Seen(n)' \cup {gHit'[n]}
<1>1. 0 .. (n + 1) - 1 = (0 .. n - 1) \cup {n}
  OBVIOUS
<1> QED
  BY <1>1 DEF Seen

LEMMA CovInit == Init => CovInv
<1> SUFFICES ASSUME Init PROVE CovInv
  OBVIOUS
<1>1. cov[Main] = NoCov /\ Seen(0) = {} /\ at[Main] = "next"
  BY DEF Init, Threads, Seen
<1>2. CovTypes
  BY <1>1 DEF Init, CovTypes, Covs, Threads
<1>3. Holds(0)
  BY <1>1, FuncsFinite, FS_EmptySet DEF Holds
<1>4. Counted
  BY <1>1, <1>3 DEF Init, Counted, NoCov, Recorded
<1>5. Verdict
  BY DEF Init, Verdict
<1> QED
  BY <1>2, <1>4, <1>5 DEF CovInv

-----------------------------------------------------------------------------
(* The steps that leave the table and the calls of vader_cov alone. *)
LEMMA CovElsewhere ==
  ASSUME Inv, CovInv,
         \A t \in Goroutines : at'[t] = "unborn" => at[t] = "unborn",
         at'[Main] # "body" => cov[Main] = NoCov,
         UNCHANGED <<cov, gHit, gNhit, entered>>, exit' \notin {"0", "2"}
  PROVE  CovInv'
<1>1. CovTypes'
  BY DEF CovInv, CovTypes
<1>2. ASSUME Quiet'
      PROVE  Counted'
  <2>1. Quiet
    BY <1>2 DEF Quiet
  <2>2. Counted
    BY <2>1 DEF CovInv
  <2> QED
    BY <2>2 DEF Counted, Holds, Seen, Recorded
<1>3. Verdict'
  BY DEF Verdict
<1> QED
  BY <1>1, <1>2, <1>3 DEF CovInv

(* A step in a call of vader_cov of the thread t, of which only the thread *)
(* of the tests has any as long as no goroutine was started.               *)
LEMMA CovStep ==
  ASSUME Inv, CovInv, NEW t \in Threads, NEW c \in Covs,
         at[t] # "unborn", t = Main => at[t] = "body", UNCHANGED at, exit' \notin {"0", "2"},
         cov' = [cov EXCEPT ![t] = c], gNhit' \in Nat, entered' \subseteq Funcs,
         gHit' \in [0 .. CovMax - 1 -> Funcs \cup {NoFunc}],
         Quiet /\ Counted /\ t = Main /\ cov'[Main] = c => Counted'
  PROVE  CovInv'
<1>1. CovTypes'
  BY Counts DEF CovInv, CovTypes, Threads
<1>2. ASSUME Quiet'
      PROVE  Counted'
  <2>1. Quiet /\ Counted
    BY <1>2 DEF Quiet, CovInv
  <2>2. t = Main
    BY <2>1 DEF Quiet, Threads
  <2> QED
    BY <2>1, <2>2 DEF CovInv, CovTypes
<1>3. Verdict'
  BY DEF Verdict
<1> QED
  BY <1>1, <1>2, <1>3 DEF CovInv

LEMMA InCov ==
  ASSUME Inv, CovInv, NEW t \in Threads, cov[t].stage # "none"
  PROVE  at[t] # "unborn" /\ (t = Main => at[t] = "body")
BY DEF CovInv, CovTypes, Threads, NoCov

LEMMA CallFunctionCov ==
  ASSUME Inv, CovInv, exit = "running", NEW t \in Threads, CallFunction(t)
  PROVE  CovInv'
<1>1. PICK f, c :
        /\ f \in Funcs
        /\ c = [stage |-> "scan", fn |-> f] /\ cov' = [cov EXCEPT ![t] = c]
        /\ entered' = entered \cup {f}
  BY DEF CallFunction
<1>2. /\ at[t] = "body" /\ cov[t] = NoCov /\ exit' = "running"
      /\ UNCHANGED <<at, gHit, gNhit>>
  BY DEF CallFunction, InBody
<1>3. /\ c \in Covs /\ gNhit' \in Nat /\ entered' \subseteq Funcs
      /\ gHit' \in [0 .. CovMax - 1 -> Funcs \cup {NoFunc}]
  BY <1>1, <1>2 DEF Covs, CovInv, CovTypes
<1>4. ASSUME Counted, t = Main, cov'[Main] = c
      PROVE  Counted'
  <2>1. cov[Main].stage = "none"
    BY <1>2, <1>4 DEF NoCov
  <2>2. Holds(gNhit) /\ Recorded(Seen(gNhit))
    BY <1>4, <2>1 DEF Counted
  <2>3. (Seen(gNhit))' = Seen(gNhit) /\ Holds(gNhit)'
    BY <1>2, <2>2 DEF Seen, Holds
  <2>4. Recorded(Seen(gNhit) \cup {f})'
    BY <1>1, <1>2, <2>2, <2>3 DEF Recorded
  <2> QED
    BY <1>1, <1>2, <1>4, <2>3, <2>4 DEF Counted
<1> QED
  BY <1>1, <1>2, <1>3, <1>4, CovStep

(* The scan finds what the counted slots hold, and with no goroutine all   *)
(* of these were written and lie in the table.                             *)
LEMMA ScanSees ==
  ASSUME Holds(gNhit), gHit \in [0 .. CovMax - 1 -> Funcs \cup {NoFunc}], NEW f \in Funcs
  PROVE  (Scanned(f) <=> f \in Seen(gNhit)) /\ ~NullBefore(f) /\ ~(gNhit > CovMax)
<1>1. gNhit \in 0 .. CovMax /\ CovMax \in Nat /\ NoFunc \notin Funcs
  BY FuncsFinite DEF Holds
<1>2. \A i \in DOMAIN gHit : InScan(i) <=> i \in 0 .. gNhit - 1
  BY <1>1 DEF InScan
<1>3. \A i \in 0 .. gNhit - 1 : i \in DOMAIN gHit /\ gHit[i] \in Funcs
  BY <1>1 DEF Holds, Seen
<1>4. Scanned(f) <=> f \in Seen(gNhit)
  BY <1>2, <1>3 DEF Scanned, Seen
<1>5. ~NullBefore(f)
  BY <1>1, <1>2, <1>3 DEF NullBefore
<1> QED
  BY <1>1, <1>4, <1>5

LEMMA CovScanCov ==
  ASSUME Inv, CovInv, exit = "running", NEW t \in Threads, CovScan(t)
  PROVE  CovInv'
<1>1. /\ cov[t].stage = "scan" /\ at[t] # "unborn" /\ (t = Main => at[t] = "body")
      /\ UNCHANGED <<at, gHit, gNhit, entered>>
  BY InCov DEF CovScan
<1>2. CASE exit' = "crashed" /\ UNCHANGED cov
  BY <1>1, <1>2, CovElsewhere DEF CovInv, CovTypes
<1>3. CASE ~(exit' = "crashed" /\ UNCHANGED cov)
  <2>1. cov[t] \in [stage : {"scan", "test", "read"}, fn : Funcs]
    BY <1>1 DEF CovInv, CovTypes, Covs, NoCov
  <2>2. [cov[t] EXCEPT !.stage = "test"] = [stage |-> "test", fn |-> cov[t].fn]
    BY <2>1
  <2>3. /\ cov' = [cov EXCEPT ![t] =
                     IF Scanned(cov[t].fn) \/ (~Scanned(cov[t].fn) /\ gNhit > CovMax)
                     THEN NoCov ELSE [cov[t] EXCEPT !.stage = "test"]]
        /\ exit' = exit
    BY <1>3 DEF CovScan
  <2>4. PICK f, c :
          /\ f \in Funcs
          /\ f = cov[t].fn
          /\ c = IF Scanned(f) \/ (~Scanned(f) /\ gNhit > CovMax) THEN NoCov
                 ELSE [stage |-> "test", fn |-> f]
          /\ cov' = [cov EXCEPT ![t] = c]
    BY <2>1, <2>2, <2>3
  <2>5. /\ c \in Covs /\ gNhit' \in Nat /\ entered' \subseteq Funcs
        /\ gHit' \in [0 .. CovMax - 1 -> Funcs \cup {NoFunc}]
    BY <1>1, <2>4 DEF Covs, CovInv, CovTypes
  <2>6. ASSUME Counted, t = Main, cov'[Main] = c
        PROVE  Counted'
    <3>1. Holds(gNhit) /\ Recorded(Seen(gNhit) \cup {f})
      BY <1>1, <2>4, <2>6 DEF Counted
    <3>2. /\ (Seen(gNhit))' = Seen(gNhit) /\ Holds(gNhit)'
          /\ \A fs : Recorded(fs) <=> Recorded(fs)'
      BY <1>1, <3>1 DEF Seen, Holds, Recorded
    <3>3. c = IF f \in Seen(gNhit) THEN NoCov ELSE [stage |-> "test", fn |-> f]
      BY <2>4, <3>1, ScanSees DEF CovInv, CovTypes
    <3>4. CASE f \in Seen(gNhit)
      <4>1. c = NoCov /\ Recorded(Seen(gNhit))
        BY <3>1, <3>3, <3>4 DEF Recorded
      <4>2. Recorded(Seen(gNhit))'
        BY <1>1, <4>1 DEF Seen, Recorded
      <4> QED
        BY <2>6, <3>2, <4>1, <4>2 DEF Counted, NoCov
    <3>5. CASE f \notin Seen(gNhit)
      <4>1. c = [stage |-> "test", fn |-> f]
        BY <3>3, <3>5
      <4>2. (Recorded(Seen(gNhit) \cup {f}))'
        BY <1>1, <3>1 DEF Seen, Recorded
      <4> QED
        BY <2>6, <3>2, <3>5, <4>1, <4>2 DEF Counted
    <3> QED
      BY <3>4, <3>5
  <2> QED
    BY <1>1, <2>3, <2>4, <2>5, <2>6, CovStep
<1> QED
  BY <1>2, <1>3

LEMMA CovTestCov ==
  ASSUME Inv, CovInv, exit = "running", NEW t \in Threads, CovTest(t)
  PROVE  CovInv'
<1>1. /\ cov[t].stage = "test" /\ at[t] # "unborn" /\ (t = Main => at[t] = "body")
      /\ UNCHANGED <<at, gHit, gNhit, entered>> /\ exit' = exit
  BY InCov DEF CovTest
<1>2. cov[t] \in [stage : {"scan", "test", "read"}, fn : Funcs]
  BY <1>1 DEF CovInv, CovTypes, Covs, NoCov
<1>3. [cov[t] EXCEPT !.stage = "read"] = [stage |-> "read", fn |-> cov[t].fn]
  BY <1>2
<1>4. PICK f, c :
        /\ f \in Funcs
        /\ f = cov[t].fn
        /\ c = IF gNhit < CovMax THEN [stage |-> "read", fn |-> f] ELSE NoCov
        /\ cov' = [cov EXCEPT ![t] = c]
  BY <1>2, <1>3 DEF CovTest
<1>5. /\ c \in Covs /\ gNhit' \in Nat /\ entered' \subseteq Funcs
      /\ gHit' \in [0 .. CovMax - 1 -> Funcs \cup {NoFunc}]
  BY <1>1, <1>4 DEF Covs, CovInv, CovTypes
<1>6. ASSUME Counted, t = Main, cov'[Main] = c
      PROVE  Counted'
  <2>1. Holds(gNhit) /\ Recorded(Seen(gNhit) \cup {f}) /\ f \notin Seen(gNhit)
    BY <1>1, <1>4, <1>6 DEF Counted
  <2>2. (Seen(gNhit))' = Seen(gNhit) /\ Holds(gNhit)'
    BY <1>1, <2>1 DEF Seen, Holds
  <2>3. CASE gNhit < CovMax
    <3>1. c = [stage |-> "read", fn |-> f] /\ gNhit' < CovMax
      BY <1>1, <1>4, <2>3
    <3>2. (Recorded(Seen(gNhit) \cup {f}))'
      BY <1>1, <2>1 DEF Seen, Recorded
    <3> QED
      BY <1>6, <2>1, <2>2, <3>1, <3>2 DEF Counted
  <2>4. CASE ~(gNhit < CovMax)
    <3>1. c = NoCov
      BY <1>4, <2>4
    <3>2. Recorded(Seen(gNhit))'
      BY <1>1, <2>1, <2>4 DEF Seen, Recorded
    <3> QED
      BY <1>6, <2>2, <3>1, <3>2 DEF Counted, NoCov
  <2> QED
    BY <2>3, <2>4
<1> QED
  BY <1>1, <1>4, <1>5, <1>6, CovStep

LEMMA CovReadCov ==
  ASSUME Inv, CovInv, exit = "running", NEW t \in Threads, CovRead(t)
  PROVE  CovInv'
<1>1. /\ cov[t].stage = "read" /\ at[t] # "unborn" /\ (t = Main => at[t] = "body")
      /\ UNCHANGED <<at, gHit, gNhit, entered>> /\ exit' = exit
  BY InCov DEF CovRead
<1>2. cov[t] \in [stage : {"scan", "test", "read"}, fn : Funcs]
  BY <1>1 DEF CovInv, CovTypes, Covs, NoCov
<1>3. PICK f, n, c :
        /\ f \in Funcs
        /\ f = cov[t].fn /\ n = gNhit
        /\ c = [stage |-> "write", fn |-> f, n |-> n, left |-> {"entry", "count"}]
        /\ cov' = [cov EXCEPT ![t] = c]
  BY <1>2 DEF CovRead
<1>4. /\ n \in Nat /\ c \in Covs /\ gNhit' \in Nat /\ entered' \subseteq Funcs
      /\ gHit' \in [0 .. CovMax - 1 -> Funcs \cup {NoFunc}]
  BY <1>1, <1>3 DEF Covs, CovInv, CovTypes
<1>5. ASSUME Counted, t = Main, cov'[Main] = c
      PROVE  Counted'
  <2>1. Holds(n) /\ entered = Seen(n) \cup {f} /\ f \notin Seen(n) /\ n < CovMax
    BY <1>1, <1>3, <1>5 DEF Counted, Recorded
  <2>2. Seen(n)' = Seen(n) /\ Holds(n)'
    BY <1>1, <2>1 DEF Seen, Holds
  <2>3. /\ c.stage = "write" /\ c.n = n /\ c.fn = f /\ c.left = {"entry", "count"}
    BY <1>3
  <2> QED
    BY <1>1, <1>3, <1>5, <2>1, <2>2, <2>3 DEF Counted
<1> QED
  BY <1>1, <1>3, <1>4, <1>5, CovStep

LEMMA CovStoreCov ==
  ASSUME Inv, CovInv, exit = "running", NEW t \in Threads, NEW store, CovStore(t, store),
         cov[t].stage = "write", at[t] # "unborn", t = Main => at[t] = "body",
         UNCHANGED <<at, entered>>
  PROVE  CovInv'
<1>2. cov[t] \in [stage : {"write"}, fn : Funcs, n : Nat, left : SUBSET {"entry", "count"}]
  BY DEF CovInv, CovTypes, Covs, NoCov
<1>3. /\ store \in cov[t].left
      /\ store = "entry" => cov[t].n < CovMax
      /\ gHit'  = IF store = "entry" THEN [gHit EXCEPT ![cov[t].n] = cov[t].fn] ELSE gHit
      /\ gNhit' = IF store = "count" THEN cov[t].n + 1 ELSE gNhit
      /\ cov' = [cov EXCEPT ![t] = IF cov[t].left = {store} THEN NoCov
                                   ELSE [cov[t] EXCEPT !.left = @ \ {store}]]
      /\ exit' = exit
  BY DEF CovStore
<1>4. [cov[t] EXCEPT !.left = @ \ {store}] =
        [stage |-> "write", fn |-> cov[t].fn, n |-> cov[t].n, left |-> cov[t].left \ {store}]
  BY <1>2
<1>f. PICK f : f = cov[t].fn
  OBVIOUS
<1>n. PICK n : n = cov[t].n
  OBVIOUS
<1>l. PICK L : L = cov[t].left
  OBVIOUS
<1>c. PICK c : c = IF L = {store} THEN NoCov
                   ELSE [stage |-> "write", fn |-> f, n |-> n, left |-> L \ {store}]
  OBVIOUS
<1>5. /\ f \in Funcs /\ n \in Nat /\ L \in SUBSET {"entry", "count"} /\ store \in L
      /\ store = "entry" => n < CovMax
      /\ gHit'  = IF store = "entry" THEN [gHit EXCEPT ![n] = f] ELSE gHit
      /\ gNhit' = IF store = "count" THEN n + 1 ELSE gNhit
      /\ f = cov[t].fn /\ n = cov[t].n /\ L = cov[t].left
      /\ c = IF L = {store} THEN NoCov
             ELSE [stage |-> "write", fn |-> f, n |-> n, left |-> L \ {store}]
      /\ cov' = [cov EXCEPT ![t] = c]
  <2>1. cov' = [cov EXCEPT ![t] = c]
    BY <1>3, <1>4, <1>f, <1>n, <1>l, <1>c
  <2>2. f \in Funcs /\ n \in Nat /\ L \in SUBSET {"entry", "count"}
    BY <1>2, <1>f, <1>n, <1>l
  <2> QED
    BY <1>3, <1>f, <1>n, <1>l, <1>c, <2>1, <2>2
<1>6. /\ c \in Covs /\ gNhit' \in Nat /\ entered' \subseteq Funcs
      /\ gHit' \in [0 .. CovMax - 1 -> Funcs \cup {NoFunc}]
  <2>1. gHit \in [0 .. CovMax - 1 -> Funcs \cup {NoFunc}] /\ gNhit \in Nat /\ entered \subseteq Funcs
    BY DEF CovInv, CovTypes
  <2> QED
    BY <1>5, <2>1, FuncsFinite DEF Covs
<1>7. ASSUME Counted, t = Main, cov'[Main] = c
      PROVE  Counted'
  <2>1. /\ gHit \in [0 .. CovMax - 1 -> Funcs \cup {NoFunc}]
        /\ Holds(n) /\ n < CovMax /\ entered = Seen(n) \cup {f} /\ f \notin Seen(n)
        /\ gNhit = IF "count" \in L THEN n ELSE n + 1
        /\ "entry" \notin L => gHit[n] = f
    BY <1>5, <1>7 DEF Counted, CovInv, CovTypes
  <2>2. n \in 0 .. CovMax - 1
    BY <1>5, <2>1, FuncsFinite
  <2>3. /\ gHit' \in [0 .. CovMax - 1 -> Funcs \cup {NoFunc}]
        /\ \A i \in 0 .. n - 1 : gHit'[i] = gHit[i]
        /\ store = "entry" \/ "entry" \notin L => gHit'[n] = f
    BY <1>5, <2>1, <2>2
  <2>4. Seen(n)' = Seen(n)
    BY <1>5, <2>3, SeenSame
  <2>5. Holds(n)'
    BY <2>1, <2>4 DEF Holds
  <2>6. CASE L # {store}
    <3>1. /\ c.stage = "write" /\ c.fn = f /\ c.n = n /\ c.left = L \ {store}
          /\ L \ {store} # {}
      BY <1>5, <2>6
    <3>2. gNhit' = IF "count" \in L \ {store} THEN n ELSE n + 1
      BY <1>5, <2>1
    <3>3. "entry" \notin L \ {store} => gHit'[n] = f
      BY <2>3
    <3> QED
      BY <1>7, <2>1, <2>3, <2>4, <2>5, <3>1, <3>2, <3>3 DEF Counted
  <2>7. CASE L = {store}
    <3>1. c = NoCov /\ gNhit' = n + 1 /\ gHit'[n] = f
      BY <1>5, <2>1, <2>3, <2>7
    <3>2. Seen(n + 1)' = Seen(n) \cup {f}
      BY <1>5, <2>4, <3>1, SeenMore
    <3>3. Cardinality(Seen(n) \cup {f}) = n + 1
      BY <1>5, <2>1, OneMore DEF Holds
    <3>4. PICK k \in Nat : k = n + 1 /\ k \in 0 .. CovMax
      BY <2>2, FuncsFinite
    <3>5. /\ Seen(k)' = Seen(n) \cup {f} /\ Seen(n) \subseteq Funcs
          /\ Cardinality(Seen(n) \cup {f}) = k
      BY <2>1, <3>2, <3>3, <3>4 DEF Holds
    <3>6. Holds(k)'
      BY <1>5, <3>4, <3>5 DEF Holds
    <3>7. gNhit' = k /\ cov'[Main].stage = "none" /\ entered' = Seen(k)'
      <4>1. gNhit' = k
        BY <3>1, <3>4
      <4>2. cov'[Main].stage = "none"
        BY <1>7, <3>1 DEF NoCov
      <4>3. entered' = Seen(k)'
        BY <2>1, <3>5
      <4> QED
        BY <4>1, <4>2, <4>3
    <3>8. Holds(gNhit)' /\ Recorded(Seen(gNhit))'
      BY <3>6, <3>7 DEF Holds, Seen, Recorded
    <3> QED
      BY <2>3, <3>7, <3>8 DEF Counted
  <2> QED
    BY <2>6, <2>7
<1> QED
  BY <1>3, <1>5, <1>6, <1>7, CovStep

LEMMA CovWriteCov ==
  ASSUME Inv, CovInv, exit = "running", NEW t \in Threads, CovWrite(t)
  PROVE  CovInv'
<1>1. /\ cov[t].stage = "write" /\ at[t] # "unborn" /\ (t = Main => at[t] = "body")
      /\ UNCHANGED <<at, entered>>
  BY InCov DEF CovWrite
<1>2. CASE CovStorePast(t)
  BY <1>1, <1>2, CovElsewhere DEF CovStorePast, CovInv, CovTypes
<1>3. ASSUME NEW store \in {"entry", "count"}, CovStore(t, store)
      PROVE  CovInv'
  BY <1>1, <1>3, CovStoreCov
<1> QED
  BY <1>2, <1>3 DEF CovWrite

LEMMA RunningCov ==
  ASSUME Inv, CovInv, exit = "running", NEW t \in Threads, Running(t)
  PROVE  CovInv'
<1>0. /\ at \in [Threads -> {"next", "body", "passed", "failed", "unborn", "gone"}]
      /\ Main \in Threads /\ Main \notin Goroutines
      /\ at[Main] # "body" => cov[Main] = NoCov
  BY Counts DEF Inv, Types, Threads, CovInv, CovTypes
<1>1. CASE CallFunction(t) \/ CovScan(t) \/ CovTest(t) \/ CovRead(t) \/ CovWrite(t)
  BY <1>1, CallFunctionCov, CovScanCov, CovTestCov, CovReadCov, CovWriteCov
<1>2. CASE SpawnGoroutine(t)
  <2>1. PICK g \in Goroutines : at' = [at EXCEPT ![g] = "body"]
    BY <1>2 DEF SpawnGoroutine, Goto
  <2>2. UNCHANGED <<cov, gHit, gNhit, entered>> /\ exit' = "running"
    BY <1>2 DEF SpawnGoroutine
  <2>3. at'[Main] = at[Main] /\ \A h \in Goroutines : at'[h] = "unborn" => at[h] = "unborn"
    BY <1>0, <2>1 DEF Threads
  <2> QED
    BY <1>0, <2>2, <2>3, CovElsewhere
<1>3. CASE GoroutineReturns(t)
  <2>1. t # Main /\ at' = [at EXCEPT ![t] = "gone"]
    BY <1>3 DEF GoroutineReturns, Goto
  <2>2. UNCHANGED <<cov, gHit, gNhit, entered>> /\ exit' = "running"
    BY <1>3 DEF GoroutineReturns
  <2>3. at'[Main] = at[Main] /\ \A h \in Goroutines : at'[h] = "unborn" => at[h] = "unborn"
    BY <1>0, <2>1 DEF Threads
  <2> QED
    BY <1>0, <2>2, <2>3, CovElsewhere
<1>4. CASE PanicElsewhere(t)
  <2>1. /\ t # Main /\ at[t] = "body" /\ UNCHANGED <<gHit, gNhit, entered>>
        /\ exit' \in {"crashed", "undefined", "running"}
    BY <1>4 DEF PanicElsewhere, InBody
  <2>2. t \in Goroutines
    BY <2>1 DEF Threads
  <2>3. CASE UNCHANGED <<at, cov>>
    BY <1>0, <2>1, <2>3, CovElsewhere
  <2>4. CASE /\ at' = [at EXCEPT ![t] = "gone", ![Main] = "failed"]
             /\ cov' = [cov EXCEPT ![Main] = NoCov]
    <3>1. /\ at'[t] = "gone"
          /\ \A h \in Goroutines : at'[h] = "unborn" => at[h] = "unborn" /\ cov'[h] = cov[h]
      BY <1>0, <2>1, <2>4 DEF Threads, CovInv, CovTypes
    <3>2. CovTypes'
      BY <1>0, <2>1, <2>4, <3>1 DEF CovInv, CovTypes, Covs
    <3>3. ~Quiet'
      BY <2>2, <3>1 DEF Quiet
    <3>4. Verdict'
      BY <2>1 DEF Verdict
    <3> QED
      BY <3>2, <3>3, <3>4 DEF CovInv
  <2> QED
    BY <1>4, <2>3, <2>4 DEF PanicElsewhere
<1>5. CASE PanicOutside(t)
  <2>1. UNCHANGED <<at, cov, gHit, gNhit, entered>> /\ exit' = "1"
    BY <1>5 DEF PanicOutside
  <2> QED
    BY <1>0, <2>1, CovElsewhere
<1> QED
  BY <1>1, <1>2, <1>3, <1>4, <1>5 DEF Running

LEMMA SummaryCov ==
  ASSUME Inv, CovInv, exit = "running", Summary
  PROVE  CovInv'
<1>1. /\ at[Main] = "next"
      /\ UNCHANGED <<at, cov, gHit, gNhit, report, failed, entered>>
      /\ exit' = IF \E i \in 1 .. NTests : report[i] = "failed" THEN "1"
                 ELSE IF Gate /\ BelowMinimum THEN "2" ELSE "0"
  BY DEF Summary
<1>2. exit' \in {"0", "2"} => failed = {}
  BY <1>1 DEF Inv, Blame
<1>3. BelowMinimum' <=> BelowMinimum
  BY <1>1 DEF BelowMinimum, gNall, InTable
<1>4. Verdict'
  BY <1>1, <1>2, <1>3 DEF Verdict
<1>5. CovTypes' /\ (Quiet => Counted)' /\ Quiet' = Quiet
  BY <1>1 DEF CovInv, CovTypes, Quiet, Counted, Holds, Seen, Recorded
<1> QED
  BY <1>4, <1>5 DEF CovInv

LEMMA HarnessCov ==
  ASSUME Inv, CovInv, exit = "running",
         StartTest \/ TestReturns \/ ReportOne \/ PanicInTest
  PROVE  CovInv'
<1>1. /\ at \in [Threads -> {"next", "body", "passed", "failed", "unborn", "gone"}]
      /\ Main \in Threads /\ Main \notin Goroutines
  BY Counts DEF Inv, Types, Threads
<1>2. UNCHANGED <<cov, gHit, gNhit, entered>> /\ exit' = "running"
  BY DEF StartTest, TestReturns, ReportOne, PanicInTest
<1>3. cov[Main] = NoCov
  BY DEF StartTest, TestReturns, ReportOne, PanicInTest, InBody, CovInv, CovTypes
<1>4. \E l : at' = [at EXCEPT ![Main] = l]
  BY DEF StartTest, TestReturns, ReportOne, PanicInTest, EndTest, Goto
<1>5. \A g \in Goroutines : at'[g] = at[g]
  BY <1>1, <1>4 DEF Threads
<1> QED
  BY <1>2, <1>3, <1>5, CovElsewhere

LEMMA CovNext == Inv /\ CovInv /\ [Next]_vars => CovInv'
<1> SUFFICES ASSUME Inv, CovInv, [Next]_vars PROVE CovInv'
  OBVIOUS
<1>1. CASE exit = "running" /\ (StartTest \/ TestReturns \/ ReportOne \/ PanicInTest)
  BY <1>1, HarnessCov
<1>2. CASE exit = "running" /\ Summary
  BY <1>2, SummaryCov
<1>3. CASE exit = "running" /\ \E t \in Threads : Running(t)
  BY <1>3, RunningCov
<1>4. CASE UNCHANGED vars
  <2>1. UNCHANGED <<at, cov, gHit, gNhit, exit, failed, entered>>
    BY <1>4 DEF vars
  <2>2. CovTypes' /\ (Quiet => Counted)' /\ Quiet' = Quiet
    BY <2>1 DEF CovInv, CovTypes, Quiet, Counted, Holds, Seen, Recorded
  <2>3. Verdict'
    BY <2>1, <2>2 DEF CovInv, Verdict, BelowMinimum, gNall, InTable
  <2> QED
    BY <2>2, <2>3 DEF CovInv
<1> QED
  BY <1>1, <1>2, <1>3, <1>4 DEF Next

(* The exit code is 0 or 2 only if no assert of a test failed; and with no *)
(* goroutine the gate is right about the functions that were entered, of   *)
(* which it counts as many as fit in the table (vader_test_summary,        *)
(* vader_cov).                                                             *)
THEOREM ExitCodeIsRight == Spec => []ExitCodeRight
<1>1. ASSUME CovInv PROVE ExitCodeRight
  <2>1. exit \in {"0", "2"} => failed = {}
    BY <1>1 DEF CovInv, Verdict
  <2>2. ASSUME Quiet, exit \in {"0", "2"}
        PROVE  BelowMinimum <=> ~Enough
    <3>1. cov[Main] = NoCov /\ Counted /\ entered \subseteq Funcs
      BY <1>1, <2>2 DEF CovInv, CovTypes, Verdict
    <3>2. Holds(gNhit) /\ Recorded(Seen(gNhit))
      BY <3>1 DEF Counted, NoCov
    <3>3. gNhit = InTable(entered)
      <4>1. /\ gNhit \in 0 .. CovMax /\ CovMax \in Nat
            /\ Cardinality(Seen(gNhit)) = gNhit
        BY <3>2, FuncsFinite DEF Holds
      <4>2. gNhit <= Cardinality(entered) /\ Cardinality(entered) \in Nat
        BY <3>1, <3>2, <4>1, FuncsFinite, FS_Subset, FS_CardinalityType DEF Recorded
      <4>3. gNhit < CovMax => Cardinality(entered) = gNhit
        BY <3>2, <4>1 DEF Recorded
      <4> QED
        BY <4>1, <4>2, <4>3 DEF InTable
    <3>4. /\ Cardinality(entered) <= Cardinality(Funcs)
          /\ Cardinality(entered) \in Nat /\ Cardinality(Funcs) \in Nat
          /\ CovMax \in Nat /\ MinCov \in 0 .. 100
      BY <3>1, FuncsFinite, FS_Subset, FS_CardinalityType
    <3>5. InTable(entered) \in Nat /\ gNall \in Nat /\ InTable(entered) <= gNall
      BY <3>4 DEF InTable, gNall
    <3>6. gNall = 0 => MinCov * gNall = 0 /\ 100 * InTable(entered) = 0
      BY <3>4, <3>5
    <3>7. MinCov * gNall \in Nat /\ 100 * InTable(entered) \in Nat
      BY <3>4, <3>5
    <3>8. Enough <=> 100 * InTable(entered) >= MinCov * gNall
      BY DEF Enough, gNall
    <3>9. BelowMinimum <=> gNall # 0 /\ 100 * InTable(entered) < MinCov * gNall
      BY <3>3 DEF BelowMinimum
    <3> QED
      BY <3>6, <3>7, <3>8, <3>9
  <2>3. Quiet /\ exit = "0" => ~(Gate /\ BelowMinimum)
    BY <1>1 DEF CovInv, Verdict
  <2>4. Quiet /\ exit = "2" => Gate /\ BelowMinimum
    BY <1>1 DEF CovInv, Verdict
  <2> QED
    BY <2>1, <2>2, <2>3, <2>4 DEF ExitCodeRight
<1>2. Init => Inv /\ CovInv
  BY InitInv, CovInit
<1>3. Inv /\ CovInv /\ [Next]_vars => (Inv /\ CovInv)'
  BY NextInv, CovNext
<1> QED
  BY <1>1, <1>2, <1>3, PTL DEF Spec

(* The harness keeps its types, and as long as no goroutine was started    *)
(* the coverage table its bounds, for any number of functions: the test of *)
(* g_nhit in vader_cov comes before the read of the index, and nobody is   *)
(* in between.                                                             *)
THEOREM TableInBounds == Spec => []TypeOK
<1>1. ASSUME Inv, CovInv PROVE TypeOK
  <2>1. \A t \in Threads : cov[t].stage \in {"none", "scan", "test", "read", "write"}
    <3>1. \A c \in Covs : c.stage \in {"none", "scan", "test", "read", "write"}
      BY DEF Covs, NoCov
    <3> QED
      BY <1>1, <3>1 DEF CovInv, CovTypes
  <2>2. gHit \in [0 .. CovMax - 1 -> Funcs \cup {NoFunc}] /\ gNhit \in Nat
    BY <1>1 DEF CovInv, CovTypes
  <2>3. ASSUME Quiet PROVE gNhit <= CovMax
    <3>1. Counted /\ CovMax \in Nat
      BY <1>1, <2>3, FuncsFinite DEF CovInv
    <3>2. CASE cov[Main].stage # "write"
      BY <3>1, <3>2 DEF Counted, Holds
    <3>3. CASE cov[Main].stage = "write"
      <4>1. cov[Main].n \in 0 .. CovMax /\ cov[Main].n < CovMax
            /\ (gNhit = cov[Main].n \/ gNhit = cov[Main].n + 1)
        BY <3>1, <3>3 DEF Counted, Holds
      <4> QED
        BY <3>1, <4>1
    <3> QED
      BY <3>2, <3>3
  <2> QED
    BY <1>1, <2>1, <2>2, <2>3 DEF Inv, Types, TypeOK
<1>2. Init => Inv /\ CovInv
  BY InitInv, CovInit
<1>3. Inv /\ CovInv /\ [Next]_vars => (Inv /\ CovInv)'
  BY NextInv, CovNext
<1> QED
  BY <1>1, <1>2, <1>3, PTL DEF Spec
=============================================================================
