----------------------------- MODULE TestHarness -----------------------------
(***************************************************************************)
(* `vader test`: the generated main registers every function for coverage, *)
(* runs each test block through vader_test_run, reports it, and returns    *)
(* the exit code of vader_test_summary (src/runtime/vader_test.c).  A      *)
(* failing assert goes through vader_panic (src/runtime/vader_rt.c), which *)
(* unwinds to the running test with longjmp, or exits the process when no  *)
(* test is running.                                                        *)
(*                                                                         *)
(* A test calls functions of the program.  A function marks itself in the  *)
(* coverage table, may start a goroutine (which calls functions too and    *)
(* may outlive the test that started it) and may panic.                    *)
(*                                                                         *)
(* Two races end in undefined behaviour: a panic in a goroutine, which     *)
(* jumps to a frame of another thread's stack, and a coverage entry stored *)
(* past the end of the table.  The process crashes, or goes on in a way    *)
(* the source no longer determines, and then exit is "undefined": the      *)
(* model follows it no further and no property says anything about it.     *)
(***************************************************************************)
EXTENDS Integers, Sequences, FiniteSets, SequencesExt

CONSTANTS
  NTests,         \* tests of the project, run in order
  Funcs,          \* user functions: all are registered for coverage
  NoFunc,         \* a slot of the coverage table that was never written
  Main,           \* the thread that runs the tests
  Goroutines,     \* threads a function may start
  GoroutineFails, \* whether an assert may fail in a goroutine
  Gate,           \* coverage_gate
  MinCov,         \* min_coverage, in percent
  CovMax,         \* VADER_COV_MAX, the size of the coverage tables
  MaxCalls        \* bound on the calls of a test and of a goroutine

Threads == {Main} \cup Goroutines

ASSUME HarnessAssumption ==
  /\ NTests \in Nat /\ MinCov \in 0 .. 100 /\ MaxCalls \in Nat /\ CovMax \in Nat
  /\ IsFiniteSet(Funcs) /\ NoFunc \notin Funcs /\ Main \notin Goroutines
  /\ GoroutineFails \in BOOLEAN /\ Gate \in BOOLEAN

VARIABLES
  at,       \* Main: "next", "body", "report"; goroutines: "unborn", "body", "gone"
  cov,      \* the thread's call of vader_cov: stage, function, index it read
  calls,    \* calls a thread has made (Main: in the current test)
  test,     \* the test that is running, or was last
  inTest,   \* g_in_test
  gHit,     \* g_hit
  gNhit,    \* g_nhit
  report,   \* what was printed for each test
  exit,     \* "running", the exit code, "crashed", or "undefined"
  failed,   \* the tests in which an assert failed on the thread of the test
  strayed,  \* whether an assert failed in a goroutine
  entered   \* the functions that were really entered

vars == <<at, cov, calls, test, inTest, gHit, gNhit, report, exit, failed,
          strayed, entered>>

NoCov == [stage |-> "none"]

Init ==
  /\ at      = [t \in Threads |-> IF t = Main THEN "next" ELSE "unborn"]
  /\ cov     = [t \in Threads |-> NoCov]
  /\ calls   = [t \in Threads |-> 0]
  /\ test    = 0
  /\ inTest  = FALSE
  /\ gHit    = [i \in 0 .. CovMax - 1 |-> NoFunc]
  /\ gNhit   = 0
  /\ report  = [i \in 1 .. NTests |-> "none"]
  /\ exit    = "running"
  /\ failed  = {}
  /\ strayed = FALSE
  /\ entered = {}

Goto(t, l) == at' = [at EXCEPT ![t] = l]

(* How many functions of a set a coverage table can hold. *)
InTable(fs) == IF Cardinality(fs) > CovMax THEN CovMax ELSE Cardinality(fs)

(* g_nall: the table of all functions is filled before the first test. *)
gNall == InTable(Funcs)

-----------------------------------------------------------------------------
(* vader_test_run, vader_test_report_one, vader_test_summary *)

(* Mutant of StartTest: g_in_test is not set. *)
StartTestUnmarked ==
  /\ at[Main] = "next"
  /\ test < NTests
  /\ test'   = test + 1
  /\ calls'  = [calls EXCEPT ![Main] = 0]
  /\ Goto(Main, "body")
  /\ UNCHANGED <<cov, inTest, gHit, gNhit, report, exit, failed, strayed, entered>>

StartTest ==
  /\ at[Main] = "next"
  /\ test < NTests
  /\ test'   = test + 1
  /\ inTest' = TRUE
  /\ calls'  = [calls EXCEPT ![Main] = 0]
  /\ Goto(Main, "body")
  /\ UNCHANGED <<cov, gHit, gNhit, report, exit, failed, strayed, entered>>

(* setjmp returns for the second time, or the test function returned. *)
EndTest(verdict) ==
  /\ inTest' = FALSE
  /\ at'     = [at EXCEPT ![Main] = verdict]

TestReturns ==
  /\ at[Main] = "body"
  /\ cov[Main] = NoCov
  /\ EndTest("passed")
  /\ UNCHANGED <<cov, calls, test, gHit, gNhit, report, exit, failed, strayed, entered>>

ReportOne ==
  /\ at[Main] \in {"passed", "failed"}
  /\ report' = [report EXCEPT ![test] = at[Main]]
  /\ Goto(Main, "next")
  /\ UNCHANGED <<cov, calls, test, inTest, gHit, gNhit, exit, failed, entered, strayed>>

(* 100 * g_nhit / g_nall against the minimum, without the division. *)
BelowMinimum == gNall # 0 /\ 100 * gNhit < MinCov * gNall

(* Mutants of Summary: the gate before the failures, or instead of them. *)
SummaryGateFirst ==
  /\ at[Main] = "next"
  /\ test = NTests
  /\ exit' = IF Gate /\ BelowMinimum THEN "2"
             ELSE IF \E i \in 1 .. NTests : report[i] = "failed" THEN "1" ELSE "0"
  /\ UNCHANGED <<at, cov, calls, test, inTest, gHit, gNhit, report, failed, entered, strayed>>

SummaryGateOnly ==
  /\ at[Main] = "next"
  /\ test = NTests
  /\ exit' = IF Gate /\ BelowMinimum THEN "2" ELSE "0"
  /\ UNCHANGED <<at, cov, calls, test, inTest, gHit, gNhit, report, failed, entered, strayed>>

Summary ==
  /\ at[Main] = "next"
  /\ test = NTests
  /\ exit' = IF \E i \in 1 .. NTests : report[i] = "failed" THEN "1"
             ELSE IF Gate /\ BelowMinimum THEN "2" ELSE "0"
  /\ UNCHANGED <<at, cov, calls, test, inTest, gHit, gNhit, report, failed, entered, strayed>>

-----------------------------------------------------------------------------
(* The user code on any thread *)

InBody(t) == at[t] = "body" /\ cov[t] = NoCov

CallFunction(t) ==
  /\ InBody(t)
  /\ calls[t] < MaxCalls
  /\ \E f \in Funcs :
       /\ cov'     = [cov EXCEPT ![t] = [stage |-> "scan", fn |-> f]]
       /\ entered' = entered \cup {f}
  /\ calls' = [calls EXCEPT ![t] = @ + 1]
  /\ UNCHANGED <<at, test, inTest, gHit, gNhit, report, exit, failed, strayed>>

(* vader_cov has no lock: the scan, the test of g_nhit, its read as the    *)
(* index, the store of the entry and the store of the new count are        *)
(* separate steps, the last two in either order.                           *)
InScan(i) == i < gNhit /\ i < CovMax

Scanned(f) == \E i \in DOMAIN gHit : InScan(i) /\ gHit[i] = f

(* The scan stops at the first slot that holds f.  Before that, a slot     *)
(* that is counted and not yet written is a null pointer for strcmp, ...   *)
NullBefore(f) ==
  \E i \in DOMAIN gHit :
    /\ InScan(i) /\ gHit[i] = NoFunc
    /\ \A j \in 0 .. i : gHit[j] # f

(* ... and a count beyond the table makes strcmp read what lies there: it  *)
(* faults, or the call returns, at a match or at the test of g_nhit.       *)
CovScan(t) ==
  LET f == cov[t].fn
      beyond == ~Scanned(f) /\ gNhit > CovMax
  IN
  /\ cov[t].stage = "scan"
  /\ \/ /\ NullBefore(f) \/ beyond
        /\ exit' = "crashed" /\ UNCHANGED cov
     \/ /\ ~NullBefore(f)
        /\ cov' = [cov EXCEPT ![t] = IF Scanned(f) \/ beyond THEN NoCov
                                      ELSE [cov[t] EXCEPT !.stage = "test"]]
        /\ UNCHANGED exit
  /\ UNCHANGED <<at, calls, test, inTest, gHit, gNhit, report, failed, strayed, entered>>

(* Mutant of CovTest: the test of a full table is off by one. *)
CovTestLate(t) ==
  /\ cov[t].stage = "test"
  /\ cov' = [cov EXCEPT ![t] = IF gNhit <= CovMax THEN [cov[t] EXCEPT !.stage = "read"]
                                ELSE NoCov]
  /\ UNCHANGED <<at, calls, test, inTest, gHit, gNhit, report, exit, failed, strayed, entered>>

CovTest(t) ==
  /\ cov[t].stage = "test"
  /\ cov' = [cov EXCEPT ![t] = IF gNhit < CovMax THEN [cov[t] EXCEPT !.stage = "read"]
                                ELSE NoCov]
  /\ UNCHANGED <<at, calls, test, inTest, gHit, gNhit, report, exit, failed, strayed, entered>>

CovRead(t) ==
  /\ cov[t].stage = "read"
  /\ cov' = [cov EXCEPT ![t] = [stage |-> "write", fn |-> cov[t].fn, n |-> gNhit,
                                left |-> {"entry", "count"}]]
  /\ UNCHANGED <<at, calls, test, inTest, gHit, gNhit, report, exit, failed, strayed, entered>>

CovStore(t, store) ==
  /\ store \in cov[t].left
  /\ store = "entry" => cov[t].n < CovMax
  /\ gHit'  = IF store = "entry" THEN [gHit EXCEPT ![cov[t].n] = cov[t].fn] ELSE gHit
  /\ gNhit' = IF store = "count" THEN cov[t].n + 1 ELSE gNhit
  /\ cov'   = [cov EXCEPT ![t] = IF cov[t].left = {store} THEN NoCov
                                 ELSE [cov[t] EXCEPT !.left = @ \ {store}]]
  /\ UNCHANGED exit

(* The entry goes past the table when g_nhit grew between test and read.   *)
CovStorePast(t) ==
  /\ "entry" \in cov[t].left
  /\ cov[t].n >= CovMax
  /\ exit' \in {"crashed", "undefined"}
  /\ UNCHANGED <<gHit, gNhit, cov>>

CovWrite(t) ==
  /\ cov[t].stage = "write"
  /\ CovStorePast(t) \/ \E store \in {"entry", "count"} : CovStore(t, store)
  /\ UNCHANGED <<at, calls, test, inTest, report, failed, strayed, entered>>

(* spawn in a function of the program. *)
SpawnGoroutine(t) ==
  /\ InBody(t)
  /\ calls[t] > 0
  /\ \E g \in Goroutines :
       /\ at[g] = "unborn"
       /\ Goto(g, "body")
  /\ UNCHANGED <<cov, calls, test, inTest, gHit, gNhit, report, exit, failed, strayed, entered>>

GoroutineReturns(g) ==
  /\ g # Main
  /\ InBody(g)
  /\ Goto(g, "gone")
  /\ UNCHANGED <<cov, calls, test, inTest, gHit, gNhit, report, exit, failed, strayed, entered>>

-----------------------------------------------------------------------------
(* vader_panic *)

PanicInTest ==
  /\ InBody(Main)
  /\ inTest
  /\ EndTest("failed")
  /\ failed' = failed \cup {test}
  /\ UNCHANGED <<cov, calls, test, gHit, gNhit, report, exit, entered, strayed>>

(* In a goroutine, while a test is running: longjmp to a frame of another  *)
(* thread's stack.  It kills the process, or ends the running test as if   *)
(* that test had failed, or both threads go on, on one stack.              *)
PanicElsewhere(g) ==
  /\ GoroutineFails
  /\ g # Main
  /\ InBody(g)
  /\ inTest
  /\ \/ exit' \in {"crashed", "undefined"} /\ UNCHANGED <<at, cov, inTest>>
     \/ /\ at'     = [at EXCEPT ![g] = "gone", ![Main] = "failed"]
        /\ cov'    = [cov EXCEPT ![Main] = NoCov]
        /\ inTest' = FALSE
        /\ UNCHANGED exit
  /\ strayed' = TRUE
  /\ UNCHANGED <<calls, test, gHit, gNhit, report, failed, entered>>

(* g_in_test is 0, for a goroutine that fails between two tests: exit(1). *)
PanicOutside(t) ==
  /\ t # Main => GoroutineFails
  /\ InBody(t)
  /\ ~inTest
  /\ exit'   = "1"
  /\ failed' = IF t = Main THEN failed \cup {test} ELSE failed
  /\ strayed' = (strayed \/ t # Main)
  /\ UNCHANGED <<at, cov, calls, test, inTest, gHit, gNhit, report, entered>>

-----------------------------------------------------------------------------
Running(t) ==
  \/ CallFunction(t) \/ CovScan(t) \/ CovTest(t) \/ CovRead(t) \/ CovWrite(t)
  \/ SpawnGoroutine(t) \/ GoroutineReturns(t)
  \/ PanicElsewhere(t) \/ PanicOutside(t)

Next ==
  \/ /\ exit = "running"
     /\ \/ StartTest \/ TestReturns \/ ReportOne \/ Summary \/ PanicInTest
        \/ \E t \in Threads : Running(t)
  \/ exit # "running" /\ UNCHANGED vars

Spec == Init /\ [][Next]_vars

-----------------------------------------------------------------------------
(* No goroutine was started. *)
Quiet == \A g \in Goroutines : at[g] = "unborn"

(* The types of the state.  The bound of g_nhit, which vader_cov tests     *)
(* before it adds an entry, holds as long as no goroutine was started: two *)
(* calls in vader_cov at once can take the count past the table.           *)
TypeOK ==
  /\ at \in [Threads -> {"next", "body", "passed", "failed", "unborn", "gone"}]
  /\ \A t \in Threads : cov[t].stage \in {"none", "scan", "test", "read", "write"}
  /\ test \in 0 .. NTests
  /\ inTest \in BOOLEAN
  /\ gHit \in [0 .. CovMax - 1 -> Funcs \cup {NoFunc}]
  /\ gNhit \in Nat
  /\ Quiet => gNhit <= CovMax
  /\ report \in [1 .. NTests -> {"none", "passed", "failed"}]
  /\ exit \in {"running", "crashed", "undefined", "0", "1", "2"}

(* "Each test is isolated": a test fails if and only if one of its own     *)
(* asserts fails, and all the tests have been run and reported when the    *)
(* process ends, whatever happened in the tests before and whatever their  *)
(* goroutines still do, as long as no assert fails in a goroutine and the  *)
(* race on the coverage table neither crashes the process nor stores past  *)
(* the table.                                                              *)
Isolated ==
  ~strayed =>
    /\ \A i \in 1 .. NTests :
         report[i] # "none" => (report[i] = "failed" <=> i \in failed)
    /\ exit \in {"0", "1", "2"} => \A i \in 1 .. NTests : report[i] # "none"

(* A green run is honest: exit code 0 means that every test ran, and none  *)
(* of them had a failed assert.  A goroutine may panic at any moment and   *)
(* end the test that is running; of the run in which the panic leaves two  *)
(* threads on one stack, nothing is said.                                  *)
GreenMeansPassed ==
  exit = "0" => failed = {} /\ \A i \in 1 .. NTests : report[i] = "passed"

(* The exit code tells the truth about failures, and without goroutines    *)
(* (which race on the coverage table) about the gate as well: 0 only if    *)
(* enough functions were really entered, 2 only if they were not.  Of a    *)
(* program with more functions than a table holds, only that many count.   *)
Enough == 100 * InTable(entered) >= MinCov * InTable(Funcs)

ExitCodeRight ==
  /\ exit \in {"0", "2"} => failed = {}
  /\ Quiet /\ Gate /\ exit = "0" => Enough
  /\ Quiet /\ exit = "2" => Gate /\ ~Enough

=============================================================================
