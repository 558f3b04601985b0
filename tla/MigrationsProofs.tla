--------------------------- MODULE MigrationsProofs ---------------------------
(***************************************************************************)
(* TypeOK holds of `vader migrate` for any number of commands at a time;   *)
(* that only what ran is marked, how the list and the database agree, and  *)
(* that migrations run in order hold of one command at a time, for all     *)
(* numbers of projects and files and however often commands fail or are    *)
(* interrupted.                                                            *)
(***************************************************************************)
EXTENDS Migrations, SequenceTheorems, WellFoundedInduction, TLAPS

(* One terminal: all commands that there are, are one. *)
OneSession == \A s, t \in Sessions : s = t

-----------------------------------------------------------------------------
(* The inductive invariant.                                                *)

Lists(n) == {L \in Seq(1 .. n) : IsInjective(L)}

Places == {"write", "clang", "run", "read", "truncate", "rewrite"}

Commands ==
  [pc : Places, up : BOOLEAN,
   project : Projects, todo : SUBSET Nat, list : Seq(Nat)]

Typed ==
  /\ files   \in [Projects -> Nat]
  /\ applied \in [Projects -> Seq(Nat)]
  /\ db      \in [Projects -> SUBSET Nat]
  /\ half    \in [Projects -> SUBSET Nat]
  /\ ran     \in [Projects -> SUBSET Nat]
  /\ sess    \in [Sessions -> Commands \cup {Idle}]

(* What the projects hold is about their own files. *)
OwnFiles ==
  \A p \in Projects :
    /\ files[p] \in 0 .. MaxFiles[p]
    /\ applied[p] \in Lists(files[p])
    /\ db[p] \subseteq 1 .. files[p]
    /\ half[p] \subseteq 1 .. files[p]
    /\ db[p] \cap half[p] = {}
    /\ ran[p] \subseteq 1 .. files[p]

(* What a command is going to do is about files of its project. *)
Fits(prog) ==
  /\ prog.up \in BOOLEAN /\ prog.project \in Projects
  /\ prog.m \in 1 .. files[prog.project]

Work(c) ==
  /\ c.todo # {}
  /\ c.todo \subseteq 1 .. files[c.project]
  /\ c.list \in Lists(files[c.project])
  /\ c.pc = "clang" => Fits(ir)
  /\ c.pc = "run" => Fits(bin)

OwnWork == \A s \in Sessions : sess[s] # Idle => Work(sess[s])

Shape == Typed /\ OwnFiles /\ OwnWork

(* One command at a time compiles and runs its own program. *)
OwnProgram ==
  \A s \in Sessions :
    /\ sess[s].pc = "clang" => ir = Program(s)
    /\ sess[s].pc = "run" => bin = Program(s)

(* What is about to be written to the list did run. *)
ToBeMarked ==
  \A s \in Sessions :
    /\ sess[s].pc = "read" /\ sess[s].up => Foremost(sess[s].todo) \in ran[sess[s].project]
    /\ sess[s].pc \in {"truncate", "rewrite"} => ToSet(sess[s].list) \subseteq ran[sess[s].project]

Honest == OwnProgram /\ ToBeMarked /\ MarkedOnlyIfRun

(* As long as the list of a project is not lost it holds the first n       *)
(* migrations or is about to, and the database does too but for what broke *)
(* off: ups that come after n, and downs that do not.                      *)
Iota(n) == [i \in 1 .. n |-> i]

Before == {"write", "clang", "run"}

InStep(whole, part, up, down, n) ==
  /\ whole \ up \subseteq 1 .. n
  /\ (1 .. n) \ down \subseteq whole
  /\ part \subseteq up \cup down
  /\ up \cap (1 .. n) = {}
  /\ down \subseteq 1 .. n

Reflects(p, n) == InStep(db[p], half[p], TornUp(p), TornDown(p), n)

HasRun(s, p, n) ==
  /\ sess[s].todo = IF sess[s].up THEN n .. files[p] ELSE {n + 1}
  /\ IF sess[s].up THEN n \notin TornDown(p) ELSE n + 1 \notin TornUp(p)
  /\ sess[s].pc # "rewrite" => applied[p] = IF sess[s].up THEN Iota(n - 1) ELSE Iota(n + 1)
  /\ sess[s].pc # "read" => sess[s].list = Iota(n)

Tracks(p, n) ==
  /\ Reflects(p, n)
  /\ (\A s \in Sessions : On(s, p) => sess[s].pc \in Before) => applied[p] = Iota(n)
  /\ \A s \in Sessions :
       On(s, p) =>
         IF sess[s].pc \in Before
         THEN sess[s].todo = IF sess[s].up THEN (n + 1) .. files[p] ELSE {n}
         ELSE HasRun(s, p, n)

Tracking == \A p \in Projects \ lost : \E n \in 0 .. files[p] : Tracks(p, n)

-----------------------------------------------------------------------------
(* The operators.                                                          *)

(* A set of migrations that is not empty has one that comes first. *)
LEMMA ForemostIs ==
  ASSUME NEW T \in SUBSET Nat, T # {}
  PROVE  Foremost(T) \in T /\ \A m \in T : Foremost(T) <= m
<1>1. PICK x \in T : \A y \in T : ~(<<y, x>> \in OpToRel(<, Nat))
  BY NatLessThanWellFounded, WFMin
<1>2. ASSUME NEW y \in T
      PROVE  x <= y
  <2>1. x \in Nat /\ y \in Nat /\ <<y, x>> \in Nat \X Nat
    OBVIOUS
  <2>2. ~(y < x)
    BY <1>1, <2>1 DEF OpToRel
  <2> QED
    BY <2>1, <2>2
<1> QED
  BY <1>2 DEF Foremost, Min

(* Functions on 1 .. n are sequences, and equal ones have equal entries. *)
LEMMA MapIsSeq ==
  ASSUME NEW S, NEW n \in Nat, NEW f, f \in [1 .. n -> S]
  PROVE  f \in Seq(S) /\ Len(f) = n
OBVIOUS

(* mark_applied: a file that the list does not name goes to its end. *)
LEMMA AppendIs ==
  ASSUME NEW n \in Nat, NEW L \in Lists(n), NEW m \in 1 .. n
  PROVE  /\ m \notin ToSet(L) => Append(L, m) \in Lists(n)
         /\ ToSet(Append(L, m)) = ToSet(L) \cup {m}
<1>1. L \in Seq(1 .. n) /\ IsInjective(L)
  BY DEF Lists
<1> DEFINE A == Append(L, m)
<1>2. /\ A \in Seq(1 .. n)
      /\ DOMAIN L = 1 .. Len(L)
      /\ DOMAIN A = 1 .. (Len(L) + 1)
      /\ Len(L) \in Nat
      /\ \A i \in 1 .. Len(L) : A[i] = L[i]
      /\ A[Len(L) + 1] = m
  BY <1>1
<1> HIDE DEF A
<1>3. ASSUME m \notin ToSet(L), NEW i \in DOMAIN A, NEW j \in DOMAIN A, A[i] = A[j]
      PROVE  i = j
  <2>1. \A k \in 1 .. Len(L) : L[k] \in ToSet(L)
    BY <1>2 DEF ToSet
  <2>2. \A k \in 1 .. Len(L) : A[k] # m
    BY <1>2, <1>3, <2>1
  <2>3. CASE i \in 1 .. Len(L) /\ j \in 1 .. Len(L)
    BY <1>1, <1>2, <1>3, <2>3 DEF IsInjective
  <2>4. CASE i = Len(L) + 1 \/ j = Len(L) + 1
    BY <1>2, <1>3, <2>2, <2>4
  <2> QED
    BY <1>2, <2>3, <2>4
<1>4. ToSet(A) \subseteq ToSet(L) \cup {m}
  BY <1>2 DEF ToSet
<1>5. m \in ToSet(A)
  <2>1. Len(L) + 1 \in DOMAIN A
    BY <1>2
  <2> QED
    BY <1>2, <2>1 DEF ToSet
<1>6. ToSet(L) \subseteq ToSet(A)
  <2>1. ASSUME NEW i \in DOMAIN L
        PROVE  L[i] = A[i] /\ i \in DOMAIN A
    BY <1>2
  <2> QED
    BY <2>1 DEF ToSet
<1>7. ToSet(A) = ToSet(L) \cup {m}
  BY <1>4, <1>5, <1>6
<1>8. m \notin ToSet(L) => A \in Lists(n)
  BY <1>2, <1>3 DEF Lists, IsInjective
<1> QED
  BY <1>7, <1>8 DEF A

(* unmark: the entry goes, and the others stay in their order. *)
LEMMA RemoveAtIs ==
  ASSUME NEW n \in Nat, NEW L \in Seq(1 .. n), NEW i \in 1 .. Len(L)
  PROVE  /\ RemoveAt(L, i) \in Seq(1 .. n)
         /\ Len(RemoveAt(L, i)) = Len(L) - 1
         /\ \A j \in 1 .. (Len(L) - 1) :
              RemoveAt(L, i)[j] = IF j < i THEN L[j] ELSE L[j + 1]
<1> DEFINE A == SubSeq(L, 1, i - 1)
           B == SubSeq(L, i + 1, Len(L))
           R == A \o B
<1>1. Len(L) \in Nat /\ \A j \in 1 .. Len(L) : L[j] \in 1 .. n
  OBVIOUS
<1>2. /\ A \in Seq(1 .. n) /\ Len(A) = i - 1
      /\ \A j \in 1 .. (i - 1) : A[j] = L[j]
  BY <1>1, SubSeqProperties
<1>3. /\ B \in Seq(1 .. n) /\ Len(B) = Len(L) - i
      /\ \A j \in 1 .. (Len(L) - i) : B[j] = L[i + j]
  BY <1>1, SubSeqProperties
<1>4. RemoveAt(L, i) = R
  BY DEF RemoveAt
<1> HIDE DEF A, B
<1>5. /\ R \in Seq(1 .. n) /\ Len(R) = Len(A) + Len(B)
      /\ \A j \in 1 .. (Len(A) + Len(B)) : R[j] = IF j <= Len(A) THEN A[j] ELSE B[j - Len(A)]
  BY <1>2, <1>3, ConcatProperties
<1> HIDE DEF R
<1>6. \A j \in 1 .. (Len(L) - 1) : R[j] = IF j <= i - 1 THEN A[j] ELSE B[j - (i - 1)]
  <2>1. Len(A) + Len(B) = Len(L) - 1
    BY <1>1, <1>2, <1>3
  <2> QED
    BY <1>2, <1>5, <2>1
<1>7. ASSUME NEW j \in 1 .. (Len(L) - 1)
      PROVE  R[j] = IF j < i THEN L[j] ELSE L[j + 1]
  <2>1. CASE j < i
    <3>1. R[j] = A[j] /\ A[j] = L[j]
      BY <1>1, <1>2, <1>6, <2>1
    <3> QED
      BY <2>1, <3>1
  <2>2. CASE ~(j < i)
    <3>1. j - (i - 1) \in 1 .. (Len(L) - i) /\ ~(j <= i - 1)
      BY <1>1, <2>2
    <3>2. B[j - (i - 1)] = L[i + (j - (i - 1))] /\ i + (j - (i - 1)) = j + 1
      BY <1>1, <1>3, <3>1
    <3>3. R[j] = B[j - (i - 1)]
      BY <1>6, <3>1
    <3> QED
      BY <2>2, <3>2, <3>3
  <2> QED
    BY <2>1, <2>2
<1> QED
  BY <1>1, <1>2, <1>3, <1>4, <1>5, <1>7

LEMMA WithoutIs ==
  ASSUME NEW n \in Nat, NEW L \in Lists(n), NEW m
  PROVE  /\ Without(L, m) \in Lists(n)
         /\ ToSet(Without(L, m)) \subseteq ToSet(L)
<1>1. L \in Seq(1 .. n) /\ IsInjective(L) /\ DOMAIN L = 1 .. Len(L) /\ Len(L) \in Nat
  BY DEF Lists
<1>2. CASE m \notin ToSet(L)
  BY <1>2 DEF Without
<1>3. CASE m \in ToSet(L)
  <2> DEFINE i == CHOOSE i \in DOMAIN L : L[i] = m
             R == RemoveAt(L, i)
  <2>1. i \in 1 .. Len(L)
    BY <1>1, <1>3 DEF ToSet
  <2>2. Without(L, m) = R
    BY <1>3 DEF Without
  <2> HIDE DEF i
  <2>3. /\ R \in Seq(1 .. n)
        /\ Len(R) = Len(L) - 1
        /\ \A j \in 1 .. (Len(L) - 1) : R[j] = IF j < i THEN L[j] ELSE L[j + 1]
    BY <1>1, <2>1, RemoveAtIs
  <2> HIDE DEF R
  <2>4. DOMAIN R = 1 .. (Len(L) - 1)
    BY <2>3
  <2> DEFINE Of(j) == IF j < i THEN j ELSE j + 1
  <2>b. ASSUME NEW j \in DOMAIN R
        PROVE  Of(j) \in DOMAIN L /\ R[j] = L[Of(j)]
    <3>1. j \in 1 .. (Len(L) - 1) /\ R[j] = IF j < i THEN L[j] ELSE L[j + 1]
      BY <2>3, <2>4
    <3>2. CASE j < i
      BY <1>1, <2>1, <3>1, <3>2
    <3>3. CASE ~(j < i)
      BY <1>1, <2>1, <3>1, <3>3
    <3> QED
      BY <3>2, <3>3
  <2>5. IsInjective(R)
    <3>1. ASSUME NEW j \in DOMAIN R, NEW k \in DOMAIN R, R[j] = R[k]
          PROVE  j = k
      <4>1. Of(j) = Of(k)
        BY <1>1, <2>b, <3>1 DEF IsInjective
      <4> QED
        BY <4>1, <2>1, <2>4
    <3> QED
      BY <3>1 DEF IsInjective
  <2>6. ToSet(R) \subseteq ToSet(L)
    <3>1. ASSUME NEW j \in DOMAIN R
          PROVE  R[j] \in ToSet(L)
      BY <2>b DEF ToSet
    <3> QED
      BY <3>1 DEF ToSet
  <2> QED
    BY <2>2, <2>3, <2>5, <2>6 DEF Lists
<1> QED
  BY <1>2, <1>3

LEMMA ListsAreLists ==
  ASSUME NEW n \in Nat, NEW L \in Lists(n)
  PROVE  L \in Seq(Nat)
BY 1 .. n \subseteq Nat DEF Lists

(* The list grows with the directory. *)
LEMMA ListsGrow ==
  ASSUME NEW n \in Nat, NEW k \in Nat, n <= k
  PROVE  Lists(n) \subseteq Lists(k)
<1>1. ASSUME NEW L \in Seq(1 .. n)
      PROVE  L \in Seq(1 .. k)
  BY 1 .. n \subseteq 1 .. k
<1> QED
  BY <1>1 DEF Lists

LEMMA NoneListed == ASSUME NEW n \in Nat PROVE <<>> \in Lists(n) /\ ToSet(<<>>) = {}
BY DEF Lists, IsInjective, ToSet

-----------------------------------------------------------------------------
(* The shape of the state, for any number of commands.                     *)

LEMMA CommandIs ==
  ASSUME Shape, NEW s \in Sessions, sess[s] # Idle
  PROVE  /\ sess[s] \in Commands /\ Work(sess[s])
         /\ sess[s].project \in Projects /\ sess[s].up \in BOOLEAN
         /\ files[sess[s].project] \in Nat
BY MigrationsAssumption DEF Shape, Typed, OwnWork, Commands

LEMMA AtIs ==
  ASSUME NEW s \in Sessions, NEW l, At(s, l), l # "idle"
  PROVE  sess[s] # Idle
BY DEF At, Idle

Moved(c, l) == [c EXCEPT !.pc = l]

LEMMA GotoIs ==
  ASSUME Shape, NEW s \in Sessions, sess[s] # Idle, NEW l \in Places, Goto(s, l)
  PROVE  /\ sess' = [sess EXCEPT ![s] = Moved(sess[s], l)]
         /\ Moved(sess[s], l) \in Commands
         /\ Moved(sess[s], l).pc = l
         /\ Moved(sess[s], l).up = sess[s].up
         /\ Moved(sess[s], l).project = sess[s].project
         /\ Moved(sess[s], l).todo = sess[s].todo
         /\ Moved(sess[s], l).list = sess[s].list
BY CommandIs DEF Goto, Moved, Commands

(* A step of one command that leaves the directories alone. *)
LEMMA SessionStep ==
  ASSUME Shape, NEW s \in Sessions, NEW c \in Commands \cup {Idle},
         sess' = [sess EXCEPT ![s] = c], files' = files,
         c # Idle => Work(c)',
         ir' = ir \/ Fits(ir)', bin' = bin \/ Fits(bin)'
  PROVE  sess' \in [Sessions -> Commands \cup {Idle}] /\ OwnWork'
<1>1. sess' \in [Sessions -> Commands \cup {Idle}]
  BY DEF Shape, Typed
<1>2. ASSUME NEW t \in Sessions, sess'[t] # Idle
      PROVE  Work(sess[t])'
  <2>1. CASE t = s
    BY <1>2, <2>1 DEF Shape, Typed
  <2>2. CASE t # s
    <3>1. sess'[t] = sess[t] /\ Work(sess[t])
      BY <1>2, <2>2 DEF Shape, Typed, OwnWork
    <3> QED
      BY <3>1 DEF Work, Fits
  <2> QED
    BY <2>1, <2>2
<1> QED
  BY <1>1, <1>2 DEF OwnWork

(* What mark_applied and unmark make of the list. *)
LEMMA NewListIs ==
  ASSUME Shape, NEW s \in Sessions, sess[s] # Idle
  PROVE  /\ NewList(s) \in Lists(files[sess[s].project])
         /\ ToSet(NewList(s)) \subseteq
              ToSet(applied[sess[s].project]) \cup
                (IF sess[s].up THEN {Foremost(sess[s].todo)} ELSE {})
<1> DEFINE p == sess[s].project
           m == Foremost(sess[s].todo)
           old == applied[p]
<1>1. /\ sess[s] \in Commands /\ Work(sess[s])
      /\ p \in Projects /\ sess[s].up \in BOOLEAN /\ files[p] \in Nat
  BY CommandIs
<1>2. m \in 1 .. files[p]
  BY <1>1, ForemostIs DEF Work, Commands
<1>3. old \in Lists(files[p])
  BY <1>1 DEF Shape, OwnFiles
<1>4. NewList(s) = IF ~sess[s].up THEN Without(old, m)
                   ELSE IF m \in ToSet(old) THEN old ELSE Append(old, m)
  BY DEF NewList
<1> HIDE DEF p, m, old
<1>5. Without(old, m) \in Lists(files[p]) /\ ToSet(Without(old, m)) \subseteq ToSet(old)
  BY <1>1, <1>3, WithoutIs
<1>6. /\ m \notin ToSet(old) => Append(old, m) \in Lists(files[p])
      /\ ToSet(Append(old, m)) = ToSet(old) \cup {m}
  BY <1>1, <1>2, <1>3, AppendIs
<1>7. /\ NewList(s) \in Lists(files[p])
      /\ ToSet(NewList(s)) \subseteq ToSet(old) \cup (IF sess[s].up THEN {m} ELSE {})
  <2>1. CASE ~sess[s].up
    BY <1>4, <1>5, <2>1
  <2>2. CASE sess[s].up /\ m \in ToSet(old)
    BY <1>3, <1>4, <2>2
  <2>3. CASE sess[s].up /\ m \notin ToSet(old)
    BY <1>4, <1>6, <2>3
  <2> QED
    BY <1>1, <2>1, <2>2, <2>3
<1> QED
  BY <1>7 DEF p, m, old

LEMMA ShapeInit == Init => Shape
<1> SUFFICES ASSUME Init PROVE Shape
  OBVIOUS
<1>1. Typed
  BY MigrationsAssumption DEF Init, Typed
<1>2. OwnFiles
  <2>1. ASSUME NEW p \in Projects
        PROVE  files[p] \in 0 .. MaxFiles[p]
    <3>1. MaxFiles[p] \in Nat
      BY MigrationsAssumption
    <3> QED
      BY <3>1 DEF Init
  <2> QED
    BY <2>1, NoneListed DEF Init, OwnFiles
<1>3. OwnWork
  BY DEF Init, OwnWork
<1> QED
  BY <1>1, <1>2, <1>3 DEF Shape

(* What a program leaves of its migration in the database. *)
LEMMA LeavesIs ==
  ASSUME Shape, NEW prog, Fits(prog), NEW e, Leaves(prog, e)
  PROVE  /\ db' \in [Projects -> SUBSET Nat] /\ half' \in [Projects -> SUBSET Nat]
         /\ \A p \in Projects :
              db'[p] \cup half'[p] \subseteq 1 .. files[p] /\ db'[p] \cap half'[p] = {}
         /\ db'[prog.project] =
              IF e = "whole" THEN db[prog.project] \cup {prog.m} ELSE db[prog.project] \ {prog.m}
         /\ half'[prog.project] =
              IF e = "part" THEN half[prog.project] \cup {prog.m} ELSE half[prog.project] \ {prog.m}
         /\ \A p \in Projects \ {prog.project} : db'[p] = db[p] /\ half'[p] = half[p]
<1> DEFINE q == prog.project
<1>1. q \in Projects /\ prog.m \in 1 .. files[q] /\ files[q] \in Nat
  BY DEF Fits, Shape, Typed
<1>2. /\ db'   = [db   EXCEPT ![q] = IF e = "whole" THEN db[q] \cup {prog.m} ELSE db[q] \ {prog.m}]
      /\ half' = [half EXCEPT ![q] = IF e = "part" THEN half[q] \cup {prog.m} ELSE half[q] \ {prog.m}]
  BY DEF Leaves
<1>3. /\ db \in [Projects -> SUBSET Nat] /\ half \in [Projects -> SUBSET Nat]
      /\ \A p \in Projects :
           db[p] \subseteq 1 .. files[p] /\ half[p] \subseteq 1 .. files[p] /\ db[p] \cap half[p] = {}
  BY DEF Shape, Typed, OwnFiles
<1>4. db' \in [Projects -> SUBSET Nat] /\ half' \in [Projects -> SUBSET Nat]
  BY <1>1, <1>2, <1>3
<1>5. /\ db'[q] = IF e = "whole" THEN db[q] \cup {prog.m} ELSE db[q] \ {prog.m}
      /\ half'[q] = IF e = "part" THEN half[q] \cup {prog.m} ELSE half[q] \ {prog.m}
      /\ \A p \in Projects \ {q} : db'[p] = db[p] /\ half'[p] = half[p]
  BY <1>1, <1>2, <1>3
<1>6. ASSUME NEW p \in Projects
      PROVE  db'[p] \cup half'[p] \subseteq 1 .. files[p] /\ db'[p] \cap half'[p] = {}
  <2>1. CASE p # q
    BY <1>3, <1>5, <2>1
  <2>2. CASE p = q
    <3>1. db'[q] \cup half'[q] \subseteq 1 .. files[q]
      BY <1>1, <1>3, <1>5
    <3>2. db'[q] \cap half'[q] = {}
      BY <1>1, <1>3, <1>5
    <3> QED
      BY <2>2, <3>1, <3>2
  <2> QED
    BY <2>1, <2>2
<1> QED
  BY <1>4, <1>5, <1>6

LEMMA ShapeNext == Shape /\ [Next]_vars => Shape'
<1> SUFFICES ASSUME Shape, [Next]_vars PROVE Shape'
  OBVIOUS
<1> USE MigrationsAssumption
<1>1. ASSUME NEW s \in Sessions, New(s)
      PROVE  Shape'
  <2>1. PICK p \in Projects : files[p] < MaxFiles[p] /\ files' = [files EXCEPT ![p] = @ + 1]
    BY <1>1 DEF New
  <2>2. UNCHANGED <<applied, db, half, ran, ir, bin, sess>>
    BY <1>1 DEF New, data
  <2>3. /\ files' \in [Projects -> Nat]
        /\ \A q \in Projects :
             files[q] <= files'[q] /\ files[q] \in Nat /\ files'[q] \in 0 .. MaxFiles[q]
    BY <2>1 DEF Shape, Typed, OwnFiles
  <2>4. \A q \in Projects :
          Lists(files[q]) \subseteq Lists(files'[q]) /\ 1 .. files[q] \subseteq 1 .. files'[q]
    BY <2>3, ListsGrow
  <2>5. Typed'
    BY <2>2, <2>3 DEF Shape, Typed
  <2>6. OwnFiles'
    BY <2>2, <2>3, <2>4 DEF Shape, OwnFiles
  <2>7. ASSUME NEW t \in Sessions, sess'[t] # Idle
        PROVE  Work(sess[t])'
    <3>1. Work(sess[t]) /\ sess[t].project \in Projects
      BY <2>2, <2>7, CommandIs
    <3>2. Fits(ir) => Fits(ir)'
      BY <2>2, <2>4 DEF Fits
    <3>3. Fits(bin) => Fits(bin)'
      BY <2>2, <2>4 DEF Fits
    <3> QED
      BY <2>2, <2>4, <3>1, <3>2, <3>3 DEF Work
  <2> QED
    BY <2>5, <2>6, <2>7 DEF Shape, OwnWork
<1>2. ASSUME NEW s \in Sessions, StartUp(s)
      PROVE  Shape'
  <2>1. PICK p \in Projects :
          Pending(p) # {} /\ sess' = [sess EXCEPT ![s] = Command(TRUE, p, Pending(p))]
    BY <1>2 DEF StartUp
  <2>2. PICK T, c : T = Pending(p) /\ c = Command(TRUE, p, T)
    OBVIOUS
  <2>3. UNCHANGED <<files, applied, db, half, ran, ir, bin>>
    BY <1>2 DEF StartUp, disk, data
  <2>4. files[p] \in Nat /\ T \subseteq 1 .. files[p]
    BY <2>2 DEF Shape, Typed, Pending
  <2>5. c \in Commands
    BY <2>2, <2>4 DEF Command, Commands, Places
  <2>6. Work(c)'
    BY <2>2, <2>1, <2>3, <2>4, NoneListed DEF Work, Command
  <2>7. sess' \in [Sessions -> Commands \cup {Idle}] /\ OwnWork'
    BY <2>2, <2>1, <2>3, <2>5, <2>6, SessionStep
  <2> QED
    BY <2>3, <2>7 DEF Shape, Typed, OwnFiles
<1>3. ASSUME NEW s \in Sessions, StartDown(s)
      PROVE  Shape'
  <2>1. PICK p \in Projects :
          applied[p] # <<>> /\ sess' = [sess EXCEPT ![s] = Command(FALSE, p, {Last(applied[p])})]
    BY <1>3 DEF StartDown
  <2>2. PICK m, c : m = Last(applied[p]) /\ c = Command(FALSE, p, {m})
    OBVIOUS
  <2>3. UNCHANGED <<files, applied, db, half, ran, ir, bin>>
    BY <1>3 DEF StartDown, disk, data
  <2>4. files[p] \in Nat /\ applied[p] \in Seq(1 .. files[p])
    BY DEF Shape, Typed, OwnFiles, Lists
  <2>5. m \in 1 .. files[p]
    BY <2>2, <2>1, <2>4 DEF Last
  <2>6. c \in Commands
    BY <2>2, <2>4, <2>5 DEF Command, Commands, Places
  <2>7. Work(c)'
    BY <2>2, <2>3, <2>4, <2>5, NoneListed DEF Work, Command
  <2>8. sess' \in [Sessions -> Commands \cup {Idle}] /\ OwnWork'
    BY <2>2, <2>1, <2>3, <2>6, <2>7, SessionStep
  <2> QED
    BY <2>3, <2>8 DEF Shape, Typed, OwnFiles
<1>4. ASSUME NEW s \in Sessions, WriteIr(s)
      PROVE  Shape'
  <2>0. PICK c : c = Moved(sess[s], "clang")
    OBVIOUS
  <2>1. /\ sess[s] # Idle /\ Goto(s, "clang")
        /\ ir' = [up |-> sess[s].up, project |-> sess[s].project, m |-> Foremost(sess[s].todo)]
        /\ UNCHANGED <<files, applied, db, half, ran, bin>>
    BY <1>4, AtIs DEF WriteIr, disk, data, Program
  <2>2. /\ sess[s] \in Commands /\ Work(sess[s])
        /\ sess[s].project \in Projects /\ sess[s].up \in BOOLEAN
        /\ files[sess[s].project] \in Nat
    BY <2>1, CommandIs
  <2>3. /\ sess' = [sess EXCEPT ![s] = c] /\ c \in Commands /\ c.pc = "clang"
        /\ c.project = sess[s].project /\ c.todo = sess[s].todo /\ c.list = sess[s].list
    BY <2>0, <2>1, GotoIs DEF Places
  <2>4. Foremost(sess[s].todo) \in sess[s].todo
    BY <2>2, ForemostIs DEF Work, Commands
  <2>5. Fits(ir)'
    BY <2>1, <2>2, <2>4 DEF Fits, Work
  <2>6. Work(c)'
    BY <2>1, <2>2, <2>3, <2>5 DEF Work
  <2>7. sess' \in [Sessions -> Commands \cup {Idle}] /\ OwnWork'
    BY <2>1, <2>3, <2>5, <2>6, SessionStep
  <2> QED
    BY <2>1, <2>7 DEF Shape, Typed, OwnFiles
<1>5. ASSUME NEW s \in Sessions, Clang(s)
      PROVE  Shape'
  <2>0. PICK c : c = Moved(sess[s], "run")
    OBVIOUS
  <2>1. /\ sess[s] # Idle /\ Goto(s, "run") /\ sess[s].pc = "clang"
        /\ bin' = ir
        /\ UNCHANGED <<files, applied, db, half, ran, ir>>
    BY <1>5, AtIs DEF Clang, disk, data, At
  <2>2. sess[s] \in Commands /\ Work(sess[s])
    BY <2>1, CommandIs
  <2>3. /\ sess' = [sess EXCEPT ![s] = c] /\ c \in Commands /\ c.pc = "run"
        /\ c.project = sess[s].project /\ c.todo = sess[s].todo /\ c.list = sess[s].list
    BY <2>0, <2>1, GotoIs DEF Places
  <2>4. Fits(bin)'
    BY <2>1, <2>2 DEF Fits, Work
  <2>5. Work(c)'
    BY <2>1, <2>2, <2>3, <2>4 DEF Work
  <2>6. sess' \in [Sessions -> Commands \cup {Idle}] /\ OwnWork'
    BY <2>1, <2>3, <2>4, <2>5, SessionStep
  <2> QED
    BY <2>1, <2>6 DEF Shape, Typed, OwnFiles
<1>6. ASSUME NEW s \in Sessions, Run(s)
      PROVE  Shape'
  <2>0. PICK c : c = Moved(sess[s], "read")
    OBVIOUS
  <2>1. /\ sess[s] # Idle /\ Goto(s, "read") /\ sess[s].pc = "run"
        /\ Leaves(bin, IF bin.up THEN "whole" ELSE "none")
        /\ ran' = [ran EXCEPT ![bin.project] = IF bin.up THEN @ \cup {bin.m} ELSE @]
        /\ UNCHANGED <<files, applied, ir, bin>>
    BY <1>6, AtIs DEF Run, disk, At
  <2>2. sess[s] \in Commands /\ Work(sess[s])
    BY <2>1, CommandIs
  <2>3. /\ sess' = [sess EXCEPT ![s] = c] /\ c \in Commands /\ c.pc = "read"
        /\ c.project = sess[s].project /\ c.todo = sess[s].todo /\ c.list = sess[s].list
    BY <2>0, <2>1, GotoIs DEF Places
  <2>4. Fits(bin)
    BY <2>1, <2>2 DEF Work
  <2>5. Work(c)'
    BY <2>1, <2>2, <2>3 DEF Work
  <2>6. sess' \in [Sessions -> Commands \cup {Idle}] /\ OwnWork'
    BY <2>1, <2>3, <2>5, SessionStep
  <2>7. /\ ran' \in [Projects -> SUBSET Nat]
        /\ \A p \in Projects : ran'[p] \subseteq 1 .. files[p]
    BY <2>1, <2>4 DEF Shape, Typed, OwnFiles, Fits
  <2>8. /\ db' \in [Projects -> SUBSET Nat] /\ half' \in [Projects -> SUBSET Nat]
        /\ \A p \in Projects :
             db'[p] \cup half'[p] \subseteq 1 .. files[p] /\ db'[p] \cap half'[p] = {}
    BY <2>1, <2>4, LeavesIs
  <2>9. Typed'
    BY <2>1, <2>6, <2>7, <2>8 DEF Shape, Typed
  <2>10. OwnFiles'
    BY <2>1, <2>7, <2>8 DEF Shape, OwnFiles
  <2> QED
    BY <2>6, <2>9, <2>10 DEF Shape
<1>8. ASSUME NEW s \in Sessions, RunFails(s) \/ WriteFails(s) \/ Crash(s)
      PROVE  Shape'
  <2>1. /\ sess[s] # Idle /\ Abandoned(s)
        /\ sess' = [sess EXCEPT ![s] = Idle]
        /\ UNCHANGED <<files, applied, ran, ir, bin>>
    BY <1>8 DEF RunFails, WriteFails, Crash, Ends, Idle, disk
  <2>2. sess' \in [Sessions -> Commands \cup {Idle}] /\ OwnWork'
    BY <2>1, SessionStep
  <2>3. /\ db' \in [Projects -> SUBSET Nat] /\ half' \in [Projects -> SUBSET Nat]
        /\ \A p \in Projects :
             db'[p] \cup half'[p] \subseteq 1 .. files[p] /\ db'[p] \cap half'[p] = {}
    <3>1. CASE UNCHANGED data
      BY <3>1 DEF data, Shape, Typed, OwnFiles
    <3>2. CASE At(s, "run") /\ \E e \in {"none", "part", "whole"} : Leaves(bin, e)
      <4>1. Fits(bin)
        BY <2>1, <3>2, CommandIs DEF At, Work
      <4> QED
        BY <3>2, <4>1, LeavesIs
    <3> QED
      BY <2>1, <3>1, <3>2 DEF Abandoned, BreaksOff
  <2> QED
    BY <2>1, <2>2, <2>3 DEF Shape, Typed, OwnFiles
<1>9. ASSUME NEW s \in Sessions, ReadList(s)
      PROVE  Shape'
  <2>0. PICK c : c = [sess[s] EXCEPT !.pc = "truncate", !.list = NewList(s)]
    OBVIOUS
  <2>1. /\ sess[s] # Idle
        /\ sess' = [sess EXCEPT ![s].pc = "truncate", ![s].list = NewList(s)]
        /\ UNCHANGED <<files, applied, db, half, ran, ir, bin>>
    BY <1>9, AtIs DEF ReadList, disk, data
  <2>2. /\ sess[s] \in Commands /\ Work(sess[s])
        /\ sess[s].project \in Projects /\ sess[s].up \in BOOLEAN
        /\ files[sess[s].project] \in Nat
    BY <2>1, CommandIs
  <2>3. NewList(s) \in Lists(files[sess[s].project])
    BY <2>1, NewListIs
  <2>4. NewList(s) \in Seq(Nat)
    BY <2>2, <2>3, ListsAreLists
  <2>5. /\ sess' = [sess EXCEPT ![s] = c] /\ c \in Commands /\ c.pc = "truncate"
        /\ c.project = sess[s].project /\ c.todo = sess[s].todo /\ c.list = NewList(s)
    BY <2>0, <2>1, <2>2, <2>4 DEF Shape, Typed, Commands, Places
  <2>6. Work(c)'
    BY <2>1, <2>2, <2>3, <2>5 DEF Work
  <2>7. sess' \in [Sessions -> Commands \cup {Idle}] /\ OwnWork'
    BY <2>1, <2>5, <2>6, SessionStep
  <2> QED
    BY <2>1, <2>7 DEF Shape, Typed, OwnFiles
<1>10. ASSUME NEW s \in Sessions, Truncate(s)
       PROVE  Shape'
  <2>0. PICK c : c = Moved(sess[s], "rewrite")
    OBVIOUS
  <2>1. /\ sess[s] # Idle /\ Goto(s, "rewrite")
        /\ applied' = [applied EXCEPT ![sess[s].project] = <<>>]
        /\ UNCHANGED <<files, db, half, ran, ir, bin>>
    BY <1>10, AtIs DEF Truncate, data
  <2>2. sess[s] \in Commands /\ Work(sess[s]) /\ sess[s].project \in Projects
    BY <2>1, CommandIs
  <2>3. /\ sess' = [sess EXCEPT ![s] = c] /\ c \in Commands /\ c.pc = "rewrite"
        /\ c.project = sess[s].project /\ c.todo = sess[s].todo /\ c.list = sess[s].list
    BY <2>0, <2>1, GotoIs DEF Places
  <2>4. Work(c)'
    BY <2>1, <2>2, <2>3 DEF Work
  <2>5. sess' \in [Sessions -> Commands \cup {Idle}] /\ OwnWork'
    BY <2>1, <2>3, <2>4, SessionStep
  <2>6. /\ applied' \in [Projects -> Seq(Nat)]
        /\ \A p \in Projects : applied'[p] \in Lists(files[p])
    BY <2>1, <2>2, NoneListed DEF Shape, Typed, OwnFiles
  <2> QED
    BY <2>1, <2>5, <2>6 DEF Shape, Typed, OwnFiles
<1>11. ASSUME NEW s \in Sessions, Rewrite(s)
       PROVE  Shape'
  <2>0. PICK c : c = IF Rest(s) = {} THEN Idle ELSE Command(sess[s].up, sess[s].project, Rest(s))
    OBVIOUS
  <2>1. /\ sess[s] # Idle
        /\ sess' = [sess EXCEPT ![s] = c]
        /\ applied' = [applied EXCEPT ![sess[s].project] = sess[s].list]
        /\ UNCHANGED <<files, db, half, ran, ir, bin>>
    BY <1>11, <2>0, AtIs DEF Rewrite, data
  <2>2. /\ sess[s] \in Commands /\ Work(sess[s])
        /\ sess[s].project \in Projects /\ sess[s].up \in BOOLEAN
        /\ files[sess[s].project] \in Nat
    BY <2>1, CommandIs
  <2>3. Rest(s) \subseteq 1 .. files[sess[s].project]
    BY <2>2 DEF Rest, Work
  <2>4. c \in Commands \cup {Idle}
    BY <2>0, <2>2, <2>3 DEF Command, Commands, Places
  <2>5. ASSUME c # Idle
        PROVE  Work(c)'
    <3>1. PICK u \in BOOLEAN, p \in Projects, T \in SUBSET Nat :
            T # {} /\ T \subseteq 1 .. files[p] /\ c = Command(u, p, T) /\ files[p] \in Nat
      BY <2>0, <2>2, <2>3, <2>5
    <3> QED
      BY <2>1, <3>1, NoneListed DEF Work, Command
  <2>6. sess' \in [Sessions -> Commands \cup {Idle}] /\ OwnWork'
    BY <2>1, <2>4, <2>5, SessionStep
  <2>7. /\ applied' \in [Projects -> Seq(Nat)]
        /\ \A p \in Projects : applied'[p] \in Lists(files[p])
    BY <2>1, <2>2 DEF Shape, Typed, OwnFiles, Work, Commands
  <2> QED
    BY <2>1, <2>6, <2>7 DEF Shape, Typed, OwnFiles
<1>12. CASE UNCHANGED vars
  BY <1>12 DEF vars, disk, data, Shape, Typed, OwnFiles, OwnWork, Work, Fits
<1> QED
  BY <1>1, <1>2, <1>3, <1>4, <1>5, <1>6, <1>8, <1>9, <1>10, <1>11, <1>12 DEF Next

(* The lists name files of the project, each once, and a command works on *)
(* files of its project: for any number of commands at a time.            *)
THEOREM TypeCorrect == Spec => []TypeOK
<1>1. Shape => TypeOK
  <2> SUFFICES ASSUME Shape PROVE TypeOK
    OBVIOUS
  <2>1. ASSUME NEW p \in Projects
        PROVE  /\ files[p] \in 0 .. MaxFiles[p]
               /\ applied[p] \in Seq(1 .. files[p]) /\ IsInjective(applied[p])
               /\ db[p] \cup half[p] \cup ran[p] \subseteq 1 .. files[p]
               /\ db[p] \cap half[p] = {}
    BY DEF Shape, Typed, OwnFiles, Lists
  <2>2. ASSUME NEW s \in Sessions, sess[s] # Idle
        PROVE  /\ sess[s].project \in Projects
               /\ sess[s].todo # {} /\ sess[s].todo \subseteq 1 .. files[sess[s].project]
    BY <2>2, CommandIs DEF Work
  <2> QED
    BY <2>1, <2>2 DEF TypeOK
<1> QED
  BY <1>1, ShapeInit, ShapeNext, PTL DEF Spec

-----------------------------------------------------------------------------
(* One command at a time: it runs its own program, and marks what ran.     *)

(* A step of the one command, whose new place is that of no other. *)
LEMMA HonestStep ==
  ASSUME OneSession, Shape, Honest, NEW s \in Sessions, NEW c \in Commands \cup {Idle},
         sess' = [sess EXCEPT ![s] = c],
         c.pc = "clang" =>
           ir' = [up |-> c.up, project |-> c.project, m |-> Foremost(c.todo)],
         c.pc = "run" =>
           bin' = [up |-> c.up, project |-> c.project, m |-> Foremost(c.todo)],
         c.pc = "read" /\ c.up => Foremost(c.todo) \in ran'[c.project],
         c.pc \in {"truncate", "rewrite"} => ToSet(c.list) \subseteq ran'[c.project],
         MarkedOnlyIfRun'
  PROVE  Honest'
<1>1. ASSUME NEW t \in Sessions
      PROVE  t = s /\ sess'[t] = c
  BY DEF OneSession, Shape, Typed
<1>2. OwnProgram'
  BY <1>1 DEF OwnProgram, Program
<1>3. ToBeMarked'
  BY <1>1 DEF ToBeMarked
<1> QED
  BY <1>2, <1>3 DEF Honest

LEMMA HonestInit == Init => Honest
BY NoneListed DEF Init, Honest, OwnProgram, ToBeMarked, MarkedOnlyIfRun, Idle

LEMMA HonestNext ==
  ASSUME OneSession
  PROVE  Shape /\ Honest /\ [Next]_vars => Honest'
<1> SUFFICES ASSUME Shape, Honest, [Next]_vars PROVE Honest'
  OBVIOUS
<1>1. ASSUME NEW s \in Sessions, New(s)
      PROVE  Honest'
  <2>1. UNCHANGED <<applied, ran, ir, bin, sess>>
    BY <1>1 DEF New
  <2> QED
    BY <2>1 DEF Honest, OwnProgram, Program, ToBeMarked, MarkedOnlyIfRun
<1>2. ASSUME NEW s \in Sessions, NEW c, c \in Commands \/ c = Idle, c.pc \in {"write", "idle"},
             sess' = [sess EXCEPT ![s] = c], applied' = applied, ran' = ran
      PROVE  Honest'
  <2>1. MarkedOnlyIfRun'
    BY <1>2 DEF Honest, MarkedOnlyIfRun
  <2> QED
    BY <1>2, <2>1, HonestStep
<1>3. ASSUME NEW s \in Sessions, StartUp(s)
      PROVE  Honest'
  <2>1. PICK p, c :
          /\ p \in Projects
          /\ c = Command(TRUE, p, Pending(p)) /\ sess' = [sess EXCEPT ![s] = c]
    BY <1>3 DEF StartUp
  <2>2. c \in Commands /\ c.pc = "write"
    BY <2>1 DEF Command, Commands, Places, Pending, Shape, Typed
  <2>3. applied' = applied /\ ran' = ran
    BY <1>3 DEF StartUp, disk
  <2> QED
    BY <1>2, <2>1, <2>2, <2>3
<1>4. ASSUME NEW s \in Sessions, StartDown(s)
      PROVE  Honest'
  <2>1. PICK p, c :
          /\ p \in Projects
          /\ applied[p] # <<>> /\ c = Command(FALSE, p, {Last(applied[p])})
          /\ sess' = [sess EXCEPT ![s] = c]
    BY <1>4 DEF StartDown
  <2>2. Last(applied[p]) \in Nat
    BY <2>1 DEF Last, Shape, Typed
  <2>3. c \in Commands /\ c.pc = "write"
    BY <2>1, <2>2 DEF Command, Commands, Places
  <2>4. applied' = applied /\ ran' = ran
    BY <1>4 DEF StartDown, disk
  <2> QED
    BY <1>2, <2>1, <2>3, <2>4
<1>5. ASSUME NEW s \in Sessions, WriteIr(s)
      PROVE  Honest'
  <2>1. PICK c : c = Moved(sess[s], "clang")
    OBVIOUS
  <2>2. /\ sess[s] # Idle /\ Goto(s, "clang")
        /\ ir' = [up |-> sess[s].up, project |-> sess[s].project, m |-> Foremost(sess[s].todo)]
        /\ applied' = applied /\ ran' = ran
    BY <1>5, AtIs DEF WriteIr, disk, Program
  <2>3. /\ sess' = [sess EXCEPT ![s] = c] /\ c \in Commands /\ c.pc = "clang"
        /\ c.up = sess[s].up /\ c.project = sess[s].project /\ c.todo = sess[s].todo
    BY <2>1, <2>2, GotoIs DEF Places
  <2>4. MarkedOnlyIfRun'
    BY <2>2 DEF Honest, MarkedOnlyIfRun
  <2> QED
    BY <2>2, <2>3, <2>4, HonestStep
<1>6. ASSUME NEW s \in Sessions, Clang(s)
      PROVE  Honest'
  <2>1. PICK c : c = Moved(sess[s], "run")
    OBVIOUS
  <2>2. /\ sess[s] # Idle /\ Goto(s, "run") /\ bin' = ir /\ sess[s].pc = "clang"
        /\ applied' = applied /\ ran' = ran
    BY <1>6, AtIs DEF Clang, disk, At
  <2>3. /\ sess' = [sess EXCEPT ![s] = c] /\ c \in Commands /\ c.pc = "run"
        /\ c.up = sess[s].up /\ c.project = sess[s].project /\ c.todo = sess[s].todo
    BY <2>1, <2>2, GotoIs DEF Places
  <2>4. ir = [up |-> c.up, project |-> c.project, m |-> Foremost(c.todo)]
    BY <2>2, <2>3 DEF Honest, OwnProgram, Program
  <2>5. MarkedOnlyIfRun'
    BY <2>2 DEF Honest, MarkedOnlyIfRun
  <2> QED
    BY <2>2, <2>3, <2>4, <2>5, HonestStep
<1>7. ASSUME NEW s \in Sessions, Run(s)
      PROVE  Honest'
  <2>1. PICK c : c = Moved(sess[s], "read")
    OBVIOUS
  <2>2. /\ sess[s] # Idle /\ Goto(s, "read") /\ sess[s].pc = "run"
        /\ ran' = [ran EXCEPT ![bin.project] = IF bin.up THEN @ \cup {bin.m} ELSE @]
        /\ applied' = applied
    BY <1>7, AtIs DEF Run, disk, At
  <2>3. sess[s].project \in Projects
    BY <2>2, CommandIs
  <2>4. /\ sess' = [sess EXCEPT ![s] = c] /\ c \in Commands /\ c.pc = "read"
        /\ c.up = sess[s].up /\ c.project = sess[s].project /\ c.todo = sess[s].todo
    BY <2>1, <2>2, GotoIs DEF Places
  <2>5. bin = [up |-> c.up, project |-> c.project, m |-> Foremost(c.todo)]
    BY <2>2, <2>4 DEF Honest, OwnProgram, Program
  <2>6. bin.up = c.up /\ bin.project = c.project /\ bin.m = Foremost(c.todo)
    BY <2>5
  <2>7. c.up => Foremost(c.todo) \in ran'[c.project]
    BY <2>2, <2>3, <2>4, <2>6 DEF Shape, Typed
  <2>8. MarkedOnlyIfRun'
    <3>1. \A p \in Projects : ran[p] \subseteq ran'[p]
      BY <2>2 DEF Shape, Typed
    <3> QED
      BY <2>2, <3>1 DEF Honest, MarkedOnlyIfRun
  <2> QED
    BY <2>4, <2>7, <2>8, HonestStep
<1>8. ASSUME NEW s \in Sessions, RunFails(s) \/ WriteFails(s) \/ Crash(s)
      PROVE  Honest'
  <2>1. PICK c : c = Idle
    OBVIOUS
  <2>2. sess' = [sess EXCEPT ![s] = c] /\ applied' = applied /\ ran' = ran
    BY <1>8, <2>1 DEF RunFails, WriteFails, Crash, Ends, disk
  <2>3. c.pc = "idle"
    BY <2>1 DEF Idle
  <2> QED
    BY <1>2, <2>1, <2>2, <2>3
<1>9. ASSUME NEW s \in Sessions, ReadList(s)
      PROVE  Honest'
  <2>1. PICK L, c : L = NewList(s) /\ c = [sess[s] EXCEPT !.pc = "truncate", !.list = L]
    OBVIOUS
  <2>2. /\ sess[s] # Idle /\ sess[s].pc = "read"
        /\ sess' = [sess EXCEPT ![s].pc = "truncate", ![s].list = L]
        /\ applied' = applied /\ ran' = ran
    BY <1>9, <2>1, AtIs DEF ReadList, disk, At
  <2>3. /\ sess[s] \in Commands /\ sess[s].project \in Projects
        /\ files[sess[s].project] \in Nat
    BY <2>2, CommandIs
  <2>4. /\ L \in Lists(files[sess[s].project])
        /\ ToSet(L) \subseteq
             ToSet(applied[sess[s].project]) \cup
               (IF sess[s].up THEN {Foremost(sess[s].todo)} ELSE {})
    BY <2>1, <2>2, NewListIs
  <2>5. L \in Seq(Nat)
    BY <2>3, <2>4, ListsAreLists
  <2>6. /\ sess' = [sess EXCEPT ![s] = c] /\ c \in Commands /\ c.pc = "truncate"
        /\ c.project = sess[s].project /\ c.list = L
    BY <2>1, <2>2, <2>3, <2>5 DEF Shape, Typed, Commands, Places
  <2>7. ToSet(L) \subseteq ran[c.project]
    BY <2>2, <2>3, <2>4, <2>6 DEF Honest, ToBeMarked, MarkedOnlyIfRun
  <2>8. MarkedOnlyIfRun'
    BY <2>2 DEF Honest, MarkedOnlyIfRun
  <2> QED
    BY <2>2, <2>6, <2>7, <2>8, HonestStep
<1>10. ASSUME NEW s \in Sessions, Truncate(s)
       PROVE  Honest'
  <2>1. PICK c : c = Moved(sess[s], "rewrite")
    OBVIOUS
  <2>2. /\ sess[s] # Idle /\ Goto(s, "rewrite") /\ sess[s].pc = "truncate"
        /\ applied' = [applied EXCEPT ![sess[s].project] = <<>>] /\ ran' = ran
    BY <1>10, AtIs DEF Truncate, At
  <2>3. /\ sess' = [sess EXCEPT ![s] = c] /\ c \in Commands /\ c.pc = "rewrite"
        /\ c.project = sess[s].project /\ c.list = sess[s].list
    BY <2>1, <2>2, GotoIs DEF Places
  <2>4. ToSet(c.list) \subseteq ran[c.project]
    BY <2>2, <2>3 DEF Honest, ToBeMarked
  <2>5. MarkedOnlyIfRun'
    BY <2>2, NoneListed DEF Honest, MarkedOnlyIfRun, Shape, Typed
  <2> QED
    BY <2>2, <2>3, <2>4, <2>5, HonestStep
<1>11. ASSUME NEW s \in Sessions, Rewrite(s)
       PROVE  Honest'
  <2>1. PICK c :
          c = IF Rest(s) = {} THEN Idle ELSE Command(sess[s].up, sess[s].project, Rest(s))
    OBVIOUS
  <2>2. /\ sess[s] # Idle /\ sess[s].pc = "rewrite"
        /\ sess' = [sess EXCEPT ![s] = c]
        /\ applied' = [applied EXCEPT ![sess[s].project] = sess[s].list] /\ ran' = ran
    BY <1>11, <2>1, AtIs DEF Rewrite, At
  <2>3. sess[s] \in Commands
    BY <2>2, CommandIs
  <2>4. (c \in Commands \/ c = Idle) /\ c.pc \in {"write", "idle"}
    BY <2>1, <2>3 DEF Command, Commands, Places, Idle, Rest
  <2>5. ToSet(sess[s].list) \subseteq ran[sess[s].project]
    BY <2>2 DEF Honest, ToBeMarked
  <2>6. MarkedOnlyIfRun'
    BY <2>2, <2>5 DEF Honest, MarkedOnlyIfRun, Shape, Typed
  <2> QED
    BY <2>2, <2>4, <2>6, HonestStep
<1>12. CASE UNCHANGED vars
  BY <1>12 DEF vars, disk, Honest, OwnProgram, Program, ToBeMarked, MarkedOnlyIfRun
<1> QED
  BY <1>1, <1>3, <1>4, <1>5, <1>6, <1>7, <1>8, <1>9, <1>10, <1>11, <1>12 DEF Next

(* "Only marks as applied if the process exits successfully": with one     *)
(* command at a time a migration is in the list only if its own SQL        *)
(* succeeded, wherever commands fail or are interrupted.                           *)
THEOREM OnlyWhatRanIsMarked ==
  ASSUME OneSession
  PROVE  Spec => []MarkedOnlyIfRun
<1>1. Init => Shape /\ Honest
  BY ShapeInit, HonestInit
<1>2. Shape /\ Honest /\ [Next]_vars => (Shape /\ Honest)'
  BY ShapeNext, HonestNext
<1>3. Shape /\ Honest => MarkedOnlyIfRun
  BY DEF Honest
<1> QED
  BY <1>1, <1>2, <1>3, PTL DEF Spec

-----------------------------------------------------------------------------
(* One command at a time: how the list and the database agree.             *)

(* The list of the first n migrations. *)
LEMMA IotaIs ==
  ASSUME NEW n \in Nat
  PROVE  /\ Iota(n) \in Seq(Nat) /\ Len(Iota(n)) = n /\ DOMAIN Iota(n) = 1 .. n
         /\ \A i \in 1 .. n : Iota(n)[i] = i
         /\ ToSet(Iota(n)) = 1 .. n
         /\ Iota(0) = <<>>
<1>1. /\ Iota(n) \in [1 .. n -> Nat] /\ DOMAIN Iota(n) = 1 .. n
      /\ \A i \in 1 .. n : Iota(n)[i] = i
  BY DEF Iota
<1>2. Iota(n) \in Seq(Nat) /\ Len(Iota(n)) = n
  BY <1>1, MapIsSeq
<1>3. ToSet(Iota(n)) = 1 .. n
  BY <1>1 DEF ToSet
<1>4. Iota(0) = <<>>
  BY DEF Iota
<1> QED
  BY <1>1, <1>2, <1>3, <1>4

(* Marking one more, and taking the last one off. *)
LEMMA IotaGrows ==
  ASSUME NEW n \in Nat
  PROVE  Append(Iota(n), n + 1) = Iota(n + 1)
<1> DEFINE A == Append(Iota(n), n + 1)
           B == Iota(n + 1)
<1>1. /\ Iota(n) \in Seq(Nat) /\ Len(Iota(n)) = n
      /\ \A i \in 1 .. n : Iota(n)[i] = i
  BY IotaIs
<1>2. /\ A \in Seq(Nat) /\ Len(A) = n + 1 /\ A[n + 1] = n + 1
      /\ \A i \in 1 .. n : A[i] = Iota(n)[i]
  BY <1>1
<1>3. /\ B \in Seq(Nat) /\ Len(B) = n + 1
      /\ \A i \in 1 .. (n + 1) : B[i] = i
  BY IotaIs
<1> HIDE DEF A, B
<1>4. \A i \in 1 .. (n + 1) : A[i] = B[i]
  BY <1>1, <1>2, <1>3
<1> QED
  BY <1>2, <1>3, <1>4, SeqEqual DEF A, B

LEMMA IotaShrinks ==
  ASSUME NEW n \in Nat
  PROVE  Without(Iota(n + 1), n + 1) = Iota(n)
<1> DEFINE L == Iota(n + 1)
           i == CHOOSE i \in DOMAIN L : L[i] = n + 1
           A == RemoveAt(L, i)
           B == Iota(n)
<1>1. /\ L \in Seq(Nat) /\ Len(L) = n + 1 /\ DOMAIN L = 1 .. (n + 1)
      /\ \A j \in 1 .. (n + 1) : L[j] = j
      /\ ToSet(L) = 1 .. (n + 1)
  BY IotaIs
<1>2. L \in Seq(1 .. (n + 1))
  BY <1>1, MapIsSeq
<1>3. Without(L, n + 1) = A
  BY <1>1 DEF Without
<1>4. i = n + 1
  BY <1>1
<1> HIDE DEF L, i
<1>5. /\ A \in Seq(1 .. (n + 1)) /\ Len(A) = n
      /\ \A j \in 1 .. n : A[j] = L[j]
  <2>1. n + 1 \in Nat /\ i \in 1 .. Len(L)
    BY <1>1, <1>4
  <2>2. /\ A \in Seq(1 .. (n + 1)) /\ Len(A) = Len(L) - 1
        /\ \A j \in 1 .. (Len(L) - 1) : A[j] = IF j < i THEN L[j] ELSE L[j + 1]
    BY <1>2, <2>1, RemoveAtIs
  <2> QED
    BY <1>1, <2>2, <1>4
<1>6. /\ B \in Seq(Nat) /\ Len(B) = n
      /\ \A j \in 1 .. n : B[j] = j
  BY IotaIs
<1> HIDE DEF A, B
<1>7. A \in Seq(Nat) /\ \A j \in 1 .. n : A[j] = B[j]
  BY <1>1, <1>5, <1>6, 1 .. (n + 1) \subseteq Nat
<1>8. A = B
  BY <1>5, <1>6, <1>7, SeqEqual
<1> QED
  BY <1>3, <1>8 DEF L, B

LEMMA FirstOf ==
  ASSUME NEW a \in Nat, NEW b \in Nat
  PROVE  /\ a <= b => Foremost(a .. b) = a
         /\ Foremost({a}) = a
<1>1. ASSUME a <= b
      PROVE  Foremost(a .. b) = a
  <2>1. Foremost(a .. b) \in a .. b /\ \A m \in a .. b : Foremost(a .. b) <= m
    BY <1>1, ForemostIs, a .. b \in SUBSET Nat, a .. b # {}
  <2> QED
    BY <1>1, <2>1
<1>2. Foremost({a}) = a
  BY ForemostIs
<1> QED
  BY <1>1, <1>2

(* What a step makes of a database that is in step with the first n. *)
LEMMA InStepRun ==
  ASSUME NEW n \in Nat, NEW B, NEW H, NEW U, NEW D, InStep(B, H, U, D, n), NEW m
  PROVE  /\ m = n + 1 => InStep(B \cup {m}, H \ {m}, U \ {m}, D \ {m}, n + 1)
         /\ m = n /\ n # 0 => InStep(B \ {m}, H \ {m}, U \ {m}, D \ {m}, n - 1)
<1>1. CASE m = n + 1
  BY <1>1 DEF InStep
<1>2. CASE m = n /\ n # 0
  BY <1>2 DEF InStep
<1> QED
  BY <1>1, <1>2

LEMMA InStepBreaks ==
  ASSUME NEW n \in Nat, NEW B, NEW H, NEW U, NEW D, InStep(B, H, U, D, n), NEW m,
         NEW B1, B \ {m} \subseteq B1, B1 \subseteq B \cup {m},
         NEW H1, H1 \subseteq H \cup {m}
  PROVE  /\ m = n + 1 => InStep(B1, H1, U \cup {m}, D, n)
         /\ m = n /\ n # 0 => InStep(B1, H1, U, D \cup {m}, n)
<1>1. CASE m = n + 1
  BY <1>1 DEF InStep
<1>2. CASE m = n /\ n # 0
  BY <1>2 DEF InStep
<1> QED
  BY <1>1, <1>2

LEMMA InStepUnrecorded ==
  ASSUME NEW n \in Nat, NEW B, NEW H, NEW U, NEW D, InStep(B, H, U, D, n)
  PROVE  /\ n # 0 /\ n \notin D => InStep(B, H, U \cup {n}, D, n - 1)
         /\ n + 1 \notin U => InStep(B, H, U, D \cup {n + 1}, n + 1)
<1>1. CASE n # 0 /\ n \notin D
  BY <1>1 DEF InStep
<1>2. CASE n + 1 \notin U
  BY <1>2 DEF InStep
<1> QED
  BY <1>1, <1>2

(* What becomes of the programs that broke off. *)
LEMMA TornSame ==
  ASSUME UNCHANGED torn, NEW p
  PROVE  TornUp(p)' = TornUp(p) /\ TornDown(p)' = TornDown(p)
BY DEF TornUp, TornDown, Torn

LEMMA TornMore ==
  ASSUME NEW u \in BOOLEAN, NEW q, NEW m,
         torn' = torn \cup {[up |-> u, project |-> q, m |-> m]}, NEW p
  PROVE  /\ TornUp(p)' = TornUp(p) \cup (IF u /\ p = q THEN {m} ELSE {})
         /\ TornDown(p)' = TornDown(p) \cup (IF ~u /\ p = q THEN {m} ELSE {})
<1> DEFINE r == [up |-> u, project |-> q, m |-> m]
<1>1. r.up = u /\ r.project = q /\ r.m = m
  OBVIOUS
<1> HIDE DEF r
<1>2. torn' = torn \cup {r}
  BY DEF r
<1>3. ASSUME NEW b \in BOOLEAN
      PROVE  Torn(p, b)' = Torn(p, b) \cup (IF u = b /\ p = q THEN {m} ELSE {})
  BY <1>1, <1>2 DEF Torn
<1>4. (u = TRUE <=> u) /\ (u = FALSE <=> ~u)
  OBVIOUS
<1> QED
  BY <1>3, <1>4 DEF TornUp, TornDown

LEMMA TornOne ==
  ASSUME NEW u \in BOOLEAN, NEW q, NEW m,
         torn' = torn \cup {[up |-> u, project |-> q, m |-> m]}
  PROVE  /\ TornUp(q)' = TornUp(q) \cup (IF u THEN {m} ELSE {})
         /\ TornDown(q)' = TornDown(q) \cup (IF ~u THEN {m} ELSE {})
         /\ \A p \in Projects \ {q} : TornUp(p)' = TornUp(p) /\ TornDown(p)' = TornDown(p)
<1>1. /\ TornUp(q)' = TornUp(q) \cup (IF u THEN {m} ELSE {})
      /\ TornDown(q)' = TornDown(q) \cup (IF ~u THEN {m} ELSE {})
  BY TornMore
<1>2. ASSUME NEW p \in Projects \ {q}
      PROVE  TornUp(p)' = TornUp(p) /\ TornDown(p)' = TornDown(p)
  <2>1. /\ TornUp(p)' = TornUp(p) \cup (IF u /\ p = q THEN {m} ELSE {})
        /\ TornDown(p)' = TornDown(p) \cup (IF ~u /\ p = q THEN {m} ELSE {})
    BY TornMore
  <2> QED
    BY <2>1
<1> QED
  BY <1>1, <1>2

LEMMA TornLess ==
  ASSUME NEW q, NEW m, torn' = {t \in torn : t.project # q \/ t.m # m}, NEW p
  PROVE  /\ TornUp(p)' = IF p = q THEN TornUp(p) \ {m} ELSE TornUp(p)
         /\ TornDown(p)' = IF p = q THEN TornDown(p) \ {m} ELSE TornDown(p)
<1>1. ASSUME NEW b
      PROVE  Torn(p, b)' = IF p = q THEN Torn(p, b) \ {m} ELSE Torn(p, b)
  BY DEF Torn
<1> QED
  BY <1>1 DEF TornUp, TornDown

LEMMA TrackingInit == Init => Tracking
<1> SUFFICES ASSUME Init, NEW p \in Projects PROVE Tracks(p, 0) /\ 0 \in 0 .. files[p]
  BY DEF Tracking
<1>1. TornUp(p) = {} /\ TornDown(p) = {}
  BY DEF Init, TornUp, TornDown, Torn
<1>2. Reflects(p, 0)
  BY <1>1 DEF Init, Reflects, InStep
<1>3. \A s \in Sessions : ~On(s, p)
  BY DEF Init, On
<1>4. applied[p] = Iota(0) /\ files[p] = 0
  BY IotaIs DEF Init
<1> QED
  BY <1>2, <1>3, <1>4 DEF Tracks

(* What is left of a project after a step of the one command. *)
LEMMA TrackStep ==
  ASSUME OneSession, Shape, NEW s \in Sessions, NEW c \in Commands \cup {Idle},
         sess' = [sess EXCEPT ![s] = c],
         NEW p \in Projects, NEW n \in Nat,
         Reflects(p, n)',
         (c # Idle /\ c.project = p => c.pc \in Before) => applied'[p] = Iota(n),
         c # Idle /\ c.project = p =>
           IF c.pc \in Before
           THEN c.todo = IF c.up THEN (n + 1) .. files'[p] ELSE {n}
           ELSE /\ c.todo = IF c.up THEN n .. files'[p] ELSE {n + 1}
                /\ IF c.up THEN n \notin TornDown(p)' ELSE n + 1 \notin TornUp(p)'
                /\ c.pc # "rewrite" => applied'[p] = IF c.up THEN Iota(n - 1) ELSE Iota(n + 1)
                /\ c.pc # "read" => c.list = Iota(n)
  PROVE  Tracks(p, n)'
<1>1. ASSUME NEW t \in Sessions
      PROVE  t = s /\ sess'[t] = c
  BY DEF OneSession, Shape, Typed
<1>2. ((\A t \in Sessions : On(t, p) => sess[t].pc \in Before) => applied[p] = Iota(n))'
  BY <1>1 DEF On
<1>3. ASSUME NEW t \in Sessions, On(t, p)'
      PROVE  (IF sess[t].pc \in Before
              THEN sess[t].todo = IF sess[t].up THEN (n + 1) .. files[p] ELSE {n}
              ELSE HasRun(t, p, n))'
  BY <1>1, <1>3 DEF On, HasRun
<1> QED
  BY <1>2, <1>3 DEF Tracks

LEMMA TrackRan ==
  ASSUME OneSession, Shape, NEW s \in Sessions, NEW c \in Commands,
         sess' = [sess EXCEPT ![s] = c], c.pc \notin Before,
         NEW p \in Projects, NEW n \in Nat, c.project = p,
         Reflects(p, n)',
         c.todo = IF c.up THEN n .. files'[p] ELSE {n + 1},
         IF c.up THEN n \notin TornDown(p)' ELSE n + 1 \notin TornUp(p)',
         c.pc # "rewrite" => applied'[p] = IF c.up THEN Iota(n - 1) ELSE Iota(n + 1),
         c.pc # "read" => c.list = Iota(n)
  PROVE  Tracks(p, n)'
<1>1. c \in Commands \cup {Idle} /\ c # Idle
  BY DEF Commands, Idle, Places
<1> QED
  BY <1>1, TrackStep

(* The other projects are not concerned. *)
LEMMA TrackElsewhere ==
  ASSUME OneSession, Shape, NEW s \in Sessions, NEW c \in Commands \cup {Idle},
         sess' = [sess EXCEPT ![s] = c],
         NEW p \in Projects, NEW n \in Nat, Tracks(p, n),
         ~On(s, p), c # Idle => c.project # p,
         db'[p] = db[p], half'[p] = half[p], applied'[p] = applied[p],
         TornUp(p)' = TornUp(p), TornDown(p)' = TornDown(p)
  PROVE  Tracks(p, n)'
<1>1. Reflects(p, n) /\ applied[p] = Iota(n)
  BY DEF Tracks, OneSession
<1>2. Reflects(p, n)'
  BY <1>1 DEF Reflects
<1> QED
  BY <1>1, <1>2, TrackStep

(* The command of the project q moves, and no other project changes. *)
LEMMA TrackOn ==
  ASSUME OneSession, Shape, Tracking, lost \subseteq lost',
         NEW s \in Sessions, NEW c \in Commands \cup {Idle}, NEW q \in Projects,
         sess' = [sess EXCEPT ![s] = c], UNCHANGED files,
         On(s, q) \/ sess[s] = Idle, c # Idle => c.project = q,
         \A p \in Projects \ {q} :
           db'[p] = db[p] /\ half'[p] = half[p] /\ applied'[p] = applied[p],
         \A p \in Projects \ {q} : TornUp(p)' = TornUp(p) /\ TornDown(p)' = TornDown(p),
         q \notin lost' => \E n \in 0 .. files[q] : Tracks(q, n)'
  PROVE  Tracking'
<1>1. ASSUME NEW p \in Projects, p \notin lost', p # q
      PROVE  (\E n \in 0 .. files[p] : Tracks(p, n))'
  <2>1. PICK n \in 0 .. files[p] : Tracks(p, n)
    BY <1>1 DEF Tracking
  <2>2. n \in Nat /\ ~On(s, p)
    BY <1>1 DEF On, Shape, Typed
  <2>3. /\ db'[p] = db[p] /\ half'[p] = half[p] /\ applied'[p] = applied[p]
        /\ TornUp(p)' = TornUp(p) /\ TornDown(p)' = TornDown(p)
        /\ c # Idle => c.project # p
    BY <1>1
  <2>4. Tracks(p, n)'
    BY <2>1, <2>2, <2>3, TrackElsewhere
  <2> QED
    BY <2>1, <2>4
<1> QED
  BY <1>1 DEF Tracking

(* The command of a project, where the list and the database stand. *)
LEMMA TrackIs ==
  ASSUME OneSession, Shape, Tracking, NEW s \in Sessions, sess[s] # Idle,
         sess[s].project \notin lost
  PROVE  \E n \in 0 .. files[sess[s].project] :
           /\ n \in Nat /\ Reflects(sess[s].project, n)
           /\ IF sess[s].pc \in Before
              THEN /\ applied[sess[s].project] = Iota(n)
                   /\ sess[s].todo = IF sess[s].up THEN (n + 1) .. files[sess[s].project] ELSE {n}
              ELSE HasRun(s, sess[s].project, n)
<1>1. sess[s].project \in Projects /\ files[sess[s].project] \in Nat
  BY CommandIs
<1>2. PICK n \in 0 .. files[sess[s].project] : Tracks(sess[s].project, n)
  BY <1>1 DEF Tracking
<1>3. On(s, sess[s].project) /\ n \in Nat
  BY <1>1 DEF On
<1>4. (\A t \in Sessions : On(t, sess[s].project) => sess[t].pc \in Before)
        <=> sess[s].pc \in Before
  BY <1>3 DEF OneSession
<1> QED
  BY <1>2, <1>3, <1>4 DEF Tracks

(* The project of a command, what the command does to it, and its migration. *)
LEMMA TrackNow ==
  ASSUME OneSession, Shape, Tracking, NEW s \in Sessions, sess[s] # Idle,
         NEW p, p = sess[s].project, p \notin lost
  PROVE  \E n \in 0 .. files[p] :
           /\ n \in Nat /\ Reflects(p, n) /\ files[p] \in Nat
           /\ IF sess[s].pc \in Before
              THEN /\ applied[p] = Iota(n)
                   /\ sess[s].todo = IF sess[s].up THEN (n + 1) .. files[p] ELSE {n}
                   /\ Foremost(sess[s].todo) = IF sess[s].up THEN n + 1 ELSE n
                   /\ IF sess[s].up THEN n + 1 <= files[p] ELSE n # 0
              ELSE /\ HasRun(s, p, n)
                   /\ Foremost(sess[s].todo) = IF sess[s].up THEN n ELSE n + 1
                   /\ IF sess[s].up THEN n # 0 ELSE n + 1 <= files[p]
<1>1. /\ sess[s].todo # {} /\ sess[s].todo \subseteq 1 .. files[p] /\ files[p] \in Nat
  BY CommandIs DEF Work
<1>2. PICK n \in 0 .. files[p] :
        /\ n \in Nat /\ Reflects(p, n)
        /\ IF sess[s].pc \in Before
           THEN /\ applied[p] = Iota(n)
                /\ sess[s].todo = IF sess[s].up THEN (n + 1) .. files[p] ELSE {n}
           ELSE HasRun(s, p, n)
  BY TrackIs
<1>3. CASE sess[s].pc \in Before
  <2>1. CASE sess[s].up
    <3>1. n + 1 <= files[p] /\ n + 1 \in Nat
      BY <1>1, <1>2, <1>3, <2>1
    <3>2. Foremost(sess[s].todo) = n + 1
      BY <1>1, <1>2, <1>3, <2>1, <3>1, FirstOf
    <3> QED
      BY <1>1, <1>2, <1>3, <2>1, <3>1, <3>2
  <2>2. CASE ~sess[s].up
    <3>1. Foremost(sess[s].todo) = n /\ n # 0
      BY <1>1, <1>2, <1>3, <2>2, FirstOf
    <3> QED
      BY <1>1, <1>2, <1>3, <2>2, <3>1
  <2> QED
    BY <2>1, <2>2
<1>4. CASE sess[s].pc \notin Before
  <2>0. sess[s].todo = IF sess[s].up THEN n .. files[p] ELSE {n + 1}
    BY <1>2, <1>4 DEF HasRun
  <2>1. CASE sess[s].up
    <3>1. n <= files[p] /\ n # 0
      BY <1>1, <1>2, <2>0, <2>1
    <3>2. Foremost(sess[s].todo) = n
      BY <1>1, <1>2, <2>0, <2>1, <3>1, FirstOf
    <3> QED
      BY <1>1, <1>2, <1>4, <2>1, <3>1, <3>2
  <2>2. CASE ~sess[s].up
    <3>1. n + 1 <= files[p] /\ n + 1 \in Nat
      BY <1>1, <1>2, <2>0, <2>2
    <3>2. Foremost(sess[s].todo) = n + 1
      BY <2>0, <2>2, <3>1, FirstOf
    <3> QED
      BY <1>1, <1>2, <1>4, <2>2, <3>1, <3>2
  <2> QED
    BY <2>1, <2>2
<1> QED
  BY <1>3, <1>4

LEMMA TrackingNext ==
  ASSUME OneSession
  PROVE  Shape /\ Honest /\ Tracking /\ [Next]_vars => Tracking'
<1> SUFFICES ASSUME Shape, Honest, Tracking, [Next]_vars PROVE Tracking'
  OBVIOUS
<1>1. ASSUME NEW s \in Sessions, New(s)
      PROVE  Tracking'
  <2>1. PICK q \in Projects : files' = [files EXCEPT ![q] = @ + 1]
    BY <1>1 DEF New
  <2>2. UNCHANGED <<applied, db, half, sess, torn, lost>> /\ sess[s] = Idle
    BY <1>1 DEF New, data
  <2>3. \A t \in Sessions : sess[t] = Idle
    BY <2>2 DEF OneSession
  <2>4. ASSUME NEW p \in Projects, p \notin lost
        PROVE  (\E n \in 0 .. files[p] : Tracks(p, n))'
    <3>1. PICK n \in 0 .. files[p] : Tracks(p, n)
      BY <2>4 DEF Tracking
    <3>2. n \in 0 .. files'[p]
      BY <2>1 DEF Shape, Typed
    <3>3. Reflects(p, n)'
      BY <2>2, <3>1, TornSame DEF Tracks, Reflects
    <3>4. Tracks(p, n)'
      BY <2>2, <2>3, <3>1, <3>3 DEF Tracks, On
    <3> QED
      BY <3>2, <3>4
  <2> QED
    BY <2>2, <2>4 DEF Tracking
<1>2. ASSUME NEW s \in Sessions, StartUp(s)
      PROVE  Tracking'
  <2>1. PICK p, T, c :
          /\ p \in Projects
          /\ T = Pending(p) /\ T # {} /\ c = Command(TRUE, p, T)
          /\ sess' = [sess EXCEPT ![s] = c]
    BY <1>2 DEF StartUp
  <2>2. UNCHANGED <<files, applied, db, half, torn, lost>> /\ sess[s] = Idle
    BY <1>2 DEF StartUp, disk, data
  <2>3. /\ c \in Commands /\ c.pc = "write" /\ c.up = TRUE /\ c.project = p /\ c.todo = T
    BY <2>1 DEF Command, Commands, Places, Pending, Shape, Typed
  <2>4. ASSUME p \notin lost
        PROVE  \E n \in 0 .. files[p] : Tracks(p, n)'
    <3>1. PICK n \in 0 .. files[p] : Tracks(p, n)
      BY <2>1, <2>4 DEF Tracking
    <3>2. n \in Nat /\ files[p] \in Nat /\ n <= files[p]
      BY <2>1, <3>1 DEF Shape, Typed
    <3>3. Reflects(p, n) /\ applied[p] = Iota(n)
      BY <2>2, <3>1 DEF Tracks, OneSession, On
    <3>4. T = (n + 1) .. files[p]
      <4>1. T = (1 .. files[p]) \ (1 .. n)
        BY <2>1, <3>2, <3>3, IotaIs DEF Pending
      <4> QED
        BY <3>2, <4>1
    <3>5. Reflects(p, n)'
      BY <2>2, <3>3, TornSame DEF Reflects
    <3>6. Tracks(p, n)'
      BY <2>1, <2>2, <2>3, <3>2, <3>3, <3>4, <3>5, TrackStep DEF Before
    <3> QED
      BY <3>6
  <2>5. \A q \in Projects \ {p} : TornUp(q)' = TornUp(q) /\ TornDown(q)' = TornDown(q)
    BY <2>2, TornSame
  <2> QED
    BY <2>1, <2>2, <2>3, <2>4, <2>5, TrackOn
<1>3. ASSUME NEW s \in Sessions, StartDown(s)
      PROVE  Tracking'
  <2>1. PICK p, m, c :
          /\ p \in Projects
          /\ applied[p] # <<>> /\ m = Last(applied[p]) /\ c = Command(FALSE, p, {m})
          /\ sess' = [sess EXCEPT ![s] = c]
    BY <1>3 DEF StartDown
  <2>2. UNCHANGED <<files, applied, db, half, torn, lost>> /\ sess[s] = Idle
    BY <1>3 DEF StartDown, disk, data
  <2>3. m \in Nat
    BY <2>1 DEF Last, Shape, Typed
  <2>4. /\ c \in Commands /\ c.pc = "write" /\ c.up = FALSE /\ c.project = p /\ c.todo = {m}
    BY <2>1, <2>3 DEF Command, Commands, Places
  <2>5. ASSUME p \notin lost
        PROVE  \E n \in 0 .. files[p] : Tracks(p, n)'
    <3>1. PICK n \in 0 .. files[p] : Tracks(p, n)
      BY <2>1, <2>5 DEF Tracking
    <3>2. n \in Nat /\ files[p] \in Nat
      BY <2>1, <3>1 DEF Shape, Typed
    <3>3. Reflects(p, n) /\ applied[p] = Iota(n)
      BY <2>2, <3>1 DEF Tracks, OneSession, On
    <3>4. n # 0
      BY <2>1, <3>3, IotaIs
    <3>5. m = n
      <4>1. Len(Iota(n)) = n /\ Iota(n)[n] = n
        BY <3>2, <3>4, IotaIs
      <4> QED
        BY <2>1, <3>3, <4>1 DEF Last
    <3>6. Reflects(p, n)'
      BY <2>2, <3>3, TornSame DEF Reflects
    <3>7. Tracks(p, n)'
      BY <2>1, <2>2, <2>4, <3>2, <3>3, <3>5, <3>6, TrackStep DEF Before
    <3> QED
      BY <3>7
  <2>6. \A q \in Projects \ {p} : TornUp(q)' = TornUp(q) /\ TornDown(q)' = TornDown(q)
    BY <2>2, TornSame
  <2> QED
    BY <2>1, <2>2, <2>4, <2>5, <2>6, TrackOn
<1>4. ASSUME NEW s \in Sessions, NEW c \in Commands \cup {Idle},
             sess[s] # Idle, sess[s].pc \in Before,
             sess' = [sess EXCEPT ![s] = c],
             UNCHANGED <<files, applied, db, half, torn, lost>>,
             c # Idle => /\ c.pc \in Before /\ c.up = sess[s].up
                         /\ c.project = sess[s].project /\ c.todo = sess[s].todo
      PROVE  Tracking'
  <2>1. PICK p, u, T :
            /\ p \in Projects /\ p = sess[s].project /\ u = sess[s].up /\ T = sess[s].todo
    BY <1>4, CommandIs
  <2>2. c # Idle => c.pc \in Before /\ c.up = u /\ c.project = p /\ c.todo = T
    BY <1>4, <2>1
  <2>3. ASSUME p \notin lost
        PROVE  \E n \in 0 .. files[p] : Tracks(p, n)'
    <3>1. PICK n \in 0 .. files[p] :
            n \in Nat /\ Reflects(p, n) /\ applied[p] = Iota(n)
            /\ T = IF u THEN (n + 1) .. files[p] ELSE {n}
      BY <1>4, <2>1, <2>3, TrackIs
    <3>2. Reflects(p, n)'
      BY <1>4, <3>1, TornSame DEF Reflects
    <3>3. p \in Projects
      BY <2>1
    <3>4. Tracks(p, n)'
      BY <1>4, <2>2, <3>1, <3>2, <3>3, TrackStep
    <3> QED
      BY <3>1, <3>4
  <2>4. On(s, p)
    BY <1>4, <2>1 DEF On
  <2>5. \A q \in Projects \ {p} : TornUp(q)' = TornUp(q) /\ TornDown(q)' = TornDown(q)
    BY <1>4, TornSame
  <2> QED
    BY <1>4, <2>1, <2>2, <2>3, <2>4, <2>5, TrackOn
<1>5. ASSUME NEW s \in Sessions, WriteIr(s) \/ Clang(s)
      PROVE  Tracking'
  <2>1. PICK l, c :
            /\ l \in {"clang", "run"} /\ Goto(s, l) /\ c = Moved(sess[s], l)
    BY <1>5 DEF WriteIr, Clang
  <2>2. /\ sess[s] # Idle /\ sess[s].pc \in Before
        /\ UNCHANGED <<files, applied, db, half, torn, lost>>
    BY <1>5, AtIs DEF WriteIr, Clang, At, Before, disk, data
  <2>3. l \in Places /\ l \in Before
    BY <2>1 DEF Places, Before
  <2>4. /\ sess' = [sess EXCEPT ![s] = c] /\ c \in Commands /\ c.pc = l
        /\ c.up = sess[s].up /\ c.project = sess[s].project /\ c.todo = sess[s].todo
    BY <2>1, <2>2, <2>3, GotoIs
  <2> QED
    BY <1>4, <2>2, <2>3, <2>4
<1>6. ASSUME NEW s \in Sessions, Run(s)
      PROVE  Tracking'
  <2>1. PICK p, u, T, m, c :
          /\ p \in Projects /\ u \in BOOLEAN
          /\ p = sess[s].project /\ u = sess[s].up /\ T = sess[s].todo /\ m = Foremost(T)
          /\ c = Moved(sess[s], "read")
    BY <1>6, CommandIs, AtIs DEF Run
  <2>2. /\ sess[s] # Idle /\ sess[s].pc = "run" /\ Goto(s, "read")
        /\ Leaves(bin, IF bin.up THEN "whole" ELSE "none")
        /\ torn' = {t \in torn : t.project # bin.project \/ t.m # bin.m}
        /\ UNCHANGED <<files, applied, lost>>
    BY <1>6, AtIs DEF Run, At, disk
  <2>3. bin = [up |-> u, project |-> p, m |-> m]
    BY <2>1, <2>2 DEF Honest, OwnProgram, Program
  <2>4. bin.up = u /\ bin.project = p /\ bin.m = m /\ Fits(bin)
    BY <2>2, <2>3, CommandIs DEF Work
  <2>5. /\ sess' = [sess EXCEPT ![s] = c] /\ c \in Commands /\ c.pc = "read"
        /\ c.up = u /\ c.project = p /\ c.todo = T
    BY <2>1, <2>2, GotoIs DEF Places
  <2>6. /\ db'[p] = IF u THEN db[p] \cup {m} ELSE db[p] \ {m}
        /\ half'[p] = half[p] \ {m}
        /\ \A q \in Projects \ {p} : db'[q] = db[q] /\ half'[q] = half[q]
    <3>1. PICK e \in {"whole", "none"} :
            /\ e = "whole" <=> u
            /\ Leaves(bin, e)
      BY <2>1, <2>2, <2>4
    <3>2. e # "part"
      OBVIOUS
    <3> QED
      BY <2>4, <3>1, <3>2, LeavesIs
  <2>7. /\ TornUp(p)' = TornUp(p) \ {m} /\ TornDown(p)' = TornDown(p) \ {m}
        /\ \A q \in Projects \ {p} : TornUp(q)' = TornUp(q) /\ TornDown(q)' = TornDown(q)
    BY <2>2, <2>4, TornLess
  <2>8. ASSUME p \notin lost
        PROVE  \E k \in 0 .. files[p] : Tracks(p, k)'
    <3>1. PICK n \in 0 .. files[p] :
            /\ n \in Nat /\ Reflects(p, n) /\ applied[p] = Iota(n) /\ files[p] \in Nat
            /\ T = IF u THEN (n + 1) .. files[p] ELSE {n}
            /\ m = IF u THEN n + 1 ELSE n
            /\ IF u THEN n + 1 <= files[p] ELSE n # 0
      BY <2>1, <2>2, <2>8, TrackNow DEF Before
    <3>2. PICK k \in 0 .. files[p] : k \in Nat /\ k = IF u THEN n + 1 ELSE n - 1
      BY <3>1
    <3>3. InStep(db'[p], half'[p], TornUp(p) \ {m}, TornDown(p) \ {m}, k)
      <4>1. InStep(db[p], half[p], TornUp(p), TornDown(p), n)
        BY <3>1 DEF Reflects
      <4>2. CASE u
        <5>1. m = n + 1 /\ k = n + 1
          BY <3>1, <3>2, <4>2
        <5>2. InStep(db[p] \cup {m}, half[p] \ {m}, TornUp(p) \ {m}, TornDown(p) \ {m}, n + 1)
          BY <3>1, <4>1, <5>1, InStepRun
        <5> QED
          BY <2>6, <4>2, <5>1, <5>2
      <4>3. CASE ~u
        <5>1. m = n /\ n # 0 /\ k = n - 1
          BY <3>1, <3>2, <4>3
        <5>2. InStep(db[p] \ {m}, half[p] \ {m}, TornUp(p) \ {m}, TornDown(p) \ {m}, n - 1)
          BY <3>1, <4>1, <5>1, InStepRun
        <5> QED
          BY <2>6, <4>3, <5>1, <5>2
      <4> QED
        BY <4>2, <4>3
    <3>4. Reflects(p, k)'
      BY <2>7, <3>3 DEF Reflects
    <3>5. /\ c.todo = IF c.up THEN k .. files'[p] ELSE {k + 1}
          /\ applied'[p] = IF c.up THEN Iota(k - 1) ELSE Iota(k + 1)
      BY <2>2, <2>5, <3>1, <3>2
    <3>6. IF c.up THEN k \notin TornDown(p)' ELSE k + 1 \notin TornUp(p)'
      BY <2>5, <2>7, <3>1, <3>2
    <3>7. Tracks(p, k)'
      BY <2>1, <2>5, <3>2, <3>4, <3>5, <3>6, TrackRan DEF Before
    <3> QED
      BY <3>7
  <2>9. On(s, p)
    BY <2>1, <2>2 DEF On
  <2> QED
    BY <2>1, <2>2, <2>5, <2>6, <2>7, <2>8, <2>9, TrackOn
<1>7. ASSUME NEW s \in Sessions, RunFails(s) \/ WriteFails(s) \/ Crash(s)
      PROVE  Tracking'
  <2>1. PICK p, u, T, m :
          /\ p \in Projects /\ u \in BOOLEAN
          /\ p = sess[s].project /\ u = sess[s].up /\ T = sess[s].todo /\ m = Foremost(T)
    BY <1>7, CommandIs DEF RunFails, WriteFails, Crash, Idle
  <2>2. /\ sess[s] # Idle /\ Abandoned(s) /\ sess' = [sess EXCEPT ![s] = Idle]
        /\ UNCHANGED <<files, applied>>
    BY <1>7 DEF RunFails, WriteFails, Crash, Ends, Idle, disk
  <2>3. On(s, p) /\ Idle \in Commands \cup {Idle}
    BY <2>1, <2>2 DEF On
  <2>4. CASE sess[s].pc \in Before /\ UNCHANGED <<data, torn, lost>>
    BY <1>4, <2>2, <2>3, <2>4 DEF data
  <2>5. CASE /\ sess[s].pc = "run" /\ UNCHANGED lost
             /\ torn' = torn \cup {bin}
             /\ \E e \in {"none", "part", "whole"} : Leaves(bin, e)
    <3>1. bin = [up |-> u, project |-> p, m |-> m]
      BY <2>1, <2>5 DEF Honest, OwnProgram, Program
    <3>2. bin.project = p /\ bin.m = m /\ Fits(bin)
      BY <2>2, <2>5, <3>1, CommandIs DEF Work
    <3>3. /\ db[p] \ {m} \subseteq db'[p] /\ db'[p] \subseteq db[p] \cup {m}
          /\ half'[p] \subseteq half[p] \cup {m}
          /\ \A q \in Projects \ {p} : db'[q] = db[q] /\ half'[q] = half[q]
      <4>1. PICK e : Leaves(bin, e)
        BY <2>5
      <4>2. /\ db'[p] = IF e = "whole" THEN db[p] \cup {m} ELSE db[p] \ {m}
            /\ half'[p] = IF e = "part" THEN half[p] \cup {m} ELSE half[p] \ {m}
            /\ \A q \in Projects \ {p} : db'[q] = db[q] /\ half'[q] = half[q]
        BY <3>2, <4>1, LeavesIs
      <4>3. db'[p] = db[p] \cup {m} \/ db'[p] = db[p] \ {m}
        BY <4>2
      <4>4. half'[p] = half[p] \cup {m} \/ half'[p] = half[p] \ {m}
        BY <4>2
      <4> QED
        BY <4>2, <4>3, <4>4
    <3>4. /\ TornUp(p)' = TornUp(p) \cup (IF u THEN {m} ELSE {})
          /\ TornDown(p)' = TornDown(p) \cup (IF ~u THEN {m} ELSE {})
          /\ \A q \in Projects \ {p} : TornUp(q)' = TornUp(q) /\ TornDown(q)' = TornDown(q)
      <4>1. torn' = torn \cup {[up |-> u, project |-> p, m |-> m]} /\ u \in BOOLEAN
        BY <2>1, <2>5, <3>1
      <4> QED
        BY <4>1, TornOne
    <3>5. ASSUME p \notin lost
          PROVE  \E n \in 0 .. files[p] : Tracks(p, n)'
      <4>1. PICK n \in 0 .. files[p] :
              /\ n \in Nat /\ Reflects(p, n) /\ applied[p] = Iota(n)
              /\ m = IF u THEN n + 1 ELSE n
              /\ ~u => n # 0
        BY <2>1, <2>2, <2>5, <3>5, TrackNow DEF Before
      <4>2. IF u THEN InStep(db'[p], half'[p], TornUp(p) \cup {m}, TornDown(p), n)
                 ELSE InStep(db'[p], half'[p], TornUp(p), TornDown(p) \cup {m}, n)
        BY <2>1, <3>3, <4>1, InStepBreaks DEF Reflects
      <4>3. Reflects(p, n)'
        BY <2>1, <3>4, <4>2 DEF Reflects
      <4>4. Tracks(p, n)'
        BY <2>1, <2>2, <2>3, <4>1, <4>3, TrackStep
      <4> QED
        BY <4>4
    <3> QED
      BY <2>1, <2>2, <2>3, <2>5, <3>3, <3>4, <3>5, TrackOn
  <2>6. CASE /\ sess[s].pc \in {"read", "truncate"} /\ UNCHANGED <<data, lost>>
             /\ torn' = torn \cup {Program(s)}
    <3>1. Program(s) = [up |-> u, project |-> p, m |-> m] /\ UNCHANGED <<db, half>>
      BY <2>1, <2>6 DEF Program, data
    <3>2. /\ TornUp(p)' = TornUp(p) \cup (IF u THEN {m} ELSE {})
          /\ TornDown(p)' = TornDown(p) \cup (IF ~u THEN {m} ELSE {})
          /\ \A q \in Projects \ {p} : TornUp(q)' = TornUp(q) /\ TornDown(q)' = TornDown(q)
      <4>1. torn' = torn \cup {[up |-> u, project |-> p, m |-> m]} /\ u \in BOOLEAN
        BY <2>1, <2>6, <3>1
      <4> QED
        BY <4>1, TornOne
    <3>3. ASSUME p \notin lost
          PROVE  \E k \in 0 .. files[p] : Tracks(p, k)'
      <4>1. PICK n \in 0 .. files[p] :
              /\ n \in Nat /\ Reflects(p, n) /\ files[p] \in Nat /\ HasRun(s, p, n)
              /\ m = IF u THEN n ELSE n + 1
              /\ IF u THEN n # 0 ELSE n + 1 <= files[p]
        BY <2>1, <2>2, <2>6, <3>3, TrackNow DEF Before
      <4>2. /\ IF u THEN n \notin TornDown(p) ELSE n + 1 \notin TornUp(p)
            /\ applied[p] = IF u THEN Iota(n - 1) ELSE Iota(n + 1)
        BY <2>1, <2>6, <4>1 DEF HasRun
      <4>3. PICK k \in 0 .. files[p] : k \in Nat /\ k = IF u THEN n - 1 ELSE n + 1
        BY <4>1
      <4>4. IF u THEN InStep(db[p], half[p], TornUp(p) \cup {m}, TornDown(p), k)
                 ELSE InStep(db[p], half[p], TornUp(p), TornDown(p) \cup {m}, k)
        BY <2>1, <4>1, <4>2, <4>3, InStepUnrecorded DEF Reflects
      <4>5. Reflects(p, k)'
        BY <2>1, <3>1, <3>2, <4>4 DEF Reflects
      <4>6. applied'[p] = Iota(k)
        BY <2>2, <4>2, <4>3
      <4>7. Tracks(p, k)'
        BY <2>1, <2>2, <2>3, <4>3, <4>5, <4>6, TrackStep
      <4> QED
        BY <4>7
    <3> QED
      BY <2>1, <2>2, <2>3, <2>6, <3>1, <3>2, <3>3, TrackOn
  <2>7. CASE sess[s].pc = "rewrite" /\ lost' = lost \cup {p} /\ UNCHANGED <<data, torn>>
    <3>1. /\ UNCHANGED <<db, half>>
          /\ \A q \in Projects \ {p} : TornUp(q)' = TornUp(q) /\ TornDown(q)' = TornDown(q)
      BY <2>7, TornSame DEF data
    <3> QED
      BY <2>1, <2>2, <2>3, <2>7, <3>1, TrackOn
  <2> QED
    BY <2>1, <2>2, <2>4, <2>5, <2>6, <2>7 DEF Abandoned, At, BreaksOff, Before
<1>8. ASSUME NEW s \in Sessions, ReadList(s)
      PROVE  Tracking'
  <2>1. PICK p, u, T, L, c :
          /\ p \in Projects /\ u \in BOOLEAN
          /\ p = sess[s].project /\ u = sess[s].up /\ T = sess[s].todo
          /\ L = NewList(s) /\ c = [sess[s] EXCEPT !.pc = "truncate", !.list = L]
    BY <1>8, CommandIs, AtIs DEF ReadList
  <2>2. /\ sess[s] # Idle /\ sess[s].pc = "read"
        /\ sess' = [sess EXCEPT ![s].pc = "truncate", ![s].list = L]
        /\ UNCHANGED <<files, applied, db, half, torn, lost>>
    BY <1>8, <2>1, AtIs DEF ReadList, At, disk, data
  <2>3. sess[s] \in Commands /\ files[p] \in Nat
    BY <2>1, <2>2, CommandIs
  <2>4. L \in Seq(Nat)
    BY <2>1, <2>2, <2>3, NewListIs, ListsAreLists
  <2>5. /\ sess' = [sess EXCEPT ![s] = c] /\ c \in Commands /\ c.pc = "truncate"
        /\ c.up = u /\ c.project = p /\ c.todo = T /\ c.list = L
    BY <2>1, <2>2, <2>3, <2>4 DEF Shape, Typed, Commands, Places
  <2>6. ASSUME p \notin lost
        PROVE  \E n \in 0 .. files[p] : Tracks(p, n)'
    <3>1. PICK n \in 0 .. files[p] :
            /\ n \in Nat /\ Reflects(p, n) /\ HasRun(s, p, n)
            /\ Foremost(T) = IF u THEN n ELSE n + 1
            /\ u => n # 0
      BY <2>1, <2>2, <2>6, TrackNow DEF Before
    <3>2. /\ T = IF u THEN n .. files[p] ELSE {n + 1}
          /\ IF u THEN n \notin TornDown(p) ELSE n + 1 \notin TornUp(p)
          /\ applied[p] = IF u THEN Iota(n - 1) ELSE Iota(n + 1)
      BY <2>1, <2>2, <3>1 DEF HasRun
    <3>3. L = Iota(n)
      <4>1. CASE u
        <5>1. PICK k \in Nat : k = n - 1 /\ n = k + 1
          BY <3>1, <4>1
        <5>2. applied[p] = Iota(k) /\ ToSet(Iota(k)) = 1 .. k /\ n \notin 1 .. k
          BY <3>2, <4>1, <5>1, IotaIs
        <5>3. L = Append(Iota(k), n)
          BY <2>1, <3>1, <4>1, <5>2 DEF NewList
        <5> QED
          BY <5>1, <5>3, IotaGrows
      <4>2. CASE ~u
        <5>1. L = Without(Iota(n + 1), n + 1)
          BY <2>1, <3>1, <3>2, <4>2 DEF NewList
        <5> QED
          BY <3>1, <5>1, IotaShrinks
      <4> QED
        BY <4>1, <4>2
    <3>4. Reflects(p, n)'
      BY <2>2, <3>1, TornSame DEF Reflects
    <3>5. IF c.up THEN n \notin TornDown(p)' ELSE n + 1 \notin TornUp(p)'
      BY <2>2, <2>5, <3>2, TornSame
    <3>6. /\ c.todo = IF c.up THEN n .. files'[p] ELSE {n + 1}
          /\ applied'[p] = IF c.up THEN Iota(n - 1) ELSE Iota(n + 1)
          /\ c.list = Iota(n) /\ c.pc \notin Before
      BY <2>2, <2>5, <3>2, <3>3 DEF Before
    <3>7. Tracks(p, n)'
      BY <2>1, <2>5, <3>1, <3>4, <3>5, <3>6, TrackRan
    <3> QED
      BY <3>7
  <2>7. On(s, p)
    BY <2>1, <2>2 DEF On
  <2>8. \A q \in Projects \ {p} : TornUp(q)' = TornUp(q) /\ TornDown(q)' = TornDown(q)
    BY <2>2, TornSame
  <2>9. /\ p \in Projects /\ c \in Commands \cup {Idle} /\ c.project = p
        /\ sess' = [sess EXCEPT ![s] = c]
    BY <2>1, <2>5
  <2> QED
    BY <2>2, <2>6, <2>7, <2>8, <2>9, TrackOn
<1>9. ASSUME NEW s \in Sessions, Truncate(s)
      PROVE  Tracking'
  <2>1. PICK p, u, T, L, c :
          /\ p \in Projects /\ u \in BOOLEAN
          /\ p = sess[s].project /\ u = sess[s].up /\ T = sess[s].todo /\ L = sess[s].list
          /\ c = Moved(sess[s], "rewrite")
    BY <1>9, CommandIs, AtIs DEF Truncate
  <2>2. /\ sess[s] # Idle /\ sess[s].pc = "truncate" /\ Goto(s, "rewrite")
        /\ applied' = [applied EXCEPT ![p] = <<>>]
        /\ UNCHANGED <<files, db, half, torn, lost>>
    BY <1>9, <2>1, AtIs DEF Truncate, At, data
  <2>3. /\ sess' = [sess EXCEPT ![s] = c] /\ c \in Commands /\ c.pc = "rewrite"
        /\ c.up = u /\ c.project = p /\ c.todo = T /\ c.list = L
    BY <2>1, <2>2, GotoIs DEF Places
  <2>4. ASSUME p \notin lost
        PROVE  \E n \in 0 .. files[p] : Tracks(p, n)'
    <3>1. PICK n \in 0 .. files[p] :
            n \in Nat /\ Reflects(p, n) /\ HasRun(s, p, n)
      BY <2>1, <2>2, <2>4, TrackNow DEF Before
    <3>2. /\ T = IF u THEN n .. files[p] ELSE {n + 1}
          /\ IF u THEN n \notin TornDown(p) ELSE n + 1 \notin TornUp(p)
          /\ L = Iota(n)
      BY <2>1, <2>2, <3>1 DEF HasRun
    <3>3. Reflects(p, n)'
      BY <2>2, <3>1, TornSame DEF Reflects
    <3>4. IF c.up THEN n \notin TornDown(p)' ELSE n + 1 \notin TornUp(p)'
      BY <2>2, <2>3, <3>2, TornSame
    <3>5. /\ c.todo = IF c.up THEN n .. files'[p] ELSE {n + 1}
          /\ c.list = Iota(n) /\ c.pc \notin Before
      BY <2>2, <2>3, <3>2 DEF Before
    <3>6. Tracks(p, n)'
      BY <2>1, <2>3, <3>1, <3>3, <3>4, <3>5, TrackRan
    <3> QED
      BY <3>6
  <2>5. On(s, p) /\ \A q \in Projects \ {p} : applied'[q] = applied[q]
    BY <2>1, <2>2 DEF On, Shape, Typed
  <2>6. \A q \in Projects \ {p} : TornUp(q)' = TornUp(q) /\ TornDown(q)' = TornDown(q)
    BY <2>2, TornSame
  <2> QED
    BY <2>1, <2>2, <2>3, <2>4, <2>5, <2>6, TrackOn
<1>10. ASSUME NEW s \in Sessions, Rewrite(s)
       PROVE  Tracking'
  <2>1. PICK p, u, T, L, R, c :
          /\ p \in Projects /\ u \in BOOLEAN
          /\ p = sess[s].project /\ u = sess[s].up /\ T = sess[s].todo /\ L = sess[s].list
          /\ R = Rest(s) /\ c = IF R = {} THEN Idle ELSE Command(u, p, R)
    BY <1>10, CommandIs, AtIs DEF Rewrite
  <2>2. /\ sess[s] # Idle /\ sess[s].pc = "rewrite"
        /\ sess' = [sess EXCEPT ![s] = c]
        /\ applied' = [applied EXCEPT ![p] = L]
        /\ UNCHANGED <<files, db, half, torn, lost>>
    BY <1>10, <2>1, AtIs DEF Rewrite, At, data
  <2>3. /\ T # {} /\ T \subseteq 1 .. files[p] /\ files[p] \in Nat /\ R = T \ {Foremost(T)}
    BY <2>1, <2>2, CommandIs DEF Work, Rest
  <2>4. /\ c \in Commands \cup {Idle}
        /\ c # Idle => c.pc = "write" /\ c.up = u /\ c.project = p /\ c.todo = R /\ R # {}
    BY <2>1, <2>3 DEF Command, Commands, Places, Idle
  <2>5. ASSUME p \notin lost
        PROVE  \E n \in 0 .. files[p] : Tracks(p, n)'
    <3>1. PICK n \in 0 .. files[p] :
            /\ n \in Nat /\ Reflects(p, n) /\ HasRun(s, p, n)
            /\ Foremost(T) = IF u THEN n ELSE n + 1
      BY <2>1, <2>2, <2>5, TrackNow DEF Before
    <3>2. T = (IF u THEN n .. files[p] ELSE {n + 1}) /\ L = Iota(n)
      BY <2>1, <2>2, <3>1 DEF HasRun
    <3>3. IF u THEN R = (n + 1) .. files[p] ELSE R = {}
      <4>1. CASE u
        BY <2>3, <3>1, <3>2, <4>1
      <4>2. CASE ~u
        BY <2>3, <3>1, <3>2, <4>2
      <4> QED
        BY <4>1, <4>2
    <3>4. Reflects(p, n)'
      BY <2>2, <3>1, TornSame DEF Reflects
    <3>5. applied'[p] = Iota(n) /\ files'[p] = files[p]
      BY <2>1, <2>2, <3>2 DEF Shape, Typed
    <3>6. c # Idle /\ c.project = p =>
            c.pc \in Before /\ c.todo = IF c.up THEN (n + 1) .. files'[p] ELSE {n}
      BY <2>4, <3>3, <3>5 DEF Before
    <3>7. p \in Projects
      BY <2>1
    <3>8. Tracks(p, n)'
      BY <2>2, <2>4, <3>1, <3>4, <3>5, <3>6, <3>7, TrackStep
    <3> QED
      BY <3>8
  <2>6. On(s, p) /\ \A q \in Projects \ {p} : applied'[q] = applied[q]
    BY <2>1, <2>2 DEF On, Shape, Typed
  <2>7. \A q \in Projects \ {p} : TornUp(q)' = TornUp(q) /\ TornDown(q)' = TornDown(q)
    BY <2>2, TornSame
  <2> QED
    BY <2>1, <2>2, <2>4, <2>5, <2>6, <2>7, TrackOn
<1>11. CASE UNCHANGED vars
  <2>1. UNCHANGED <<files, applied, db, half, sess, torn, lost>>
    BY <1>11 DEF vars, disk, data
  <2>2. \A p \in Projects : TornUp(p)' = TornUp(p) /\ TornDown(p)' = TornDown(p)
    BY <2>1, TornSame
  <2>3. ASSUME NEW p \in Projects, p \notin lost'
        PROVE  (\E n \in 0 .. files[p] : Tracks(p, n))'
    <3>1. PICK n \in 0 .. files[p] : Tracks(p, n)
      BY <2>1, <2>3 DEF Tracking
    <3>2. Tracks(p, n)'
      BY <2>1, <2>2, <3>1 DEF Tracks, Reflects, HasRun, On
    <3> QED
      BY <2>1, <3>2
  <2> QED
    BY <2>3 DEF Tracking
<1> QED
  BY <1>1, <1>2, <1>3, <1>5, <1>6, <1>7, <1>8, <1>9, <1>10, <1>11 DEF Next

LEMMA InductiveInvariant ==
  ASSUME OneSession
  PROVE  Spec => [](Shape /\ Honest /\ Tracking)
<1>1. Init => Shape /\ Honest /\ Tracking
  BY ShapeInit, HonestInit, TrackingInit
<1>2. Shape /\ Honest /\ Tracking /\ [Next]_vars => (Shape /\ Honest /\ Tracking)'
  BY ShapeNext, HonestNext, TrackingNext
<1> QED
  BY <1>1, <1>2, PTL DEF Spec

(* With one command at a time, between commands, the list names exactly    *)
(* what is in the database, less the migrations whose up broke off or was  *)
(* not recorded, and those whose down did: whatever the failing of SQL     *)
(* leaves behind, and wherever commands are interrupted, as long as the    *)
(* list itself is not lost.                                                *)
THEOREM ListAgreesWithDatabase ==
  ASSUME OneSession
  PROVE  Spec => []TrackingAgrees
<1>1. Shape /\ Tracking => TrackingAgrees
  <2> SUFFICES ASSUME Shape, Tracking,
                      NEW p \in Projects, p \notin lost, \A s \in Sessions : ~On(s, p)
               PROVE  /\ ToSet(applied[p]) = (db[p] \ TornUp(p)) \cup TornDown(p)
                      /\ ToSet(applied[p]) \cap TornUp(p) = {}
                      /\ half[p] \subseteq TornUp(p) \cup TornDown(p)
    BY DEF TrackingAgrees
  <2>1. PICK n \in 0 .. files[p] : Tracks(p, n)
    BY DEF Tracking
  <2>2. n \in Nat
    BY <2>1 DEF Shape, Typed
  <2>3. ToSet(applied[p]) = 1 .. n /\ Reflects(p, n)
    BY <2>1, <2>2, IotaIs DEF Tracks
  <2> QED
    BY <2>3 DEF Reflects, InStep
<1> QED
  BY <1>1, InductiveInvariant, PTL

(* With one command at a time, in mid-command as well, all migrations      *)
(* before one that is in the database are there too, unless a down of      *)
(* theirs broke off: an up that breaks off lets no later migration in.     *)
THEOREM MigrationsRunInOrder ==
  ASSUME OneSession
  PROVE  Spec => []InOrder
<1>1. Shape /\ Tracking => InOrder
  <2> SUFFICES ASSUME Shape, Tracking,
                      NEW p \in Projects, p \notin lost,
                      NEW m \in (db[p] \cup half[p]) \ TornUp(p),
                      NEW k \in 1 .. (m - 1)
               PROVE  k \in db[p] \cup TornDown(p)
    BY DEF InOrder
  <2>1. PICK n \in 0 .. files[p] : Tracks(p, n)
    BY DEF Tracking
  <2>2. n \in Nat /\ m \in Nat
    BY <2>1 DEF Shape, Typed
  <2>3. Reflects(p, n)
    BY <2>1 DEF Tracks
  <2>4. m \in 1 .. n
    BY <2>3 DEF Reflects, InStep
  <2>5. k \in 1 .. n
    BY <2>2, <2>4
  <2> QED
    BY <2>3, <2>5 DEF Reflects, InStep
<1> QED
  BY <1>1, InductiveInvariant, PTL
=============================================================================
