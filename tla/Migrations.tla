------------------------------ MODULE Migrations ------------------------------
(***************************************************************************)
(* `vader migrate new | up | down` (src/src/migrate.rs and migrate_run in  *)
(* src/src/main.rs).  A migration is applied by generating a small Vader   *)
(* program, compiling it through the two fixed files out.ll and out of the *)
(* temporary directory, running it, and then rewriting the list of applied *)
(* migrations in migrations/.applied.                                      *)
(*                                                                         *)
(* Sessions are invocations of the command, each in the directory of a     *)
(* project.  A session may be interrupted between any two steps, and every *)
(* step may fail.  The SQL of a migration is several statements, run one   *)
(* by one and in no transaction (vader_db_exec, src/runtime/vader_db.c):   *)
(* an error, a lost link or an interruption may leave none of them done,   *)
(* some, or all.  Rewriting the list is a truncation followed by a write.  *)
(***************************************************************************)
EXTENDS Integers, Sequences, FiniteSets, SequencesExt

CONSTANTS
  Projects,    \* directories with a migrations/ folder and a database each
  Sessions,    \* commands that may run at the same time
  MaxFiles     \* projects: bound on their migrations

ASSUME MigrationsAssumption == MaxFiles \in [Projects -> Nat]

VARIABLES
  files,     \* projects: the migrations are 1 .. files[p], in file name order
  applied,   \* projects: the lines of migrations/.applied
  db,        \* projects: the migrations that are in the database as a whole
  half,      \* projects: the migrations of which a part is in the database
  ran,       \* projects: the migrations whose up SQL ever succeeded
  ir, bin,   \* the program in out.ll and the one in out
  sess,      \* sessions: where they are, for which project, what is left to do
  torn,      \* programs that may have left something and were not recorded (history)
  lost       \* projects whose list was truncated and not written (history)

disk == <<files, applied>>
data == <<db, half>>
vars == <<disk, data, ran, ir, bin, sess, torn, lost>>

NoProgram == [up |-> TRUE, project |-> "none", m |-> 0]
Idle      == [pc |-> "idle"]

Init ==
  /\ files   = [p \in Projects |-> 0]
  /\ applied = [p \in Projects |-> <<>>]
  /\ db      = [p \in Projects |-> {}]
  /\ half    = [p \in Projects |-> {}]
  /\ ran     = [p \in Projects |-> {}]
  /\ ir = NoProgram /\ bin = NoProgram
  /\ sess    = [s \in Sessions |-> Idle]
  /\ torn = {} /\ lost = {}

-----------------------------------------------------------------------------
Pending(p) == (1 .. files[p]) \ ToSet(applied[p])

(* Mutant of Foremost: the listing of the directory, not sorted. *)
ForemostUnsorted(todo) == Max(todo)

(* The pending migrations are taken in the order of their names. *)
Foremost(todo) == Min(todo)

Command(up, p, todo) ==
  [pc |-> "write", up |-> up, project |-> p, todo |-> todo, list |-> <<>>]

(* new_migration: next_seq is one more than the highest number. *)
New(s) ==
  /\ sess[s] = Idle
  /\ \E p \in Projects :
       /\ files[p] < MaxFiles[p]
       /\ files' = [files EXCEPT ![p] = @ + 1]
  /\ UNCHANGED <<applied, data, ran, ir, bin, sess, torn, lost>>

(* The pending migrations are listed once, at the start. *)
StartUp(s) ==
  /\ sess[s] = Idle
  /\ \E p \in Projects :
       /\ Pending(p) # {}
       /\ sess' = [sess EXCEPT ![s] = Command(TRUE, p, Pending(p))]
  /\ UNCHANGED <<disk, data, ran, ir, bin, torn, lost>>

StartDown(s) ==
  /\ sess[s] = Idle
  /\ \E p \in Projects :
       /\ applied[p] # <<>>
       /\ sess' = [sess EXCEPT ![s] = Command(FALSE, p, {Last(applied[p])})]
  /\ UNCHANGED <<disk, data, ran, ir, bin, torn, lost>>

-----------------------------------------------------------------------------
(* build_run_program and compile_ir *)

At(s, l)   == sess[s].pc = l
Goto(s, l) == sess' = [sess EXCEPT ![s].pc = l]

(* The program that a session is about to generate. *)
Program(s) ==
  [up |-> sess[s].up, project |-> sess[s].project, m |-> Foremost(sess[s].todo)]

WriteIr(s) ==
  /\ At(s, "write")
  /\ ir' = Program(s)
  /\ Goto(s, "clang")
  /\ UNCHANGED <<disk, data, ran, bin, torn, lost>>

(* clang compiles what out.ll holds now. *)
Clang(s) ==
  /\ At(s, "clang")
  /\ bin' = ir
  /\ Goto(s, "run")
  /\ UNCHANGED <<disk, data, ran, ir, torn, lost>>

(* A program leaves its migration in the database as a whole, in part, or not. *)
Leaves(prog, extent) ==
  /\ db'   = [db   EXCEPT ![prog.project] = IF extent = "whole" THEN @ \cup {prog.m} ELSE @ \ {prog.m}]
  /\ half' = [half EXCEPT ![prog.project] = IF extent = "part"  THEN @ \cup {prog.m} ELSE @ \ {prog.m}]

(* The program that out holds now runs, and all of its SQL succeeds. *)
Run(s) ==
  /\ At(s, "run")
  /\ Leaves(bin, IF bin.up THEN "whole" ELSE "none")
  /\ ran'  = [ran EXCEPT ![bin.project] = IF bin.up THEN @ \cup {bin.m} ELSE @]
  /\ torn' = {t \in torn : t.project # bin.project \/ t.m # bin.m}
  /\ Goto(s, "read")
  /\ UNCHANGED <<disk, ir, bin, lost>>

(* The program stops before it can tell that its SQL succeeded.  It had no *)
(* effect, or as much of one as its statements had until then.             *)
BreaksOff(prog) ==
  \/ UNCHANGED <<data, torn>>
  \/ /\ torn' = torn \cup {prog}
     /\ \E extent \in {"none", "part", "whole"} : Leaves(prog, extent)

(* What a command that ends here leaves behind: before its program runs    *)
(* nothing, then an effect that is not in the list, then an empty list.    *)
Abandoned(s) ==
  \/ sess[s].pc \in {"write", "clang"} /\ UNCHANGED <<data, torn, lost>>
  \/ At(s, "run") /\ BreaksOff(bin) /\ UNCHANGED lost
  \/ /\ sess[s].pc \in {"read", "truncate"}
     /\ torn' = torn \cup {Program(s)}
     /\ UNCHANGED <<data, lost>>
  \/ /\ At(s, "rewrite")
     /\ lost' = lost \cup {sess[s].project}
     /\ UNCHANGED <<data, torn>>

Ends(s) == sess' = [sess EXCEPT ![s] = Idle] /\ UNCHANGED <<disk, ran, ir, bin>>

(* Mutant of RunFails: the exit code of the program is not looked at. *)
RunFailsUnseen(s) ==
  /\ At(s, "run")
  /\ Goto(s, "read")
  /\ UNCHANGED <<disk, data, ran, ir, bin, torn, lost>>

(* out.ll cannot be written, clang fails, or the program ends with an exit *)
(* code that is not 0: the command stops there.                            *)
RunFails(s) == sess[s].pc \in {"write", "clang", "run"} /\ Abandoned(s) /\ Ends(s)

-----------------------------------------------------------------------------
(* mark_applied and unmark: read the list, rewrite it. *)

(* Mutant of NewList: unmarking takes the first entry off. *)
NewListFirst(s) ==
  LET old == applied[sess[s].project] IN
  IF sess[s].up THEN Append(old, Foremost(sess[s].todo)) ELSE Tail(old)

(* No line occurs twice (TypeOK), so that retain drops one at most. *)
Without(list, m) ==
  IF m \in ToSet(list) THEN RemoveAt(list, CHOOSE i \in DOMAIN list : list[i] = m) ELSE list

NewList(s) ==
  LET old == applied[sess[s].project]
      m   == Foremost(sess[s].todo)
  IN  IF ~sess[s].up THEN Without(old, m)
      ELSE IF m \in ToSet(old) THEN old ELSE Append(old, m)

ReadList(s) ==
  /\ At(s, "read")
  /\ sess' = [sess EXCEPT ![s].pc = "truncate", ![s].list = NewList(s)]
  /\ UNCHANGED <<disk, data, ran, ir, bin, torn, lost>>

Truncate(s) ==
  /\ At(s, "truncate")
  /\ applied' = [applied EXCEPT ![sess[s].project] = <<>>]
  /\ Goto(s, "rewrite")
  /\ UNCHANGED <<files, data, ran, ir, bin, torn, lost>>

Rest(s) == sess[s].todo \ {Foremost(sess[s].todo)}

(* Mutant of Rewrite: the loop over the pending migrations goes one too far. *)
RewriteOneTooMany(s) ==
  /\ At(s, "rewrite")
  /\ applied' = [applied EXCEPT ![sess[s].project] = sess[s].list]
  /\ sess' = [sess EXCEPT ![s] = Command(sess[s].up, sess[s].project, Rest(s))]
  /\ UNCHANGED <<files, data, ran, ir, bin, torn, lost>>

(* The next pending migration, or the end of the command. *)
Rewrite(s) ==
  /\ At(s, "rewrite")
  /\ applied' = [applied EXCEPT ![sess[s].project] = sess[s].list]
  /\ sess' = [sess EXCEPT ![s] =
       IF Rest(s) = {} THEN Idle ELSE Command(sess[s].up, sess[s].project, Rest(s))]
  /\ UNCHANGED <<files, data, ran, ir, bin, torn, lost>>

(* set_applied: the list cannot be opened, or cannot be written once it is *)
(* empty.                                                                  *)
WriteFails(s) == sess[s].pc \in {"truncate", "rewrite"} /\ Abandoned(s) /\ Ends(s)

Crash(s) == sess[s] # Idle /\ Abandoned(s) /\ Ends(s)

-----------------------------------------------------------------------------
Next ==
  \E s \in Sessions :
    \/ New(s) \/ StartUp(s) \/ StartDown(s)
    \/ WriteIr(s) \/ Clang(s) \/ Run(s) \/ RunFails(s)
    \/ ReadList(s) \/ Truncate(s) \/ Rewrite(s) \/ WriteFails(s)
    \/ Crash(s)

Spec == Init /\ [][Next]_vars

-----------------------------------------------------------------------------
(* The migrations of which an up, or a down, broke off after it may have   *)
(* had an effect and has not been made good by a program that succeeded.   *)
Torn(p, up) == {t.m : t \in {u \in torn : u.project = p /\ u.up = up}}
TornUp(p)   == Torn(p, TRUE)
TornDown(p) == Torn(p, FALSE)

On(s, p) == sess[s] # Idle /\ sess[s].project = p

TypeOK ==
  /\ \A p \in Projects :
       /\ files[p] \in 0 .. MaxFiles[p]
       /\ applied[p] \in Seq(1 .. files[p]) /\ IsInjective(applied[p])
       /\ db[p] \cup half[p] \cup ran[p] \subseteq 1 .. files[p]
       /\ db[p] \cap half[p] = {}
  /\ \A s \in Sessions :
       sess[s] # Idle =>
         /\ sess[s].project \in Projects
         /\ sess[s].todo # {} /\ sess[s].todo \subseteq 1 .. files[sess[s].project]

(* "Only marks as applied if the process exits successfully": a migration  *)
(* is in the list only if its own SQL succeeded on the project's own       *)
(* database at some time, however commands fail and are interrupted.       *)
MarkedOnlyIfRun == \A p \in Projects : ToSet(applied[p]) \subseteq ran[p]

(* Between commands the list names what is in the database, less the       *)
(* migrations whose up broke off or was not recorded, and those whose down *)
(* did besides; none but these can be in the database by half.  Failing    *)
(* SQL, failing writes and interruptions are allowed: all that is excepted *)
(* is a project whose list was emptied and not written again.              *)
TrackingAgrees ==
  \A p \in Projects \ lost :
    (\A s \in Sessions : ~On(s, p)) =>
      /\ ToSet(applied[p]) = (db[p] \ TornUp(p)) \cup TornDown(p)
      /\ ToSet(applied[p]) \cap TornUp(p) = {}
      /\ half[p] \subseteq TornUp(p) \cup TornDown(p)

(* Migrations run in order, in mid-command as well: whatever is in the     *)
(* database got there after all the migrations before it, which are there  *)
(* unless a down of theirs broke off.  A migration whose up broke off is   *)
(* itself the exception, as the ones before it may be undone meanwhile; it *)
(* never lets a later one in.                                              *)
InOrder ==
  \A p \in Projects \ lost : \A m \in (db[p] \cup half[p]) \ TornUp(p) :
    1 .. (m - 1) \subseteq db[p] \cup TornDown(p)
=============================================================================
