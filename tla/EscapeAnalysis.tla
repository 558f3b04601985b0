---------------------------- MODULE EscapeAnalysis ----------------------------
(***************************************************************************)
(* The escape analysis of src/src/llvm.rs that decides whether the backend *)
(* may reset an arena at the end of each iteration of a loop, next to what *)
(* the code generated for the loop's body does to memory.                  *)
(*                                                                         *)
(* A behaviour runs one iteration of a loop whose body is written as it is *)
(* executed: every step adds a statement of Stmts to the body, updates the *)
(* verdict of the analysis (a disjunction over the statements) and performs*)
(* the statement.  Each state is therefore the end of an iteration of some *)
(* body, together with the verdict on that body; a body that escapes gets  *)
(* no arena whatever comes after, and is not extended.                     *)
(* A loop inside the body gets an arena of its own, or none, by the same   *)
(* analysis with more variables around it.                                 *)
(*                                                                         *)
(* Strings are either static ("lit") or made by this iteration in the      *)
(* arena ("fresh").  Slices, structs and enums are objects of the heap     *)
(* (malloc, never freed): O, OO, U, E and C belong to the variables o, oo, *)
(* u, e and ch declared before the loop, R, I, P and M are parts of these, *)
(* and T, TT, W and V are what the literals of the body make.              *)
(***************************************************************************)
EXTENDS Integers, Sequences, SequencesExt

CONSTANTS Stmts      \* the statements a body may consist of

-----------------------------------------------------------------------------
(* Syntax (ast.rs).  Blocks, guards and else branches are sequences.       *)
Str               == [k |-> "str"]
Id(n)             == [k |-> "ident", name |-> n]
Not(e)            == [k |-> "unary", of |-> e]
Binary(op, l, r)  == [k |-> "binary", op |-> op, left |-> l, right |-> r]
Idx(b, i)         == [k |-> "index", base |-> b, index |-> i]
Field(b, f)       == [k |-> "field", base |-> b, field |-> f]
CallOf(f, args)   == [k |-> "call", callee |-> Id(f), args |-> args]
Method(b, f, args) == [k |-> "call", callee |-> Field(b, f), args |-> args]
SliceLit(at, els) == [k |-> "slice", at |-> at, els |-> els]
StructLit(x, v)   == [k |-> "struct", items |-> x, str |-> v]
RecvFrom(e)       == [k |-> "recv", of |-> e]
Match(e, arms)    == [k |-> "match", scrutinee |-> e, arms |-> arms]
Arm(bind, guard, body) == [bindings |-> bind, guard |-> guard, body |-> body]
Block(stmts)      == [k |-> "block", stmts |-> stmts]

Decl(names, es)   == [k |-> "decl", names |-> names, values |-> es]
Assign(tg, e)     == [k |-> "assign", target |-> tg, value |-> e]
Do(e)             == [k |-> "expr", value |-> e]
AssertThat(e)     == [k |-> "assert", value |-> e]
If(e, b, else)    == [k |-> "if", cond |-> e, then |-> b, else |-> else]
While(e, b)       == [k |-> "for", head |-> "while", var |-> "_", iter |-> e, body |-> b]
ForIn(x, e, b)    == [k |-> "for", head |-> "in", var |-> x, iter |-> e, body |-> b]
Forever(b)        == [k |-> "for", head |-> "infinite", var |-> "_", iter |-> Str, body |-> b]
Send(c, e)        == [k |-> "send", chan |-> c, value |-> e]
Spawn(e)          == [k |-> "spawn", value |-> e]
Return(es)        == [k |-> "return", values |-> es]

(* Variables of a heap type that are in scope when the loop starts; the    *)
(* element variable row of `for row in oo` is added only afterwards.       *)
outerHeapVars == {"os", "o", "oo", "u", "e", "ch"}

-----------------------------------------------------------------------------
(* The analysis.  oh are the outer heap variables.                         *)

RECURSIVE NamesOuterHeap(_, _)
NamesOuterHeap(e, oh) ==
  LET AnyOf(es) == \E a \in ToSet(es) : NamesOuterHeap(a, oh)
  IN  CASE e.k = "ident"  -> e.name \in oh
        [] e.k = "field"  -> NamesOuterHeap(e.base, oh)
        [] e.k = "index"  -> AnyOf(<<e.base, e.index>>)
        [] e.k = "binary" -> AnyOf(<<e.left, e.right>>)
        [] e.k = "unary"  -> NamesOuterHeap(e.of, oh)
        [] e.k = "call"   -> AnyOf(<<e.callee>> \o e.args)
        [] e.k = "struct" -> AnyOf(<<e.items, e.str>>)
        [] e.k = "slice"  -> AnyOf(e.els)
        [] e.k = "recv"   -> NamesOuterHeap(e.of, oh)
        [] e.k = "match"  -> NamesOuterHeap(e.scrutinee, oh)
        [] OTHER          -> FALSE

(* Mutant of AssignEscapes: a store into an element is overlooked. *)
AssignEscapesName(tg, oh) == tg.k = "ident" /\ tg.name \in oh

AssignEscapes(tg, oh) ==
  \/ tg.k = "ident" /\ tg.name \in oh
  \/ tg.k \in {"index", "field"} /\ NamesOuterHeap(tg.base, oh)

RECURSIVE ExprEscapes(_, _), StmtEscapes(_, _)
BodyEscapes(b, oh) == \E s \in ToSet(b) : StmtEscapes(s, oh)

ExprEscapes(e, oh) ==
  LET AnyOf(es) == \E a \in ToSet(es) : ExprEscapes(a, oh)
      Of(arm) == IF arm.body.k = "block" THEN BodyEscapes(arm.body.stmts, oh)
                                         ELSE ExprEscapes(arm.body, oh)
  IN  CASE e.k = "call"   -> \E a \in ToSet(<<e.callee>> \o e.args) : NamesOuterHeap(a, oh)
        [] e.k = "binary" -> AnyOf(<<e.left, e.right>>)
        [] e.k = "unary"  -> ExprEscapes(e.of, oh)
        [] e.k = "index"  -> AnyOf(<<e.base, e.index>>)
        [] e.k = "field"  -> ExprEscapes(e.base, oh)
        [] e.k = "struct" -> AnyOf(<<e.items, e.str>>)
        [] e.k = "slice"  -> AnyOf(e.els)
        [] e.k = "recv"   -> ExprEscapes(e.of, oh)
        [] e.k = "match"  -> \/ ExprEscapes(e.scrutinee, oh)
                             \/ \E i \in DOMAIN e.arms : Of(e.arms[i])
        [] OTHER          -> FALSE

StmtEscapes(s, oh) ==
  CASE s.k \in {"return", "send", "spawn"} -> TRUE
    [] s.k = "assign" -> AssignEscapes(s.target, oh) \/ ExprEscapes(s.value, oh)
    [] s.k = "decl"   -> \E v \in ToSet(s.values) : ExprEscapes(v, oh)
    [] s.k = "if"     -> ExprEscapes(s.cond, oh) \/ BodyEscapes(s.then \o s.else, oh)
    [] s.k = "for"    -> BodyEscapes(s.body, oh)
    [] s.k \in {"assert", "expr"} -> ExprEscapes(s.value, oh)

-----------------------------------------------------------------------------
(* What the backend can generate code for.  The rest is refused with an    *)
(* error: a match that is not the whole of a declaration, of a return or   *)
(* of a statement, its guards, a field as a target, a declaration of       *)
(* several names but from one call, spawn of a method.                     *)

RECURSIVE GenExpr(_), GenStmt(_)
GenBlock(b) == \A s \in ToSet(b) : GenStmt(s)

GenExpr(e) ==
  LET AllOf(es) == \A a \in ToSet(es) : GenExpr(a)
  IN  CASE e.k = "match"          -> FALSE
        [] e.k \in {"str", "ident"} -> TRUE
        [] e.k = "unary"          -> GenExpr(e.of)
        [] e.k = "binary"         -> AllOf(<<e.left, e.right>>)
        [] e.k = "index"          -> AllOf(<<e.base, e.index>>)
        [] e.k = "field"          -> GenExpr(e.base)
        [] e.k = "call"           -> /\ e.callee.k \in {"ident", "field"}
                                     /\ AllOf(<<e.callee>> \o e.args)
        [] e.k = "slice"          -> e.els # <<>> /\ AllOf(e.els)
        [] e.k = "struct"         -> AllOf(<<e.items, e.str>>)
        [] e.k = "recv"           -> e.of.k = "ident"

GenMatch(e) ==
  /\ GenExpr(e.scrutinee)
  /\ \A i \in DOMAIN e.arms :
       /\ e.arms[i].guard = <<>>
       /\ IF e.arms[i].body.k = "block" THEN GenBlock(e.arms[i].body.stmts)
                                        ELSE GenExpr(e.arms[i].body)

GenValue(e) == IF e.k = "match" THEN GenMatch(e) ELSE GenExpr(e)

GenStmt(s) ==
  CASE s.k = "decl"   -> /\ Len(s.values) = 1
                         /\ IF Len(s.names) = 1 THEN GenValue(s.values[1])
                                                ELSE GenExpr(s.values[1])
    [] s.k = "assign" -> /\ s.target.k \in {"ident", "index"}
                         /\ GenExpr(s.target) /\ GenExpr(s.value)
    [] s.k = "return" -> IF Len(s.values) = 1 THEN GenValue(s.values[1])
                         ELSE \A v \in ToSet(s.values) : GenExpr(v)
    [] s.k = "if"     -> GenExpr(s.cond) /\ GenBlock(s.then) /\ GenBlock(s.else)
    [] s.k = "for"    -> GenExpr(s.iter) /\ GenBlock(s.body)
    [] s.k = "expr"   -> GenValue(s.value)
    [] s.k = "assert" -> GenExpr(s.value)
    [] s.k = "send"   -> GenExpr(s.chan) /\ GenExpr(s.value)
    [] s.k = "spawn"  -> /\ s.value.k = "call" /\ s.value.callee.k = "ident"
                         /\ GenExpr(s.value)

-----------------------------------------------------------------------------
(* What the generated code does.  m is the memory: the variables (kept is  *)
(* what a goroutine or the caller got), the fields of each object, and     *)
(* whether the function has returned.                                      *)

(* Functions of the program: put(x, v) and the method x.set(v) of a struct *)
(* store v into a slice, keep(v) starts a goroutine that holds v, upper(v) *)
(* and split(v) make strings, same(x) returns its argument, and Some(x) is *)
(* a variant of an enum.                                                   *)
Effect(f, a, m) ==
  CASE f = "put"  -> [m EXCEPT !.heap[a[1]].elem = a[2]]
    [] f = "set"  -> [m EXCEPT !.heap[m.heap[a[1]].items].elem = a[2]]
    [] f = "keep" -> [m EXCEPT !.var["kept"] = a[1]]
    [] f = "Some" -> [m EXCEPT !.heap["V"].payload = a[1]]
    [] OTHER      -> m

Result(f, a) ==
  CASE f \in {"upper", "split"} -> "fresh"
    [] f = "same" -> a[1]
    [] f = "Some" -> "V"
    [] OTHER      -> "lit"

(* <<value, memory>> after evaluating e, left to right; EvalAll: values. *)
RECURSIVE Eval(_, _)
EvalAll(es, m) ==
  FoldLeft(LAMBDA a, e : LET x == Eval(e, a[2]) IN <<Append(a[1], x[1]), x[2]>>,
           <<<<>>, m>>, es)

Operands(e) ==
  CASE e.k = "unary"  -> <<e.of>>
    [] e.k = "binary" -> <<e.left, e.right>>
    [] e.k = "index"  -> <<e.base, e.index>>
    [] e.k = "field"  -> <<e.base>>
    [] e.k = "slice"  -> e.els
    [] e.k = "struct" -> <<e.items, e.str>>
    [] e.k = "recv"   -> <<e.of>>
    [] e.k = "call"   -> (IF e.callee.k = "field" THEN <<e.callee.base>> ELSE <<>>) \o e.args
    [] OTHER          -> <<>>

Eval(e, m) ==
  LET x == EvalAll(Operands(e), m)
      v == x[1]
      n == x[2]
  IN  CASE e.k \in {"str", "unary"} -> <<"lit", n>>
        [] e.k = "ident"  -> <<m.var[e.name], n>>
        [] e.k = "binary" -> <<IF e.op = "+" THEN "fresh" ELSE "lit", n>>
        [] e.k \in {"index", "recv"} -> <<n.heap[v[1]].elem, n>>
        [] e.k = "field"  -> <<n.heap[v[1]][e.field], n>>
        [] e.k = "slice"  -> <<e.at, [n EXCEPT !.heap[e.at].elem = v[1]]>>
        [] e.k = "struct" -> <<"W", [n EXCEPT !.heap["W"] = [items |-> v[1], str |-> v[2]]]>>
        [] e.k = "call"   ->
             LET f == IF e.callee.k = "field" THEN e.callee.field ELSE e.callee.name
             IN  <<Result(f, v), Effect(f, v, n)>>

Bind(names, v, m) ==
  [m EXCEPT !.var = [x \in DOMAIN @ |-> IF x \in ToSet(names) THEN v ELSE @[x]]]

(* The memories a statement can leave: branches taken or not, any arm, an  *)
(* inner loop of no iteration or of one.  Nothing follows a return.        *)
RECURSIVE Exec(_, _)
ExecBlock(b, m) ==
  FoldLeft(LAMBDA ms, s : UNION {IF n.done THEN {n} ELSE Exec(s, n) : n \in ms}, {m}, b)

(* A value, or an arm of a match; Then(v, m) is what is done with it.      *)
ExecValue(e, m, Then(_, _)) ==
  IF e.k # "match"
  THEN LET x == Eval(e, m) IN {Then(x[1], x[2])}
  ELSE LET x == Eval(e.scrutinee, m)
           In(arm) == Bind(arm.bindings, x[2].heap[x[1]].payload, x[2])
       IN  UNION {IF arm.body.k = "block" THEN ExecBlock(arm.body.stmts, In(arm))
                  ELSE LET y == Eval(arm.body, In(arm)) IN {Then(y[1], y[2])} :
                    arm \in ToSet(e.arms)}

Exec(s, m) ==
  CASE s.k = "decl" -> ExecValue(s.values[1], m, LAMBDA v, n : Bind(s.names, v, n))
    [] s.k = "assign" ->
         IF s.target.k = "ident"
         THEN ExecValue(s.value, m, LAMBDA v, n : Bind(<<s.target.name>>, v, n))
         ELSE LET x == EvalAll(<<s.target.base, s.target.index, s.value>>, m)
              IN  {[x[2] EXCEPT !.heap[x[1][1]].elem = x[1][3]]}
    [] s.k = "expr"   -> ExecValue(s.value, m, LAMBDA v, n : n)
    [] s.k = "assert" -> ExecValue(s.value, m, LAMBDA v, n : n)
    [] s.k = "if"     -> LET c == Eval(s.cond, m)[2]
                         IN  ExecBlock(s.then, c) \cup ExecBlock(s.else, c)
    [] s.k = "for" /\ s.head = "while" ->
         LET c == Eval(s.iter, m)[2] IN {c} \cup ExecBlock(s.body, c)
    [] s.k = "for" /\ s.head = "in" ->
         LET x == Eval(s.iter, m)
         IN  {x[2]} \cup ExecBlock(s.body, Bind(<<s.var>>, x[2].heap[x[1]].elem, x[2]))
    [] s.k = "for" /\ s.head = "infinite" -> {n \in ExecBlock(s.body, m) : n.done}
    [] s.k = "send"   -> LET x == EvalAll(<<s.chan, s.value>>, m)
                         IN  {[x[2] EXCEPT !.heap[x[1][1]].elem = x[1][2]]}
    [] s.k = "spawn"  -> LET x == EvalAll(Operands(s.value), m)
                         IN  {Bind(<<"kept">>, v, x[2]) : v \in ToSet(x[1])}
    [] s.k = "return" /\ Len(s.values) = 1 ->
         {[n EXCEPT !.done = TRUE] :
            n \in ExecValue(s.values[1], m, LAMBDA v, n : Bind(<<"kept">>, v, n))}
    [] s.k = "return" /\ Len(s.values) # 1 ->
         LET x == EvalAll(s.values, m)
         IN  {[Bind(<<"kept">>, v, x[2]) EXCEPT !.done = TRUE] : v \in ToSet(x[1])}

-----------------------------------------------------------------------------
VARIABLES
  mem,      \* the memory at this point of the iteration
  escapes   \* body_escapes of the body so far: TRUE means no arena for this loop

vars == <<mem, escapes>>

(* s, t, tt, w and d are declared at the head of the body. *)
Init ==
  /\ mem = [var  |-> [os |-> "lit", o |-> "O", oo |-> "OO", u |-> "U", e |-> "E",
                      ch |-> "C", kept |-> "lit", row |-> "R",
                      s |-> "lit", t |-> "T", tt |-> "TT", w |-> "W", d |-> "V",
                      b |-> "T", x |-> "lit"],
            heap |-> [O |-> [elem |-> "lit"], OO |-> [elem |-> "R"],
                      R |-> [elem |-> "lit"],
                      U |-> [items |-> "I", str |-> "lit"], I |-> [elem |-> "lit"],
                      E |-> [payload |-> "P"], P |-> [elem |-> "lit"],
                      C |-> [elem |-> "M"], M |-> [elem |-> "lit"],
                      T |-> [elem |-> "lit"], TT |-> [elem |-> "T"],
                      W |-> [items |-> "T", str |-> "lit"], V |-> [payload |-> "T"]],
            done |-> FALSE]
  /\ escapes = FALSE

Execute(s) ==
  /\ GenStmt(s)
  /\ ~mem.done /\ ~escapes
  /\ mem' \in Exec(s, mem)
  /\ escapes' = StmtEscapes(s, outerHeapVars)

Next == \E s \in Stmts : Execute(s)

Spec == Init /\ [][Next]_vars

-----------------------------------------------------------------------------
(* What can be reached from the values in S. *)
RECURSIVE Reach(_)
Reach(S) ==
  LET T == S \cup UNION {{mem.heap[x][f] : f \in DOMAIN mem.heap[x]} :
                           x \in S \cap DOMAIN mem.heap}
  IN  IF T = S THEN S ELSE Reach(T)

(* Everything that can still be read once the iteration is over. *)
Survives == Reach({mem.var[n] : n \in outerHeapVars \cup {"kept"}})

(* The analysis is sound: it lets the loop reset an arena only if nothing  *)
(* that outlives the iteration refers to a string made in it.              *)
Sound == ~escapes => "fresh" \notin Survives
=============================================================================
