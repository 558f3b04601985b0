--------------------------- MODULE MCEscapeAnalysis ---------------------------
(* Bodies over the outer variables os (string), o ([]string), oo           *)
(* ([][]string), u (struct), e (enum), ch (chan[[]string]), the loop's own *)
(* row ([]string), and the inner s (string), t ([]string), tt              *)
(* ([][]string), w (struct), d (enum), b (bound by a match), x (a loop's). *)
EXTENDS EscapeAnalysis

At(e)     == Idx(e, Str)
Items(e)  == Field(e, "items")
Put(x, v) == CallOf("put", <<x, v>>)

Outer == {Id("o"), At(Id("oo")), Items(Id("u")), RecvFrom(Id("ch"))}
Inner == {Id("t"), At(Id("tt")), Items(Id("w"))}

Strings == {Str, Id("os"), Id("s")}
Made    == {Binary("+", Id("os"), v) : v \in Strings} \cup
           {CallOf("upper", <<Id("s")>>), CallOf("upper", <<Id("os")>>)}
Values  == Strings \cup Made \cup {At(x) : x \in Outer \cup Inner \cup {Id("row")}} \cup
           {Field(Id("u"), "str"), Field(Id("w"), "str")}

(* Few values are enough where a statement is nested in another. *)
New  == Binary("+", Str, Id("s"))
Few  == {Str, Id("s"), New}
Puts == {Put(x, v) : x \in Outer \cup Inner, v \in Few} \cup
        {Method(Id(x), "set", <<v>>) : x \in {"u", "w"}, v \in Few}

Simple ==
  {Decl(<<"s">>, <<v>>) : v \in Values} \cup
  {Decl(<<"s", "x">>, <<CallOf("split", <<v>>)>>) : v \in Few} \cup
  {Decl(<<"t">>, <<SliceLit("T", <<v>>)>>) : v \in Values} \cup
  {Decl(<<"t">>, <<x>>) : x \in Inner} \cup
  {Decl(<<"t">>, <<CallOf("same", <<x>>)>>) : x \in Outer \cup Inner} \cup
  {Decl(<<"tt">>, <<SliceLit("TT", <<x>>)>>) : x \in Inner} \cup
  {Decl(<<"w">>, <<StructLit(x, v)>>) : x \in Inner, v \in Few} \cup
  {Decl(<<"d">>, <<CallOf("Some", <<x>>)>>) : x \in Outer \cup Inner} \cup
  {Assign(Id(n), v) : n \in {"os", "s"}, v \in Values} \cup
  {Assign(Id(n), x) : n \in {"o", "t"}, x \in Inner} \cup
  {Assign(At(x), v) : x \in Outer \cup Inner, v \in Values} \cup
  {Assign(At(Id(n)), x) : n \in {"oo", "tt"}, x \in Inner} \cup
  {Assign(At(Id("oo")), x) : x \in Outer} \cup
  {Do(p) : p \in Puts} \cup {AssertThat(Not(p)) : p \in Puts} \cup
  {Send(Id("ch"), x) : x \in Outer \cup Inner} \cup
  {Spawn(CallOf("worker", <<v>>)) : v \in Few \cup Inner} \cup
  {Return(<<v>>) : v \in Few} \cup {Return(<<Str, New>>)}

(* A match over an outer or an inner enum: what is bound is only read, or  *)
(* belongs to the inner one.                                               *)
Arms(y, z) == <<Arm(<<"b">>, <<>>, y), Arm(<<>>, <<>>, z)>>
Tails      == {Do(p) : p \in Puts} \cup
              {Assign(t, v) : t \in {Id("os"), Id("s"), At(Id("o")), At(Id("t"))}, v \in Few}

Matches ==
  {Decl(<<"s">>, <<Match(Id(n), Arms(At(Id("b")), v))>>) : n \in {"d", "e"}, v \in Few} \cup
  {Decl(<<"t">>, <<Match(Id("d"), Arms(Id("b"), x))>>) : x \in Inner} \cup
  {Do(Match(Id(n), Arms(Str, p))) : n \in {"d", "e"}, p \in Puts} \cup
  {Do(Match(Id("d"), Arms(Put(Id("b"), v), Block(<<a>>)))) : v \in Few, a \in Tails} \cup
  {Do(Match(CallOf("Some", <<x>>), Arms(Put(Id("b"), v), Str))) :
     x \in Outer \cup Inner, v \in Few} \cup
  {Return(<<Match(Id("d"), Arms(At(Id("b")), v))>>) : v \in Few}

Nested ==
  {If(Binary("==", Id("s"), v), <<a>>, <<c>>) :
     v \in {Str, New}, a \in Tails, c \in {Do(Str), Assign(Id("os"), New), Return(<<New>>)}} \cup
  {If(Str, <<>>, <<Decl(<<"s">>, <<New>>), a>>) : a \in Tails} \cup
  {If(Not(p), <<>>, <<>>) : p \in Puts} \cup
  {While(Binary("==", Id("s"), v), <<a>>) : v \in {Str, New}, a \in Tails} \cup
  {ForIn("x", x, <<Decl(<<"s">>, <<Id("x")>>), a>>) :
     x \in {Id("o"), Id("t"), Id("row")}, a \in Tails} \cup
  {ForIn("b", Id("oo"), <<Decl(<<"s">>, <<At(Id("b"))>>)>>)} \cup
  {ForIn("b", Id("tt"), <<Do(Put(Id("b"), v))>>) : v \in Few} \cup
  {Forever(<<a, Return(<<Id("s")>>)>>) : a \in Tails}

(* What the analysis would let pass, but the backend does not generate. *)
Through(x) == Match(Id("d"), <<Arm(<<>>, <<>>, x)>>)
Refused ==
  {Do(Put(Through(x), New)) : x \in Outer} \cup
  {Assign(At(Through(x)), New) : x \in Outer} \cup
  {Decl(<<"s">>, <<Binary("+", Str, Match(Id("d"), Arms(At(Id("b")), v)))>>) : v \in Few} \cup
  {Do(Match(Id("d"), <<Arm(<<>>, <<p>>, Str)>>)) : p \in Puts} \cup
  {Assign(Field(Id(n), "str"), New) : n \in {"u", "w"}} \cup
  {Decl(<<"s", "x">>, <<v, New>>) : v \in Few} \cup
  {Spawn(Method(Id("w"), "set", <<New>>)), Decl(<<"t">>, <<RecvFrom(Items(Id("w")))>>)}

(* Bodies that give no second name to memory from before the loop, declare *)
(* no outer name again, keep calls out of loop heads and of the index of a *)
(* target, and call no function that leaves a goroutine behind.            *)
MCAliasFree == Simple \cup Matches \cup Nested \cup Refused

(* The same, with a second name for outer memory: by declaration, as part  *)
(* of a literal, by a match, or as a loop's variable (for row in oo).      *)
MCAliases ==
  MCAliasFree \cup
  {Decl(<<"t">>, <<x>>) : x \in Outer \cup {Id("row")}} \cup
  {Decl(<<"w">>, <<StructLit(Id("o"), Str)>>), Decl(<<"tt">>, <<SliceLit("TT", <<Id("o")>>)>>)} \cup
  {Do(Match(Id("e"), Arms(Put(Id("b"), New), Str)))} \cup
  {ForIn("b", Id("oo"), <<Assign(At(Id("b")), New)>>)} \cup
  {Assign(At(Id("row")), v) : v \in Values}
=============================================================================
