----------------------------- MODULE MCPackages -----------------------------
(***************************************************************************)
(* A package that may be asked for by URL from two repositories; it and    *)
(* another one are published, with a tag, and may be asked for by name.    *)
(***************************************************************************)
EXTENDS Packages

Dep(n, u, v) == [name |-> n, url |-> u, version |-> v]
MCDeps == {Dep("greeter", "u1", 0), Dep("greeter", "u2", 0)}
MCHome == [p \in {"greeter", "httpx"} |-> IF p = "greeter" THEN "u1" ELSE "u3"]
=============================================================================
