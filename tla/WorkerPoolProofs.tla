--------------------------- MODULE WorkerPoolProofs ---------------------------
(***************************************************************************)
(* Proofs about WorkerPool, for any number of workers and of jobs, and any *)
(* capacity of the two channels: no job is lost or doubled, all results    *)
(* are printed, and the pool hangs only by back-pressure.                  *)
(*                                                                         *)
(* Every step of the pool is one of VaderChan, so that what is proved of   *)
(* the channels holds here; what has to be added is what the threads use   *)
(* them for.                                                               *)
(***************************************************************************)
EXTENDS WorkerPool, VaderChanProofs, FunctionTheorems

LEMMA PoolConstants ==
  /\ Main \in Threads /\ Main \notin Workers /\ Workers \subseteq Threads
  /\ \A t \in Threads : t = Main \/ t \in Workers
  /\ Chans = {jobs, results} /\ jobs # results
  /\ NJobs \in Nat /\ 1 .. 2 * NJobs \subseteq Values
  /\ Nothing \notin Values /\ Nothing \notin Request
BY PoolAssumption, NothingAssumption DEF PoolAssumption, Workers

-----------------------------------------------------------------------------
(* The inductive invariant.  What main has done and is about to do, ...    *)
MainInv ==
  /\ at \in {"spawn", "send", "collect", "exited"}
  /\ sent \in 0 .. NJobs /\ asked \in 0 .. NJobs
  /\ printed \in Seq(Values)
  /\ at = "spawn" => pc[Main] = "idle" /\ sent = 0
  /\ at \in {"spawn", "send"} => asked = 0 /\ printed = <<>>
  /\ at = "send" /\ pc[Main] # "idle" =>
       sent > 0 /\ req[Main] = [op |-> "send", ch |-> jobs, val |-> sent]
  /\ at \in {"collect", "exited"} => sent = NJobs
  /\ at = "collect" =>
       /\ pc[Main] # "idle" =>
            req[Main] = IF asked = 0 THEN [op |-> "close", ch |-> jobs, val |-> Nothing]
                        ELSE [op |-> "recv", ch |-> results, val |-> Nothing]
       /\ Len(printed) = IF asked = 0 THEN 0 ELSE asked - 1
       /\ asked > 0 => (res[Main] # Nothing <=> pc[Main] \in {"idle", "unlock"})
       /\ asked > 0 \/ pc[Main] \in {"idle", "unlock"} => chan[jobs].closed
  /\ at = "exited" => Len(printed) = NJobs

(* ... what a worker is calling the runtime for, ...                       *)
Drained == chan[jobs].closed /\ chan[jobs].count = 0

WorkerInv(w) ==
  /\ live[w] \in {"unborn", "failed", "loop", "asked", "reply", "gone"}
  /\ live[w] \notin {"asked", "reply"} => pc[w] = "idle"
  /\ live[w] = "asked" =>
       /\ pc[w] # "idle" => req[w] = [op |-> "recv", ch |-> jobs, val |-> Nothing]
       /\ pc[w] \in {"lock", "body", "wait"} => res[w] = Nothing
       /\ res[w] # Nothing => res[w] \in 1 .. NJobs
       /\ pc[w] \in {"idle", "unlock"} /\ res[w] = Nothing => Drained
  /\ live[w] = "reply" /\ pc[w] # "idle" => req[w].op = "send" /\ req[w].ch = results
  /\ live[w] = "gone" => Drained

(* ... that jobs is closed when all has been sent and results never is,    *)
(* that what is in jobs are jobs, ...                                      *)
Closing == ~chan[results].closed /\ (chan[jobs].closed => at \in {"collect", "exited"})

JobValues == \A i \in 1 .. chan[jobs].count : Contents(chan[jobs])[i] \in 1 .. NJobs

(* ... and where they all are.                                             *)
Doubles == {2 * j : j \in 1 .. Accepted}
Where   == [p \in Places |-> JobAt(p)]
Flow    == Where \in Bijection(Places, Doubles)

Roles == /\ live \in [Workers -> {"unborn", "failed", "loop", "asked", "reply", "gone"}]
         /\ MainInv /\ (\A w \in Workers : WorkerInv(w)) /\ Closing /\ JobValues

-----------------------------------------------------------------------------
(* One-to-one correspondences.                                             *)
Over(K, P) == K = [p \in P |-> K[p]]

LEMMA Added ==
  ASSUME NEW P, NEW S, NEW J \in Bijection(P, S), NEW x, x \notin P, NEW y, y \notin S,
         NEW K, Over(K, P \cup {x}),
         K[x] = y, \A p \in P : K[p] = J[p]
  PROVE  K \in Bijection(P \cup {x}, S \cup {y})
<1>1. /\ J \in [P -> S]
      /\ \A a, b \in P : J[a] = J[b] => a = b
      /\ \A s \in S : \E p \in P : J[p] = s
  BY Fun_BijectionProperties
<1>2. K \in [P \cup {x} -> S \cup {y}]
  BY <1>1 DEF Over
<1>3. \A a, b \in P \cup {x} : K[a] = K[b] => a = b
  BY <1>1
<1>4. \A s \in S \cup {y} : \E p \in P \cup {x} : K[p] = s
  BY <1>1
<1> QED
  BY <1>2, <1>3, <1>4, Fun_IsBij

LEMMA Renamed ==
  ASSUME NEW P, NEW S, NEW J \in Bijection(P, S), NEW x \in P, NEW z, z \notin P, NEW N,
         N = (P \ {x}) \cup {z},
         NEW K, Over(K, N),
         K[z] = J[x], \A q \in P \ {x} : K[q] = J[q]
  PROVE  K \in Bijection(N, S)
<1>1. /\ J \in [P -> S]
      /\ \A a, b \in P : J[a] = J[b] => a = b
      /\ \A s \in S : \E p \in P : J[p] = s
  BY Fun_BijectionProperties
<1>2. K \in [N -> S]
  BY <1>1 DEF Over
<1>3. \A a, b \in N : K[a] = K[b] => a = b
  BY <1>1
<1>4. \A s \in S : \E q \in N : K[q] = s
  <2> TAKE s \in S
  <2>1. PICK p \in P : J[p] = s
    BY <1>1
  <2>2. CASE p = x
    BY <2>1, <2>2
  <2>3. CASE p # x
    BY <2>1, <2>3
  <2> QED
    BY <2>2, <2>3
<1> QED
  BY <1>2, <1>3, <1>4, Fun_IsBij

(* The first of a queue goes to another place z and the others move up.    *)
MovesUp(tag, n, X, z, P, N) ==
  /\ n \in Nat
  /\ z \notin X /\ \A i \in 1 .. n + 1 : <<tag, i>> \notin X /\ <<tag, i>> # z
  /\ P = {<<tag, i>> : i \in 1 .. n + 1} \cup X
  /\ N = {<<tag, i>> : i \in 1 .. n} \cup X \cup {z}

LEMMA Shifted ==
  ASSUME NEW tag, NEW n, NEW X, NEW z, NEW P, NEW N, MovesUp(tag, n, X, z, P, N),
         NEW S, NEW J \in Bijection(P, S),
         NEW K, Over(K, N),
         K[z] = J[<<tag, 1>>],
         \A i \in 1 .. n : K[<<tag, i>>] = J[<<tag, i + 1>>],
         \A q \in X : K[q] = J[q]
  PROVE  K \in Bijection(N, S)
<1> DEFINE From(q, p) ==
             \/ q = z /\ p = <<tag, 1>>
             \/ \E i \in 1 .. n : q = <<tag, i>> /\ p = <<tag, i + 1>>
             \/ q \in X /\ p = q
<1>1. /\ J \in [P -> S]
      /\ \A a, b \in P : J[a] = J[b] => a = b
      /\ \A s \in S : \E p \in P : J[p] = s
  BY Fun_BijectionProperties
<1>2. \A q \in N : \E p \in P : From(q, p)
  <2> TAKE q \in N
  <2>1. CASE q = z
    BY <2>1 DEF MovesUp
  <2>2. ASSUME NEW i \in 1 .. n, q = <<tag, i>> PROVE \E p \in P : From(q, p)
    <3>1. i + 1 \in 1 .. n + 1
      BY DEF MovesUp
    <3> QED
      BY <2>2, <3>1 DEF MovesUp
  <2>3. CASE q \in X
    BY <2>3 DEF MovesUp
  <2> QED
    BY <2>1, <2>2, <2>3 DEF MovesUp
<1>3. \A p \in P : \E q \in N : From(q, p)
  <2> TAKE p \in P
  <2>1. CASE p = <<tag, 1>>
    BY <2>1 DEF MovesUp
  <2>2. ASSUME NEW i \in 1 .. n + 1, i # 1, p = <<tag, i>> PROVE \E q \in N : From(q, p)
    <3>1. i - 1 \in 1 .. n /\ i = (i - 1) + 1
      BY <2>2 DEF MovesUp
    <3>2. <<tag, i - 1>> \in N /\ From(<<tag, i - 1>>, p)
      BY <2>2, <3>1 DEF MovesUp
    <3> QED
      BY <3>2
  <2>3. CASE p \in X
    BY <2>3 DEF MovesUp
  <2> QED
    BY <2>1, <2>2, <2>3 DEF MovesUp
<1>4. \A q \in N, p \in P : From(q, p) => K[q] = J[p]
  OBVIOUS
<1>5. ASSUME NEW q \in N, NEW s \in N, NEW p \in P, From(q, p), From(s, p) PROVE q = s
  <2>1. CASE p = <<tag, 1>>
    <3>1. p \notin X /\ \A i \in 1 .. n : p # <<tag, i + 1>>
      BY <2>1 DEF MovesUp
    <3>2. q = z /\ s = z
      BY <1>5, <3>1, Zenon
    <3> QED
      BY <3>2
  <2>2. CASE p \in X
    <3>1. p # <<tag, 1>> /\ \A i \in 1 .. n : p # <<tag, i + 1>>
      BY <2>2 DEF MovesUp
    <3> QED
      BY <1>5, <3>1, Zenon
  <2>3. CASE p \notin X /\ p # <<tag, 1>>
    <3>1. PICK i \in 1 .. n : q = <<tag, i>> /\ p = <<tag, i + 1>>
      BY <1>5, <2>3, Zenon
    <3>2. PICK k \in 1 .. n : s = <<tag, k>> /\ p = <<tag, k + 1>>
      BY <1>5, <2>3, Zenon
    <3>3. i + 1 = k + 1
      BY <3>1, <3>2
    <3> QED
      BY <3>1, <3>2, <3>3
  <2> QED
    BY <2>1, <2>2, <2>3
<1> HIDE DEF From
<1>6. K \in [N -> S]
  BY <1>1, <1>2, <1>4 DEF Over
<1>7. \A a, b \in N : K[a] = K[b] => a = b
  <2> TAKE a, b \in N
  <2>1. PICK p \in P : From(a, p)
    BY <1>2
  <2>2. PICK s \in P : From(b, s)
    BY <1>2
  <2> QED
    BY <1>1, <1>4, <1>5, <2>1, <2>2
<1>8. \A s \in S : \E q \in N : K[q] = s
  BY <1>1, <1>3, <1>4
<1> QED
  BY <1>6, <1>7, <1>8, Fun_IsBij

-----------------------------------------------------------------------------
(* Places and what is there, as data: J and R are what is in the buffers,  *)
(* H the workers with something in their hands and h what, m whether main  *)
(* has a result and r which, o what was printed.                           *)
Spots(J, H, R, m, o) ==
  {<<"jobs", i>> : i \in 1 .. Len(J)}
  \cup {<<"hand", w>> : w \in H}
  \cup {<<"results", i>> : i \in 1 .. Len(R)}
  \cup (IF m THEN {<<"main", 1>>} ELSE {})
  \cup {<<"out", i>> : i \in 1 .. Len(o)}

Shows(B, J, H, h, R, m, r, o) ==
  /\ Over(B, Spots(J, H, R, m, o))
  /\ \A i \in 1 .. Len(J) : B[<<"jobs", i>>] = 2 * J[i]
  /\ \A w \in H : B[<<"hand", w>>] = h[w]
  /\ \A i \in 1 .. Len(R) : B[<<"results", i>>] = R[i]
  /\ m => B[<<"main", 1>>] = r
  /\ \A i \in 1 .. Len(o) : B[<<"out", i>>] = o[i]

LEMMA SameShown ==
  ASSUME NEW J, NEW H, NEW h, NEW R, NEW m \in BOOLEAN, NEW r, NEW o, NEW h2, NEW r2,
         \A w \in H : h2[w] = h[w], m => r2 = r,
         NEW B, Shows(B, J, H, h, R, m, r, o), NEW K, Shows(K, J, H, h2, R, m, r2, o)
  PROVE  K = B
<1>1. ASSUME NEW p \in Spots(J, H, R, m, o) PROVE K[p] = B[p]
  BY <1>1 DEF Shows, Spots
<1> QED
  BY <1>1 DEF Shows, Over

(* Main sends a job. *)
LEMMA SentShown ==
  ASSUME NEW V, NEW J \in Seq(V), NEW H, NEW h, NEW R, NEW m \in BOOLEAN, NEW r, NEW o,
         NEW B, Shows(B, J, H, h, R, m, r, o),
         NEW S, B \in Bijection(Spots(J, H, R, m, o), S),
         NEW v \in V, 2 * v \notin S,
         NEW K, Shows(K, Append(J, v), H, h, R, m, r, o)
  PROVE  K \in Bijection(Spots(Append(J, v), H, R, m, o), S \cup {2 * v})
<1> DEFINE P == Spots(J, H, R, m, o)
           x == <<"jobs", Len(J) + 1>>
           L == Append(J, v)
<1>1. Len(L) = Len(J) + 1 /\ Len(J) \in Nat /\ L[Len(J) + 1] = v
      /\ \A i \in 1 .. Len(J) : L[i] = J[i]
  OBVIOUS
<1>2. x \notin P
  BY <1>1 DEF Spots
<1>3. Spots(L, H, R, m, o) = P \cup {x}
  <2>1. 1 .. Len(L) = 1 .. Len(J) \cup {Len(J) + 1}
    BY <1>1
  <2>2. {<<"jobs", i>> : i \in 1 .. Len(L)} = {<<"jobs", i>> : i \in 1 .. Len(J)} \cup {x}
    BY <2>1
  <2> QED
    BY <2>2 DEF Spots
<1> HIDE DEF L
<1>4. K[x] = 2 * v
  BY <1>1 DEF Shows, L
<1>5. ASSUME NEW p \in P PROVE K[p] = B[p]
  <2>1. \A i \in 1 .. Len(J) : i \in 1 .. Len(L)
    BY <1>1
  <2> QED
    BY <1>1, <1>5, <2>1 DEF Spots, Shows, L
<1>6. Over(K, P \cup {x})
  BY <1>3 DEF Shows, L
<1> HIDE DEF P, x
<1> QED
  BY <1>2, <1>3, <1>4, <1>5, <1>6, Added DEF P, L

(* A worker takes the first job. *)
LEMMA TakenShown ==
  ASSUME NEW V, NEW J \in Seq(V), J # <<>>, NEW H, NEW h, NEW R, NEW m \in BOOLEAN, NEW r, NEW o,
         NEW B, Shows(B, J, H, h, R, m, r, o),
         NEW S, B \in Bijection(Spots(J, H, R, m, o), S),
         NEW w, w \notin H, NEW h2, h2[w] = 2 * Head(J), \A u \in H : h2[u] = h[u],
         NEW K, Shows(K, Tail(J), H \cup {w}, h2, R, m, r, o)
  PROVE  K \in Bijection(Spots(Tail(J), H \cup {w}, R, m, o), S)
<1> DEFINE n == Len(J) - 1
           z == <<"hand", w>>
           X == Spots(<<>>, H, R, m, o)
           P == Spots(J, H, R, m, o)
           T == Tail(J)
           N == Spots(T, H \cup {w}, R, m, o)
<1>1. /\ Len(T) = n /\ n \in Nat /\ Len(J) = n + 1 /\ Head(J) = J[1]
      /\ \A i \in 1 .. n : T[i] = J[i + 1]
  OBVIOUS
<1> HIDE DEF n, T
<1>2. P = {<<"jobs", i>> : i \in 1 .. n + 1} \cup X
  BY <1>1 DEF Spots
<1>3. N = {<<"jobs", i>> : i \in 1 .. n} \cup X \cup {z}
  <2>1. {<<"hand", u>> : u \in H \cup {w}} = {<<"hand", u>> : u \in H} \cup {z}
    OBVIOUS
  <2> QED
    BY <1>1, <2>1 DEF Spots
<1>4. z \notin X /\ \A i : <<"jobs", i>> \notin X /\ <<"jobs", i>> # z
  BY DEF Spots
<1>5. MovesUp("jobs", n, X, z, P, N)
  BY <1>1, <1>2, <1>3, <1>4 DEF MovesUp
<1>6. Over(K, N) /\ K[z] = h2[w]
  BY DEF Shows, T
<1>7. /\ \A i \in 1 .. n : K[<<"jobs", i>>] = 2 * T[i]
      /\ \A i \in 1 .. n + 1 : B[<<"jobs", i>>] = 2 * J[i]
  BY <1>1 DEF Shows, T
<1>8. /\ \A i \in 1 .. n : K[<<"jobs", i>>] = B[<<"jobs", i + 1>>]
      /\ K[z] = B[<<"jobs", 1>>]
  <2>1. 1 \in 1 .. n + 1 /\ \A i \in 1 .. n : i + 1 \in 1 .. n + 1
    BY <1>1
  <2> QED
    BY <1>1, <1>6, <1>7, <2>1
<1>9. ASSUME NEW q \in X PROVE K[q] = B[q]
  <2>1. CASE \E u \in H : q = <<"hand", u>>
    BY <1>1, <2>1 DEF Shows, T
  <2>2. CASE \E i \in 1 .. Len(R) : q = <<"results", i>>
    BY <1>1, <2>2 DEF Shows, T
  <2>3. CASE m /\ q = <<"main", 1>>
    BY <1>1, <2>3 DEF Shows, T
  <2>4. CASE \E i \in 1 .. Len(o) : q = <<"out", i>>
    BY <1>1, <2>4 DEF Shows, T
  <2> QED
    BY <1>9, <2>1, <2>2, <2>3, <2>4 DEF Spots
<1>10. B \in Bijection(P, S)
  OBVIOUS
<1> HIDE DEF z, X, P, N
<1>11. K \in Bijection(N, S)
  BY <1>5, <1>6, <1>8, <1>9, <1>10, Shifted
<1> QED
  BY <1>11 DEF N, T

(* Main receives the first result. *)
LEMMA ReceivedShown ==
  ASSUME NEW J, NEW H, NEW h, NEW V, NEW R \in Seq(V), R # <<>>, NEW r, NEW o,
         NEW B, Shows(B, J, H, h, R, FALSE, r, o),
         NEW S, B \in Bijection(Spots(J, H, R, FALSE, o), S),
         NEW K, Shows(K, J, H, h, Tail(R), TRUE, Head(R), o)
  PROVE  K \in Bijection(Spots(J, H, Tail(R), TRUE, o), S)
<1> DEFINE n == Len(R) - 1
           z == <<"main", 1>>
           X == Spots(J, H, <<>>, FALSE, o)
           P == Spots(J, H, R, FALSE, o)
           T == Tail(R)
           N == Spots(J, H, T, TRUE, o)
<1>1. /\ Len(T) = n /\ n \in Nat /\ Len(R) = n + 1 /\ Head(R) = R[1]
      /\ \A i \in 1 .. n : T[i] = R[i + 1]
  OBVIOUS
<1> HIDE DEF n, T
<1>2. P = {<<"results", i>> : i \in 1 .. n + 1} \cup X
  BY <1>1 DEF Spots
<1>3. N = {<<"results", i>> : i \in 1 .. n} \cup X \cup {z}
  BY <1>1 DEF Spots
<1>4. z \notin X /\ \A i : <<"results", i>> \notin X /\ <<"results", i>> # z
  BY DEF Spots
<1>5. MovesUp("results", n, X, z, P, N)
  BY <1>1, <1>2, <1>3, <1>4 DEF MovesUp
<1>6. Over(K, N) /\ K[z] = Head(R)
  BY DEF Shows, T
<1>7. /\ \A i \in 1 .. n : K[<<"results", i>>] = T[i]
      /\ \A i \in 1 .. n + 1 : B[<<"results", i>>] = R[i]
  BY <1>1 DEF Shows, T
<1>8. /\ \A i \in 1 .. n : K[<<"results", i>>] = B[<<"results", i + 1>>]
      /\ K[z] = B[<<"results", 1>>]
  <2>1. 1 \in 1 .. n + 1 /\ \A i \in 1 .. n : i + 1 \in 1 .. n + 1
    BY <1>1
  <2> QED
    BY <1>1, <1>6, <1>7, <2>1
<1>9. ASSUME NEW q \in X PROVE K[q] = B[q]
  <2>1. CASE \E i \in 1 .. Len(J) : q = <<"jobs", i>>
    BY <1>1, <2>1 DEF Shows, T
  <2>2. CASE \E u \in H : q = <<"hand", u>>
    BY <1>1, <2>2 DEF Shows, T
  <2>3. CASE \E i \in 1 .. Len(o) : q = <<"out", i>>
    BY <1>1, <2>3 DEF Shows, T
  <2> QED
    BY <1>9, <2>1, <2>2, <2>3 DEF Spots
<1>10. B \in Bijection(P, S)
  OBVIOUS
<1> HIDE DEF z, X, P, N
<1>11. K \in Bijection(N, S)
  BY <1>5, <1>6, <1>8, <1>9, <1>10, Shifted
<1> QED
  BY <1>11 DEF N, T

(* A worker hands in its result. *)
HandsIn(w, H, G, h, R, L) == w \in H /\ G = H \ {w} /\ L = Append(R, h[w])

LEMMA RepliedShown ==
  ASSUME NEW J, NEW H, NEW h, NEW V, NEW R \in Seq(V), NEW m \in BOOLEAN, NEW r, NEW o,
         NEW B, Shows(B, J, H, h, R, m, r, o),
         NEW S, B \in Bijection(Spots(J, H, R, m, o), S),
         NEW w, NEW G, NEW L, HandsIn(w, H, G, h, R, L), h[w] \in V,
         NEW h2, \A u \in G : h2[u] = h[u],
         NEW K, Shows(K, J, G, h2, L, m, r, o)
  PROVE  K \in Bijection(Spots(J, G, L, m, o), S)
<1> DEFINE x == <<"hand", w>>
           z == <<"results", Len(R) + 1>>
           P == Spots(J, H, R, m, o)
           N == Spots(J, G, L, m, o)
<1>1. Len(L) = Len(R) + 1 /\ Len(R) \in Nat /\ L[Len(R) + 1] = h[w]
      /\ (\A i \in 1 .. Len(R) : L[i] = R[i]) /\ w \in H /\ G = H \ {w}
  BY DEF HandsIn
<1>2. x \in P /\ z \notin P
  BY <1>1 DEF Spots
<1>3. N = (P \ {x}) \cup {z}
  <2>1. 1 .. Len(L) = 1 .. Len(R) \cup {Len(R) + 1}
    BY <1>1
  <2>2. {<<"results", i>> : i \in 1 .. Len(L)} = {<<"results", i>> : i \in 1 .. Len(R)} \cup {z}
    BY <2>1
  <2>3. {<<"hand", u>> : u \in G} = {<<"hand", u>> : u \in H} \ {x}
    BY <1>1
  <2> QED
    BY <2>2, <2>3 DEF Spots
<1>4. Over(K, N) /\ K[z] = B[x]
  <2>1. Len(R) + 1 \in 1 .. Len(L)
    BY <1>1
  <2> QED
    BY <1>1, <2>1 DEF Shows
<1>5. ASSUME NEW q \in P \ {x} PROVE K[q] = B[q]
  <2>1. \A i \in 1 .. Len(R) : i \in 1 .. Len(L)
    BY <1>1
  <2>2. CASE \E i \in 1 .. Len(J) : q = <<"jobs", i>>
    BY <1>1, <2>1, <2>2 DEF Shows
  <2>3. CASE \E u \in G : q = <<"hand", u>>
    BY <1>1, <2>1, <2>3 DEF Shows
  <2>4. CASE \E i \in 1 .. Len(R) : q = <<"results", i>>
    BY <1>1, <2>1, <2>4 DEF Shows
  <2>5. CASE m /\ q = <<"main", 1>>
    BY <1>1, <2>1, <2>5 DEF Shows
  <2>6. CASE \E i \in 1 .. Len(o) : q = <<"out", i>>
    BY <1>1, <2>1, <2>6 DEF Shows
  <2> QED
    BY <1>1, <1>5, <2>2, <2>3, <2>4, <2>5, <2>6 DEF Spots
<1>6. B \in Bijection(P, S)
  OBVIOUS
<1> HIDE DEF x, z, P, N
<1>7. K \in Bijection(N, S)
  BY <1>2, <1>3, <1>4, <1>5, <1>6, Renamed
<1> QED
  BY <1>7 DEF N

(* Main prints its result. *)
LEMMA PrintedShown ==
  ASSUME NEW J, NEW H, NEW h, NEW R, NEW V, NEW r \in V, NEW o \in Seq(V), NEW r2,
         NEW B, Shows(B, J, H, h, R, TRUE, r, o),
         NEW S, B \in Bijection(Spots(J, H, R, TRUE, o), S),
         NEW K, Shows(K, J, H, h, R, FALSE, r2, Append(o, r))
  PROVE  K \in Bijection(Spots(J, H, R, FALSE, Append(o, r)), S)
<1> DEFINE L == Append(o, r)
           x == <<"main", 1>>
           z == <<"out", Len(o) + 1>>
           P == Spots(J, H, R, TRUE, o)
           N == Spots(J, H, R, FALSE, L)
<1>1. Len(L) = Len(o) + 1 /\ Len(o) \in Nat /\ L[Len(o) + 1] = r
      /\ \A i \in 1 .. Len(o) : L[i] = o[i]
  OBVIOUS
<1> HIDE DEF L
<1>2. x \in P /\ z \notin P
  BY <1>1 DEF Spots
<1>3. N = (P \ {x}) \cup {z}
  <2>1. 1 .. Len(L) = 1 .. Len(o) \cup {Len(o) + 1}
    BY <1>1
  <2>2. {<<"out", i>> : i \in 1 .. Len(L)} = {<<"out", i>> : i \in 1 .. Len(o)} \cup {z}
    BY <2>1
  <2> QED
    BY <2>2 DEF Spots
<1>4. Over(K, N) /\ K[z] = B[x]
  <2>1. Len(o) + 1 \in 1 .. Len(L)
    BY <1>1
  <2> QED
    BY <1>1, <2>1 DEF Shows, L
<1>5. ASSUME NEW q \in P \ {x} PROVE K[q] = B[q]
  <2>1. \A i \in 1 .. Len(o) : i \in 1 .. Len(L)
    BY <1>1
  <2>2. CASE \E i \in 1 .. Len(J) : q = <<"jobs", i>>
    BY <1>1, <2>1, <2>2 DEF Shows, L
  <2>3. CASE \E u \in H : q = <<"hand", u>>
    BY <1>1, <2>1, <2>3 DEF Shows, L
  <2>4. CASE \E i \in 1 .. Len(R) : q = <<"results", i>>
    BY <1>1, <2>1, <2>4 DEF Shows, L
  <2>5. CASE \E i \in 1 .. Len(o) : q = <<"out", i>>
    BY <1>1, <2>1, <2>5 DEF Shows, L
  <2> QED
    BY <1>5, <2>2, <2>3, <2>4, <2>5 DEF Spots
<1>6. B \in Bijection(P, S)
  OBVIOUS
<1> HIDE DEF x, z, P, N
<1>7. K \in Bijection(N, S)
  BY <1>2, <1>3, <1>4, <1>5, <1>6, Renamed
<1> QED
  BY <1>7 DEF N, L

-----------------------------------------------------------------------------
(* What a step of the runtime on thread t does, as far as the pool can     *)
(* tell: it stays inside the call, returns from it, gives up, closes, puts *)
(* or takes.                                                               *)
Alone(t) ==
  /\ pc' \in [Threads -> {"idle", "lock", "body", "wait", "unlock"}]
  /\ \A u \in Threads : u # t => pc'[u] = pc[u] /\ req'[u] = req[u] /\ res'[u] = res[u]

SameRings ==
  \A c \in Chans : chan'[c].count = chan[c].count /\ Contents(chan'[c]) = Contents(chan[c])

SameClosed == \A c \in Chans : chan'[c].closed = chan[c].closed

Stays(t) ==
  /\ SameRings /\ SameClosed
  /\ pc[t] \in {"lock", "body", "wait"} /\ pc'[t] \in {"lock", "body", "wait"}
  /\ req' = req /\ res' = res

Returns(t) ==
  /\ SameRings /\ SameClosed
  /\ pc[t] = "unlock" /\ pc'[t] = "idle"
  /\ res' = res

GivesUp(t) ==
  /\ SameRings /\ SameClosed
  /\ pc[t] = "body" /\ pc'[t] = "unlock"
  /\ chan[req[t].ch].closed /\ req[t].op \in {"send", "recv"}
  /\ req[t].op = "recv" => chan[req[t].ch].count = 0
  /\ req' = req /\ res' = res

Closes(t) ==
  /\ SameRings
  /\ \A c \in Chans : chan'[c].closed = (chan[c].closed \/ c = req[t].ch)
  /\ pc[t] = "body" /\ pc'[t] = "unlock" /\ req[t].op = "close"
  /\ req' = req /\ res' = res

OthersSame(c) ==
  \A d \in Chans : d # c =>
    chan'[d].count = chan[d].count /\ Contents(chan'[d]) = Contents(chan[d])

PutsOne(t) ==
  /\ OthersSame(req[t].ch) /\ SameClosed /\ ~chan[req[t].ch].closed
  /\ chan'[req[t].ch].count = chan[req[t].ch].count + 1
  /\ Contents(chan'[req[t].ch]) = Append(Contents(chan[req[t].ch]), req[t].val)
  /\ pc[t] = "body" /\ pc'[t] = "unlock" /\ req[t].op = "send"
  /\ req' = req /\ res' = res

TakesOne(t) ==
  /\ OthersSame(req[t].ch) /\ SameClosed
  /\ chan[req[t].ch].count >= 1
  /\ chan'[req[t].ch].count = chan[req[t].ch].count - 1
  /\ Contents(chan'[req[t].ch]) = Tail(Contents(chan[req[t].ch]))
  /\ pc[t] = "body" /\ pc'[t] = "unlock" /\ req[t].op = "recv"
  /\ req' = req /\ res'[t] = Head(Contents(chan[req[t].ch]))

Kinds(t) ==
  Alone(t) /\ (\/ Stays(t) \/ Returns(t) \/ GivesUp(t)
               \/ Closes(t) \/ PutsOne(t) \/ TakesOne(t))

LEMMA AloneOf ==
  ASSUME TypeOK, NEW t \in Threads, NEW l, Moves(t, l),
         req' = req \/ (\E r : req' = [req EXCEPT ![t] = r]),
         res' = res \/ (\E r : res' = [res EXCEPT ![t] = r])
  PROVE  Alone(t) /\ pc'[t] = l
BY DEF TypeOK, Moves, Alone

LEMMA RingsOf ==
  ASSUME NEW c, NEW m, NEW F, NEW E, NEW b, Sets(c, m, F, E, b)
  PROVE  SameRings
BY DEF Sets, SameRings, Contents

LEMMA StaysOf ==
  ASSUME TypeOK, NEW t \in Threads, Lock(t) \/ SendWait(t) \/ RecvWait(t) \/ Spurious(t)
  PROVE  Alone(t) /\ Stays(t)
<1>1. PICK c : c = req[t].ch
  OBVIOUS
<1>2. \E m, F, E : Sets(c, m, F, E, chan[c].closed)
  BY <1>1, LockFrame, SendWaitFrame, RecvWaitFrame, SpuriousFrame, Zenon
<1>3. SameRings /\ SameClosed
  BY <1>2, RingsOf DEF Sets, SameClosed
<1>4. CASE Spurious(t)
  <2>1. pc[t] = "wait" /\ pc' = pc /\ req' = req /\ res' = res
    BY <1>4, SpuriousShape DEF Spurious
  <2> QED
    BY <1>3, <2>1 DEF TypeOK, Alone, Stays
<1>5. CASE ~Spurious(t)
  <2>1. /\ pc[t] \in {"lock", "wait", "body"}
        /\ \E l \in {"wait", "body"} : Moves(t, l)
        /\ req' = req /\ res' = res
    BY <1>5, LockShape, SendWaitShape, RecvWaitShape DEF Lock, SendWait, RecvWait, Body
  <2>2. Alone(t) /\ pc'[t] \in {"wait", "body"}
    BY <2>1, AloneOf
  <2> QED
    BY <1>3, <2>1, <2>2 DEF Stays
<1> QED
  BY <1>4, <1>5

LEMMA ReturnsOf ==
  ASSUME TypeOK, NEW t \in Threads, Unlock(t)
  PROVE  Alone(t) /\ Returns(t)
<1>1. PICK c : c = req[t].ch
  OBVIOUS
<1>2. Sets(c, Nothing, chan[c].notFull, chan[c].notEmpty, chan[c].closed)
  BY <1>1, UnlockFrame
<1>3. SameRings /\ SameClosed
  BY <1>2, RingsOf DEF Sets, SameClosed
<1>4. /\ pc[t] = "unlock" /\ Moves(t, "idle")
      /\ req' = [req EXCEPT ![t] = Nothing] /\ res' = res
  BY UnlockShape DEF Unlock
<1>5. Alone(t) /\ pc'[t] = "idle"
  BY <1>4, AloneOf
<1> QED
  BY <1>3, <1>4, <1>5 DEF Returns

LEMMA GivesUpOf ==
  ASSUME TypeOK, NEW t \in Threads, SendDrop(t) \/ RecvEnd(t)
  PROVE  Alone(t) /\ GivesUp(t)
<1>1. chan' = chan /\ Moves(t, "unlock") /\ req' = req /\ res' = res
  BY QuietShape
<1>2. /\ pc[t] = "body" /\ chan[req[t].ch].closed /\ req[t].op \in {"send", "recv"}
      /\ req[t].op = "recv" => chan[req[t].ch].count = 0
  BY DEF SendDrop, RecvEnd, Body
<1>3. Alone(t) /\ pc'[t] = "unlock"
  BY <1>1, AloneOf
<1>4. SameRings /\ SameClosed
  BY <1>1 DEF SameRings, SameClosed
<1> QED
  BY <1>1, <1>2, <1>3, <1>4 DEF GivesUp

LEMMA ClosesOf ==
  ASSUME TypeOK, NEW t \in Threads, CloseBody(t)
  PROVE  Alone(t) /\ Closes(t)
<1>1. PICK c : c = req[t].ch
  OBVIOUS
<1>2. Sets(c, chan[c].mu, {}, {}, TRUE)
  BY <1>1, CloseFrame
<1>3. pc[t] = "body" /\ req[t].op = "close"
  BY DEF CloseBody, Body
<1>4. Moves(t, "unlock") /\ req' = req /\ res' = res
  BY CloseShape
<1>5. Alone(t) /\ pc'[t] = "unlock"
  BY <1>4, AloneOf
<1>6. SameRings
  BY <1>2, RingsOf
<1>7. \A d \in Chans : chan'[d].closed = (chan[d].closed \/ d = c)
  <2> TAKE d \in Chans
  <2>1. chan[d].closed \in BOOLEAN
    BY DEF TypeOK, ChanState
  <2> QED
    BY <1>2, <2>1 DEF Sets
<1> QED
  BY <1>1, <1>3, <1>4, <1>5, <1>6, <1>7 DEF Closes

LEMMA PutsOf ==
  ASSUME TypeOK, RingInv, NEW t \in Threads, SendPut(t)
  PROVE  Alone(t) /\ PutsOne(t)
<1>1. PICK c : c = req[t].ch
  OBVIOUS
<1>2. Puts(c, req[t].val)
  BY <1>1, PutFrame
<1>3. pc[t] = "body" /\ req[t].op = "send" /\ ~chan[c].closed
  BY <1>1 DEF SendPut, Body
<1>4. Moves(t, "unlock") /\ req' = req /\ res' = res
  BY SendPutShape DEF SendPut
<1>5. Alone(t) /\ pc'[t] = "unlock"
  BY <1>4, AloneOf
<1>6. c \in Chans /\ DOMAIN chan' = Chans /\ \A d \in Chans : d # c => chan'[d] = chan[d]
  BY <1>2 DEF Puts
<1>7. Abstract!Accept(t)
  BY PutRefines
<1>8. Q' = [Q EXCEPT ![c] = Append(Q[c], req[t].val)]
  BY <1>1, <1>7 DEF Abstract!Accept, Q
<1>9. Contents(chan'[c]) = Append(Contents(chan[c]), req[t].val)
  BY <1>6, <1>8 DEF Q
<1>10. OthersSame(c) /\ SameClosed
  BY <1>2, <1>6 DEF Puts, OthersSame, SameClosed
<1>11. chan'[c].count = chan[c].count + 1
  BY <1>2 DEF Puts
<1> QED
  BY <1>1, <1>3, <1>4, <1>5, <1>9, <1>10, <1>11 DEF PutsOne

LEMMA TakesOf ==
  ASSUME TypeOK, RingInv, NEW t \in Threads, RecvTake(t)
  PROVE  Alone(t) /\ TakesOne(t)
<1>1. PICK c : c = req[t].ch
  OBVIOUS
<1>2. Takes(c)
  BY <1>1, TakeFrame
<1>3. pc[t] = "body" /\ req[t].op = "recv" /\ chan[c].count # 0
  BY <1>1 DEF RecvTake, Body
<1>4. Moves(t, "unlock") /\ req' = req
  BY RecvTakeShape
<1>5. c \in Chans /\ DOMAIN chan' = Chans /\ \A d \in Chans : d # c => chan'[d] = chan[d]
  BY <1>2 DEF Takes
<1>6. Abstract!Deliver(t)
  BY TakeRefines
<1>7. /\ Q' = [Q EXCEPT ![c] = Tail(Q[c])]
      /\ res' = [res EXCEPT ![t] = Head(Q[c])]
  BY <1>1, <1>6 DEF Abstract!Deliver, Q
<1>8. Contents(chan'[c]) = Tail(Contents(chan[c])) /\ Q[c] = Contents(chan[c])
  BY <1>5, <1>7 DEF Q
<1>9. res'[t] = Head(Contents(chan[c]))
  BY <1>7, <1>8 DEF TypeOK
<1>10. Alone(t) /\ pc'[t] = "unlock"
  BY <1>4, <1>7, AloneOf
<1>11. OthersSame(c) /\ SameClosed
  BY <1>2, <1>5 DEF Takes, OthersSame, SameClosed
<1>12. chan'[c].count = chan[c].count - 1 /\ chan[c].count \in Nat
  BY <1>2, <1>5, ChanFields DEF Takes
<1> QED
  BY <1>1, <1>3, <1>4, <1>8, <1>9, <1>10, <1>11, <1>12 DEF TakesOne

LEMMA RuntimeKinds ==
  ASSUME TypeOK, RingInv, NEW t \in Threads, Step(t) \/ Spurious(t)
  PROVE  Kinds(t)
BY StaysOf, ReturnsOf, GivesUpOf, ClosesOf, PutsOf, TakesOf DEF Step, Kinds

LEMMA CallIs ==
  ASSUME TypeOK, NEW t \in Threads, NEW r, Call(t, r)
  PROVE  /\ Alone(t) /\ SameRings /\ SameClosed
         /\ pc[t] = "idle" /\ pc'[t] = "lock" /\ req'[t] = r /\ res'[t] = Nothing
<1>1. Moves(t, "lock")
  BY MoveOf DEF Call
<1>2. Alone(t) /\ pc'[t] = "lock"
  BY <1>1, AloneOf DEF Call
<1> QED
  BY <1>2 DEF Call, TypeOK, SameRings, SameClosed

LEMMA ContentsOf ==
  ASSUME TypeOK, RingInv, NEW c \in Chans
  PROVE  /\ Contents(chan[c]) \in Seq(Values) /\ chan[c].count \in Nat
         /\ Len(Contents(chan[c])) = chan[c].count
<1>1. chan[c].count \in Nat
  BY ChanFields
<1> QED
  BY <1>1, ContentsSeq DEF RingInv

(* What stays true of a thread that does not move. *)
LEMMA MainRests ==
  ASSUME MainInv, UNCHANGED <<at, sent, asked, printed>>,
         pc'[Main] = pc[Main], req'[Main] = req[Main], res'[Main] = res[Main],
         chan[jobs].closed => chan'[jobs].closed
  PROVE  MainInv'
BY DEF MainInv

LEMMA WorkerRests ==
  ASSUME NEW w, WorkerInv(w), live'[w] = live[w],
         pc'[w] = pc[w], req'[w] = req[w], res'[w] = res[w], Drained => Drained'
  PROVE  WorkerInv(w)'
BY DEF WorkerInv

LEMMA JobsStay ==
  ASSUME SameRings, JobValues PROVE JobValues'
BY PoolConstants DEF SameRings, JobValues

LEMMA StillDrained ==
  ASSUME SameRings, SameClosed PROVE Drained => Drained'
BY PoolConstants DEF SameRings, SameClosed, Drained

LEMMA StillClosing ==
  ASSUME SameClosed, Closing, at' = at PROVE Closing'
BY PoolConstants DEF SameClosed, Closing

LEMMA SpawnRoles ==
  ASSUME TypeOK, Roles, NEW w \in Workers, Spawn(w) PROVE Roles'
<1>1. /\ chan' = chan /\ pc' = pc /\ req' = req /\ res' = res
      /\ UNCHANGED <<sent, asked, printed>>
      /\ at = "spawn" /\ at' \in {"spawn", "send"}
      /\ live[w] = "unborn"
      /\ live' \in [Workers -> {"unborn", "failed", "loop", "asked", "reply", "gone"}]
      /\ live'[w] \in {"loop", "failed"}
      /\ \A u \in Workers : u # w => live'[u] = live[u]
  BY DEF Spawn, Become, Roles, vars
<1>2. MainInv'
  BY <1>1 DEF Roles, MainInv
<1>3. \A u \in Workers : WorkerInv(u)'
  BY <1>1 DEF Roles, WorkerInv, Drained
<1>4. Closing' /\ JobValues'
  BY <1>1 DEF Roles, Closing, JobValues
<1> QED
  BY <1>1, <1>2, <1>3, <1>4 DEF Roles

(* main calls the runtime. *)
LEMMA MainCallsRoles ==
  ASSUME TypeOK, Roles, NEW r, Call(Main, r), live' = live,
         MainInv', at' = at \/ at' = "collect"
  PROVE  Roles'
<1>1. /\ Alone(Main) /\ SameRings /\ SameClosed
  BY CallIs, PoolConstants
<1>2. \A u \in Workers : WorkerInv(u)'
  BY <1>1, PoolConstants, WorkerRests, StillDrained DEF Roles, Alone
<1>3. Closing'
  BY <1>1, PoolConstants DEF Roles, Closing, SameClosed
<1>4. JobValues'
  BY <1>1, JobsStay DEF Roles
<1> QED
  BY <1>2, <1>3, <1>4 DEF Roles

LEMMA SendJobRoles ==
  ASSUME TypeOK, Roles, SendJob PROVE Roles'
<1>1. /\ at = "send" /\ sent < NJobs /\ sent' = sent + 1
      /\ Call(Main, [op |-> "send", ch |-> jobs, val |-> sent + 1])
      /\ UNCHANGED <<at, live, asked, printed, spurious>>
  BY DEF SendJob, Send
<1>2. /\ pc'[Main] = "lock"
      /\ req'[Main] = [op |-> "send", ch |-> jobs, val |-> sent + 1]
  BY <1>1, CallIs, PoolConstants
<1>3. MainInv'
  BY <1>1, <1>2, PoolConstants DEF Roles, MainInv
<1> QED
  BY <1>1, <1>3, MainCallsRoles

LEMMA CloseJobsRoles ==
  ASSUME TypeOK, Roles, CloseJobs PROVE Roles'
<1>1. /\ at = "send" /\ sent = NJobs /\ at' = "collect"
      /\ Call(Main, [op |-> "close", ch |-> jobs, val |-> Nothing])
      /\ UNCHANGED <<sent, live, asked, printed, spurious>>
  BY DEF CloseJobs, Close
<1>2. /\ pc'[Main] = "lock"
      /\ req'[Main] = [op |-> "close", ch |-> jobs, val |-> Nothing]
  BY <1>1, CallIs, PoolConstants
<1>3. MainInv'
  BY <1>1, <1>2, PoolConstants DEF Roles, MainInv
<1> QED
  BY <1>1, <1>3, MainCallsRoles

(* What main does in a step of Collect. *)
Prints == printed' = IF asked = 0 THEN printed ELSE Append(printed, res[Main])

LEMMA PrintedIs ==
  ASSUME TypeOK, MainInv, Collect
  PROVE  /\ at = "collect" /\ pc[Main] = "idle" /\ sent = NJobs
         /\ UNCHANGED <<sent, live, spurious>>
         /\ asked \in 0 .. NJobs
         /\ asked > 0 => res[Main] \in Values
         /\ printed \in Seq(Values) /\ printed' \in Seq(Values)
         /\ Len(printed) = IF asked = 0 THEN 0 ELSE asked - 1
         /\ Len(printed') = asked
<1>1. /\ at = "collect" /\ pc[Main] = "idle" /\ sent = NJobs
      /\ UNCHANGED <<sent, live, spurious>> /\ Prints
      /\ asked \in 0 .. NJobs
      /\ printed \in Seq(Values)
      /\ Len(printed) = IF asked = 0 THEN 0 ELSE asked - 1
      /\ asked > 0 => res[Main] # Nothing
  BY DEF Collect, Prints, MainInv
<1>2. asked > 0 => res[Main] \in Values
  BY <1>1, PoolConstants DEF TypeOK
<1>3. asked = 0 \/ asked > 0
  BY <1>1, PoolConstants
<1>4. CASE asked = 0
  BY <1>1, <1>4 DEF Prints
<1>5. CASE asked > 0
  <2>1. printed' = Append(printed, res[Main])
    BY <1>1, <1>5 DEF Prints
  <2> QED
    BY <1>1, <1>2, <1>5, <2>1, PoolConstants
<1> QED
  BY <1>1, <1>2, <1>3, <1>4, <1>5

LEMMA CollectRoles ==
  ASSUME TypeOK, Roles, Collect PROVE Roles'
<1>0. MainInv
  BY DEF Roles
<1>1. CASE asked < NJobs
  <2>1. /\ Call(Main, [op |-> "recv", ch |-> results, val |-> Nothing])
        /\ asked' = asked + 1 /\ at' = at
    BY <1>1 DEF Collect, Recv
  <2>2. /\ pc'[Main] = "lock" /\ res'[Main] = Nothing
        /\ req'[Main] = [op |-> "recv", ch |-> results, val |-> Nothing]
        /\ chan' = chan
    BY <2>1, CallIs, PoolConstants DEF Call
  <2>3. MainInv'
    BY <1>0, <1>1, <2>1, <2>2, PrintedIs, PoolConstants DEF MainInv
  <2> QED
    BY <1>0, <2>1, <2>3, MainCallsRoles, PrintedIs
<1>2. CASE ~(asked < NJobs)
  <2>1. at' = "exited" /\ UNCHANGED <<vars, asked>>
    BY <1>2 DEF Collect
  <2>2. chan' = chan /\ pc' = pc /\ req' = req /\ res' = res
    BY <2>1 DEF vars
  <2>3. asked = NJobs
    BY <1>0, <1>2, PrintedIs, PoolConstants
  <2>4. MainInv'
    BY <1>0, <2>1, <2>2, <2>3, PrintedIs, PoolConstants DEF MainInv
  <2> QED
    BY <1>0, <2>1, <2>2, <2>4, PrintedIs DEF Roles, WorkerInv, Closing, JobValues, Drained
<1> QED
  BY <1>1, <1>2

(* A worker calls the runtime, or goes on after a call: nothing moves in   *)
(* the channels.                                                           *)
LEMMA WorkerMovesRoles ==
  ASSUME TypeOK, Roles, NEW w \in Workers, Alone(w), SameRings, SameClosed,
         UNCHANGED <<at, sent, asked, printed>>,
         NEW l \in {"loop", "asked", "reply", "gone"}, live' = [live EXCEPT ![w] = l],
         WorkerInv(w)'
  PROVE  Roles'
<1>1. live' \in [Workers -> {"unborn", "failed", "loop", "asked", "reply", "gone"}]
  BY DEF Roles
<1>2. MainInv'
  BY MainRests, PoolConstants DEF Roles, Alone, SameClosed
<1>3. \A u \in Workers : WorkerInv(u)'
  <2>1. ASSUME NEW u \in Workers, u # w PROVE WorkerInv(u)'
    BY <2>1, WorkerRests, StillDrained, PoolConstants DEF Roles, Alone
  <2> QED
    BY <2>1
<1> QED
  BY <1>1, <1>2, <1>3, StillClosing, JobsStay DEF Roles

LEMMA NextJobRoles ==
  ASSUME TypeOK, Roles, NEW w \in Workers, NextJob(w) PROVE Roles'
<1>1. /\ Call(w, [op |-> "recv", ch |-> jobs, val |-> Nothing])
      /\ live' = [live EXCEPT ![w] = "asked"]
      /\ UNCHANGED <<at, sent, asked, printed>>
  BY DEF NextJob, Recv, Become
<1>2. /\ Alone(w) /\ SameRings /\ SameClosed
      /\ pc'[w] = "lock" /\ res'[w] = Nothing
      /\ req'[w] = [op |-> "recv", ch |-> jobs, val |-> Nothing]
  BY <1>1, CallIs, PoolConstants
<1>3. live'[w] = "asked"
  BY <1>1 DEF Roles
<1>4. WorkerInv(w)'
  BY <1>2, <1>3 DEF WorkerInv
<1> QED
  BY <1>1, <1>2, <1>4, WorkerMovesRoles

LEMMA ReplyRoles ==
  ASSUME TypeOK, Roles, NEW w \in Workers, Reply(w) PROVE Roles'
<1>1. /\ Call(w, [op |-> "send", ch |-> results, val |-> 2 * res[w]])
      /\ live' = [live EXCEPT ![w] = "reply"]
      /\ UNCHANGED <<at, sent, asked, printed>>
  BY DEF Reply, Send, Become
<1>2. /\ Alone(w) /\ SameRings /\ SameClosed
      /\ pc'[w] = "lock"
      /\ req'[w] = [op |-> "send", ch |-> results, val |-> 2 * res[w]]
  BY <1>1, CallIs, PoolConstants
<1>3. live'[w] = "reply"
  BY <1>1 DEF Roles
<1>4. WorkerInv(w)'
  BY <1>2, <1>3 DEF WorkerInv
<1> QED
  BY <1>1, <1>2, <1>4, WorkerMovesRoles

LEMMA ReturnedRoles ==
  ASSUME TypeOK, Roles, NEW w \in Workers, Again(w) \/ LoopEnds(w) PROVE Roles'
<1>1. /\ UNCHANGED <<vars, at, sent, asked, printed>>
      /\ pc[w] = "idle"
      /\ \/ live' = [live EXCEPT ![w] = "loop"]
         \/ /\ live' = [live EXCEPT ![w] = "gone"]
            /\ live[w] = "asked" /\ res[w] = Nothing
  BY DEF Again, LoopEnds, Become
<1>2. Alone(w) /\ SameRings /\ SameClosed
  BY <1>1 DEF vars, TypeOK, Alone, SameRings, SameClosed
<1>3. WorkerInv(w)'
  BY <1>1 DEF Roles, WorkerInv, Drained, vars
<1> QED
  BY <1>1, <1>2, <1>3, WorkerMovesRoles

-----------------------------------------------------------------------------
(* The steps inside the runtime.                                           *)
Frozen == UNCHANGED <<at, sent, live, asked, printed>>

(* The request of main is that of its place in the program. *)
LEMMA MainRequest ==
  ASSUME TypeOK, Roles, pc[Main] # "idle"
  PROVE  \/ /\ at = "send" /\ sent > 0 /\ sent \in 1 .. NJobs
            /\ req[Main] = [op |-> "send", ch |-> jobs, val |-> sent]
            /\ ~chan[jobs].closed
         \/ /\ at = "collect" /\ asked = 0
            /\ req[Main] = [op |-> "close", ch |-> jobs, val |-> Nothing]
         \/ /\ at = "collect" /\ asked > 0
            /\ req[Main] = [op |-> "recv", ch |-> results, val |-> Nothing]
            /\ res[Main] # Nothing <=> pc[Main] = "unlock"
         \/ at = "exited"
BY PoolConstants DEF Roles, MainInv, Closing

(* That of a worker, too. *)
LEMMA WorkerRequest ==
  ASSUME TypeOK, Roles, NEW w \in Workers, pc[w] # "idle"
  PROVE  \/ /\ live[w] = "asked"
            /\ req[w] = [op |-> "recv", ch |-> jobs, val |-> Nothing]
            /\ pc[w] \in {"lock", "body", "wait"} => res[w] = Nothing
         \/ /\ live[w] = "reply" /\ req[w].op = "send" /\ req[w].ch = results
            /\ req[w].val \in Values
<1>1. req[w] \in Request /\ (req[w].op = "send" => req[w].val \in Values)
  BY PoolConstants, RequestOf
<1> QED
  BY <1>1 DEF Roles, WorkerInv

(* The struct of a channel is drained for good. *)
LEMMA DrainedStays ==
  ASSUME TypeOK, RingInv, NEW t \in Threads, Kinds(t), Drained PROVE Drained'
<1>1. chan[jobs].closed /\ chan[jobs].count = 0 /\ jobs \in Chans
  BY PoolConstants DEF Drained
<1>2. CASE SameRings
  BY <1>1, <1>2 DEF Kinds, Stays, Returns, GivesUp, Closes, PutsOne, TakesOne,
     SameRings, SameClosed, Drained
<1>3. CASE PutsOne(t)
  <2>1. req[t].ch # jobs
    BY <1>1, <1>3 DEF PutsOne
  <2> QED
    BY <1>1, <1>3, <2>1 DEF PutsOne, OthersSame, SameClosed, Drained
<1>4. CASE TakesOne(t)
  <2>1. req[t].ch # jobs
    BY <1>1, <1>4 DEF TakesOne
  <2> QED
    BY <1>1, <1>4, <2>1 DEF TakesOne, OthersSame, SameClosed, Drained
<1> QED
  BY <1>2, <1>3, <1>4 DEF Kinds, Stays, Returns, GivesUp, Closes

LEMMA ClosedOnward ==
  ASSUME NEW t \in Threads, Kinds(t) PROVE chan[jobs].closed => chan'[jobs].closed
BY PoolConstants
DEF Kinds, Stays, Returns, GivesUp, Closes, PutsOne, TakesOne, SameClosed

LEMMA OthersRoles ==
  ASSUME TypeOK, RingInv, Roles, Frozen, NEW t \in Threads, Kinds(t)
  PROVE  /\ \A u \in Workers : u # t => WorkerInv(u)'
         /\ t # Main => MainInv'
<1>1. Alone(t)
  BY DEF Kinds
<1>2. \A u \in Workers : u # t => WorkerInv(u)'
  BY <1>1, PoolConstants, WorkerRests, DrainedStays DEF Roles, Alone, Frozen
<1>3. t # Main => MainInv'
  BY <1>1, PoolConstants, MainRests, ClosedOnward DEF Roles, Alone, Frozen
<1> QED
  BY <1>2, <1>3

LEMMA RuntimeMainInv ==
  ASSUME TypeOK, RingInv, Roles, Frozen, Kinds(Main), at # "exited" PROVE MainInv'
<1>1. Alone(Main) /\ MainInv /\ Closing
  BY DEF Kinds, Roles
<1>2. CASE Stays(Main)
  BY <1>1, <1>2, PoolConstants DEF Stays, SameClosed, MainInv, Frozen
<1>3. CASE Returns(Main)
  BY <1>1, <1>3, PoolConstants DEF Returns, SameClosed, MainInv, Frozen
<1>4. CASE GivesUp(Main)
  BY <1>1, <1>4, PoolConstants, MainRequest DEF GivesUp, Closing
<1>5. CASE Closes(Main)
  <2>1. /\ at = "collect" /\ asked = 0 /\ req[Main].ch = jobs
        /\ req' = req /\ res' = res /\ pc'[Main] = "unlock"
    <3>1. pc[Main] # "idle" /\ req[Main].op = "close"
      BY <1>5 DEF Closes
    <3> QED
      BY <1>5, <3>1, MainRequest DEF Closes
  <2>2. chan'[jobs].closed
    BY <1>5, <2>1, PoolConstants DEF Closes
  <2> QED
    BY <1>1, <1>5, <2>1, <2>2 DEF MainInv, Frozen, Closes
<1>6. CASE PutsOne(Main)
  <2>1. at = "send" /\ sent > 0 /\ req' = req /\ res' = res /\ pc'[Main] = "unlock"
    BY <1>6, MainRequest DEF PutsOne
  <2> QED
    BY <1>1, <1>6, <2>1 DEF MainInv, Frozen, PutsOne
<1>7. CASE TakesOne(Main)
  <2>1. /\ at = "collect" /\ asked > 0 /\ req[Main].ch = results
        /\ req' = req /\ pc'[Main] = "unlock"
    BY <1>7, MainRequest DEF TakesOne
  <2>2. res'[Main] \in Values
    <3>1. Contents(chan[results]) \in Seq(Values) /\ Len(Contents(chan[results])) >= 1
      BY <1>7, <2>1, ContentsOf, PoolConstants DEF TakesOne
    <3> QED
      BY <1>7, <2>1, <3>1 DEF TakesOne
  <2>3. chan'[jobs].closed = chan[jobs].closed
    BY <1>7, PoolConstants DEF TakesOne, SameClosed
  <2> QED
    BY <1>1, <1>7, <2>1, <2>2, <2>3, PoolConstants DEF MainInv, Frozen, TakesOne
<1> QED
  BY <1>2, <1>3, <1>4, <1>5, <1>6, <1>7 DEF Kinds

LEMMA RuntimeWorkerInv ==
  ASSUME TypeOK, RingInv, Roles, Frozen, NEW w \in Workers, Kinds(w) PROVE WorkerInv(w)'
<1>1. Alone(w) /\ WorkerInv(w) /\ Closing /\ live'[w] = live[w] /\ (Drained => Drained')
  BY DrainedStays, PoolConstants DEF Kinds, Roles, Frozen
<1>2. CASE Stays(w)
  BY <1>1, <1>2 DEF Stays, WorkerInv
<1>3. CASE Returns(w)
  BY <1>1, <1>3 DEF Returns, WorkerInv
<1>4. CASE GivesUp(w)
  <2>1. /\ live[w] = "asked" /\ req[w].ch = jobs /\ Drained
        /\ req' = req /\ res' = res /\ pc'[w] = "unlock" /\ pc[w] = "body"
    BY <1>1, <1>4, WorkerRequest DEF GivesUp, Closing, Drained
  <2> QED
    BY <1>1, <2>1 DEF WorkerInv
<1>5. CASE Closes(w)
  BY <1>5, WorkerRequest DEF Closes
<1>6. CASE PutsOne(w)
  <2>1. live[w] = "reply" /\ req' = req /\ pc'[w] = "unlock" /\ pc[w] = "body"
    BY <1>6, WorkerRequest DEF PutsOne
  <2> QED
    BY <1>1, <2>1 DEF WorkerInv
<1>7. CASE TakesOne(w)
  <2>1. /\ live[w] = "asked" /\ req[w].ch = jobs
        /\ req' = req /\ pc'[w] = "unlock" /\ pc[w] = "body"
        /\ res'[w] = Head(Contents(chan[jobs])) /\ chan[jobs].count >= 1
    BY <1>7, WorkerRequest DEF TakesOne
  <2>2. res'[w] \in 1 .. NJobs
    <3>1. /\ Contents(chan[jobs]) \in Seq(Values)
          /\ Len(Contents(chan[jobs])) = chan[jobs].count
      BY ContentsOf, PoolConstants
    <3>2. Head(Contents(chan[jobs])) = Contents(chan[jobs])[1]
      BY <2>1, <3>1
    <3>3. chan[jobs].count \in Nat
      BY ContentsOf, PoolConstants
    <3> QED
      BY <2>1, <3>2, <3>3 DEF Roles, JobValues
  <2> QED
    BY <1>1, <2>1, <2>2, PoolConstants DEF WorkerInv
<1> QED
  BY <1>2, <1>3, <1>4, <1>5, <1>6, <1>7 DEF Kinds

LEMMA RuntimeClosing ==
  ASSUME TypeOK, RingInv, Roles, Frozen, NEW t \in Threads, Kinds(t), at # "exited"
  PROVE  Closing'
<1>1. Closing /\ at' = at
  BY DEF Roles, Frozen
<1>2. CASE SameClosed
  BY <1>1, <1>2, StillClosing
<1>3. CASE Closes(t)
  <2>1. t = Main
    <3>1. ASSUME t \in Workers PROVE FALSE
      BY <1>3, <3>1, WorkerRequest DEF Closes
    <3> QED
      BY <3>1, PoolConstants
  <2>2. pc[Main] # "idle" /\ req[Main].op = "close"
    BY <1>3, <2>1 DEF Closes
  <2>3. at = "collect" /\ req[Main].ch = jobs
    BY <2>2, MainRequest
  <2>4. ~chan'[results].closed
    BY <1>1, <1>3, <2>1, <2>3, PoolConstants DEF Closes, Closing
  <2> QED
    BY <1>1, <2>3, <2>4 DEF Closing
<1> QED
  BY <1>2, <1>3 DEF Kinds, Stays, Returns, GivesUp, PutsOne, TakesOne

LEMMA RuntimeJobValues ==
  ASSUME TypeOK, RingInv, Roles, Frozen, NEW t \in Threads, Kinds(t), at # "exited"
  PROVE  JobValues'
<1>0. /\ JobValues /\ chan[jobs].count \in Nat /\ jobs \in Chans
      /\ Contents(chan[jobs]) \in Seq(Values)
      /\ Len(Contents(chan[jobs])) = chan[jobs].count
  BY ContentsOf, PoolConstants DEF Roles
<1>1. CASE SameRings
  BY <1>0, <1>1, JobsStay
<1>2. CASE PutsOne(t)
  <2>1. CASE req[t].ch # jobs
    BY <1>0, <1>2, <2>1 DEF PutsOne, OthersSame, JobValues
  <2>2. CASE req[t].ch = jobs
    <3>1. t = Main
      <4>1. ASSUME t \in Workers PROVE FALSE
        BY <1>2, <2>2, <4>1, WorkerRequest, PoolConstants DEF PutsOne
      <4> QED
        BY <4>1, PoolConstants
    <3>2. pc[Main] # "idle" /\ req[Main].op = "send"
      BY <1>2, <3>1 DEF PutsOne
    <3>3. req[Main].val \in 1 .. NJobs
      BY <1>2, <2>2, <3>1, <3>2, MainRequest
    <3>4. /\ chan'[jobs].count = chan[jobs].count + 1
          /\ Contents(chan'[jobs]) = Append(Contents(chan[jobs]), req[Main].val)
      BY <1>2, <2>2, <3>1 DEF PutsOne
    <3>5. \A i \in 1 .. chan[jobs].count + 1 :
            Append(Contents(chan[jobs]), req[Main].val)[i]
              = IF i = chan[jobs].count + 1 THEN req[Main].val ELSE Contents(chan[jobs])[i]
      BY <1>0
    <3> QED
      BY <1>0, <3>3, <3>4, <3>5 DEF JobValues
  <2> QED
    BY <2>1, <2>2
<1>3. CASE TakesOne(t)
  <2>1. CASE req[t].ch # jobs
    BY <1>0, <1>3, <2>1 DEF TakesOne, OthersSame, JobValues
  <2>2. CASE req[t].ch = jobs
    <3>1. /\ chan'[jobs].count = chan[jobs].count - 1 /\ chan[jobs].count >= 1
          /\ Contents(chan'[jobs]) = Tail(Contents(chan[jobs]))
      BY <1>3, <2>2 DEF TakesOne
    <3>2. \A i \in 1 .. chan[jobs].count - 1 :
            Tail(Contents(chan[jobs]))[i] = Contents(chan[jobs])[i + 1]
      BY <1>0, <3>1
    <3> QED
      BY <1>0, <3>1, <3>2 DEF JobValues
  <2> QED
    BY <2>1, <2>2
<1> QED
  BY <1>1, <1>2, <1>3 DEF Kinds, Stays, Returns, GivesUp, Closes

LEMMA RuntimeRoles ==
  ASSUME TypeOK, RingInv, Roles, Frozen, NEW t \in Threads, Kinds(t), at # "exited"
  PROVE  Roles'
<1>1. MainInv'
  BY OthersRoles, RuntimeMainInv
<1>2. \A u \in Workers : WorkerInv(u)'
  BY OthersRoles, RuntimeWorkerInv
<1>3. live' \in [Workers -> {"unborn", "failed", "loop", "asked", "reply", "gone"}]
  BY DEF Roles, Frozen
<1> QED
  BY <1>1, <1>2, <1>3, RuntimeClosing, RuntimeJobValues DEF Roles

(* The steps of the pool, with the runtime's summed up by its kinds. *)
PoolKinds ==
  \/ \E w \in Workers : Spawn(w)
  \/ SendJob
  \/ CloseJobs
  \/ Collect
  \/ \E w \in Workers : NextJob(w) \/ Reply(w) \/ Again(w) \/ LoopEnds(w)
  \/ at # "exited" /\ Frozen /\ \E t \in Threads : Kinds(t)
  \/ UNCHANGED <<vars, at, sent, live, asked, printed>>

LEMMA KindsOf ==
  ASSUME TypeOK, RingInv, [PoolNext]_<<vars, poolVars>> PROVE PoolKinds
<1>1. ASSUME at # "exited", NEW t \in Threads, Runtime(t) PROVE PoolKinds
  BY <1>1, RuntimeKinds DEF Runtime, poolVars, Frozen, PoolKinds
<1>2. ASSUME at # "exited", NEW t \in Threads, SpuriousWakeup(t) PROVE PoolKinds
  BY <1>2, RuntimeKinds DEF SpuriousWakeup, Frozen, PoolKinds
<1>3. ASSUME MainStep PROVE PoolKinds
  BY <1>1, <1>3, PoolConstants DEF MainStep, PoolKinds
<1>4. ASSUME NEW w \in Workers, WorkerStep(w) PROVE PoolKinds
  BY <1>1, <1>4, PoolConstants DEF WorkerStep, PoolKinds
<1>5. ASSUME Exited \/ UNCHANGED <<vars, poolVars>> PROVE PoolKinds
  BY <1>5 DEF Exited, poolVars, PoolKinds
<1> QED
  BY <1>2, <1>3, <1>4, <1>5 DEF PoolNext

LEMMA RolesStep ==
  ASSUME TypeOK, RingInv, Roles, PoolKinds PROVE Roles'
<1>1. ASSUME UNCHANGED <<vars, at, sent, live, asked, printed>> PROVE Roles'
  BY <1>1
  DEF vars, Roles, MainInv, WorkerInv, Closing, JobValues, Drained
<1> QED
  BY <1>1, SpawnRoles, SendJobRoles, CloseJobsRoles, CollectRoles, NextJobRoles,
     ReplyRoles, ReturnedRoles, RuntimeRoles
  DEF PoolKinds

(* Every step of the pool is one of the channels, with values they carry. *)
LEMMA PoolUsesRuntime ==
  ASSUME TypeOK, Roles, [PoolNext]_<<vars, poolVars>> PROVE [Next]_vars
<1>1. ASSUME NEW t \in Threads, NEW r \in Request, Call(t, r) PROVE Next
  BY <1>1 DEF Next
<1>2. /\ \A c \in Chans : /\ [op |-> "recv", ch |-> c, val |-> Nothing] \in Request
                          /\ [op |-> "close", ch |-> c, val |-> Nothing] \in Request
      /\ \A c \in Chans, v \in 1 .. 2 * NJobs :
           [op |-> "send", ch |-> c, val |-> v] \in Request
  BY PoolConstants DEF Request
<1>3. ASSUME NEW t \in Threads, Runtime(t) \/ SpuriousWakeup(t) PROVE Next
  BY <1>3 DEF Runtime, SpuriousWakeup, Next
<1>4. ASSUME SendJob PROVE Next
  <2>1. sent + 1 \in 1 .. 2 * NJobs
    BY <1>4, PoolConstants DEF SendJob, Roles, MainInv
  <2> QED
    BY <1>1, <1>2, <1>4, <2>1, PoolConstants DEF SendJob, Send
<1>5. ASSUME NEW w \in Workers, Reply(w) PROVE Next
  <2>1. res[w] \in 1 .. NJobs
    BY <1>5 DEF Reply, Roles, WorkerInv
  <2>2. 2 * res[w] \in 1 .. 2 * NJobs
    BY <2>1, PoolConstants
  <2> QED
    BY <1>1, <1>2, <1>5, <2>2, PoolConstants DEF Reply, Send
<1>6. ASSUME NEW w \in Workers, NextJob(w) PROVE Next
  BY <1>1, <1>2, <1>6, PoolConstants DEF NextJob, Recv
<1>7. ASSUME CloseJobs PROVE Next
  BY <1>1, <1>2, <1>7, PoolConstants DEF CloseJobs, Close
<1>8. ASSUME Collect PROVE Next \/ UNCHANGED vars
  BY <1>1, <1>2, <1>8, PoolConstants DEF Collect, Recv
<1>9. ASSUME NEW w \in Workers, Spawn(w) \/ Again(w) \/ LoopEnds(w) PROVE UNCHANGED vars
  BY <1>9 DEF Spawn, Again, LoopEnds, vars
<1>10. ASSUME Exited \/ UNCHANGED <<vars, poolVars>> PROVE UNCHANGED vars
  BY <1>10 DEF Exited, vars
<1> QED
  BY <1>3, <1>4, <1>5, <1>6, <1>7, <1>8, <1>9, <1>10, PoolConstants
  DEF PoolNext, MainStep, WorkerStep

-----------------------------------------------------------------------------
(* Where the jobs are, in terms of those correspondences.                  *)
Jobs    == Contents(chan[jobs])
Results == Contents(chan[results])
Hands   == {w \in Workers : HasJob(w) \/ HasReply(w)}
Hold    == [w \in Workers |-> InHand(w)]

Shown ==
  /\ Places = Spots(Jobs, Hands, Results, HasResult, printed)
  /\ Shows(Where, Jobs, Hands, Hold, Results, HasResult, res[Main], printed)

LEMMA WhereShown ==
  ASSUME Len(Jobs) = chan[jobs].count, Len(Results) = chan[results].count
  PROVE  Shown
<1>1. Places = Spots(Jobs, Hands, Results, HasResult, printed)
  BY DEF Places, Spots, Hands
<1>2. Over(Where, Places)
  BY DEF Over, Where
<1>3. /\ \A i \in 1 .. Len(Jobs) : <<"jobs", i>> \in Places
      /\ \A w \in Hands : <<"hand", w>> \in Places
      /\ \A i \in 1 .. Len(Results) : <<"results", i>> \in Places
      /\ HasResult => <<"main", 1>> \in Places
      /\ \A i \in 1 .. Len(printed) : <<"out", i>> \in Places
  BY DEF Places, Hands
<1>4. /\ \A i : JobAt(<<"jobs", i>>) = 2 * Jobs[i]
      /\ \A w : JobAt(<<"hand", w>>) = InHand(w)
      /\ \A i : JobAt(<<"results", i>>) = Results[i]
      /\ JobAt(<<"main", 1>>) = res[Main]
      /\ \A i : JobAt(<<"out", i>>) = printed[i]
  BY DEF JobAt, Jobs, Results
<1>5. \A p \in Places : Where[p] = JobAt(p)
  BY DEF Where
<1>6. \A w \in Hands : Hold[w] = InHand(w)
  BY DEF Hands, Hold
<1> QED
  BY <1>1, <1>2, <1>3, <1>4, <1>5, <1>6 DEF Shows, Shown

LEMMA ShownNow ==
  ASSUME TypeOK, RingInv PROVE Shown
BY WhereShown, ContentsOf, PoolConstants DEF Jobs, Results

LEMMA ShownNext == TypeOK' /\ RingInv' => Shown'
<1>1. TypeOK /\ RingInv => Shown
  BY ShownNow
<1> QED
  BY <1>1, PTL

(* Nothing moves when the buffers, the hands, main's result and the output *)
(* keep what they have.                                                    *)
HandSame(w) ==
  /\ w \in Hands' <=> w \in Hands
  /\ w \in Hands => InHand(w)' = InHand(w)

HandsSame == \A w \in Workers : HandSame(w)

MainSame ==
  /\ HasResult' = HasResult /\ (HasResult => res'[Main] = res[Main])
  /\ printed' = printed /\ Accepted' = Accepted

LEMMA HandsAre ==
  ASSUME HandsSame PROVE Hands' = Hands /\ \A w \in Hands : Hold'[w] = Hold[w]
<1>1. \A w : w \in Hands' <=> w \in Hands
  BY DEF HandsSame, HandSame, Hands
<1>2. \A w \in Hands : Hold'[w] = InHand(w)' /\ Hold[w] = InHand(w)
  BY DEF Hold, Hands
<1> QED
  BY <1>1, <1>2 DEF HandsSame, HandSame, Hands

LEMMA ResultIs == HasResult \in BOOLEAN
BY DEF HasResult

LEMMA FlowStays ==
  ASSUME Shown, Shown', Flow, Jobs' = Jobs, Results' = Results, HandsSame, MainSame
  PROVE  Flow'
<1>1. Hands' = Hands /\ \A w \in Hands : Hold'[w] = Hold[w]
  BY HandsAre
<1>2. /\ Shows(Where, Jobs, Hands, Hold, Results, HasResult, res[Main], printed)
      /\ Shows(Where', Jobs, Hands, Hold', Results, HasResult, res'[Main], printed)
      /\ HasResult => res'[Main] = res[Main]
  BY <1>1 DEF Shown, MainSame
<1>3. Where' = Where
  BY <1>1, <1>2, ResultIs, SameShown
<1>4. Places' = Places
  BY <1>1 DEF Shown, MainSame
<1>5. Doubles' = Doubles
  BY DEF Doubles, MainSame
<1> QED
  BY <1>3, <1>4, <1>5 DEF Flow

LEMMA RingsKept ==
  ASSUME SameRings PROVE Jobs' = Jobs /\ Results' = Results
BY PoolConstants DEF SameRings, Jobs, Results

(* A thread that does not move keeps what it has in its hands. *)
LEMMA HandRests ==
  ASSUME NEW w \in Workers, live'[w] = live[w],
         pc'[w] = pc[w], req'[w] = req[w], res'[w] = res[w]
  PROVE  HandSame(w)
BY DEF HandSame, Hands, HasJob, HasReply, InHand

LEMMA MainKeeps ==
  ASSUME UNCHANGED <<at, sent, asked, printed>>, pc'[Main] = pc[Main], res'[Main] = res[Main]
  PROVE  MainSame
BY DEF MainSame, HasResult, Accepted

LEMMA SpawnFlow ==
  ASSUME Roles, Shown, Shown', Flow, NEW w \in Workers, Spawn(w) PROVE Flow'
<1>1. /\ chan' = chan /\ pc' = pc /\ req' = req /\ res' = res
      /\ UNCHANGED <<sent, asked, printed>>
      /\ at = "spawn" /\ at' \in {"spawn", "send"}
      /\ live[w] = "unborn" /\ live'[w] \in {"loop", "failed"}
      /\ \A u \in Workers : u # w => live'[u] = live[u]
  BY DEF Spawn, Become, Roles, vars
<1>2. pc[Main] = "idle"
  BY <1>1 DEF Roles, MainInv
<1>3. MainSame
  BY <1>1, <1>2 DEF MainSame, HasResult, Accepted
<1>4. HandsSame
  <2>1. HandSame(w)
    BY <1>1 DEF HandSame, Hands, HasJob, HasReply
  <2>2. ASSUME NEW u \in Workers, u # w PROVE HandSame(u)
    BY <1>1, <2>2, HandRests
  <2> QED
    BY <2>1, <2>2 DEF HandsSame
<1>5. Jobs' = Jobs /\ Results' = Results
  BY <1>1 DEF Jobs, Results
<1> QED
  BY <1>3, <1>4, <1>5, FlowStays

LEMMA MainCallsFlow ==
  ASSUME TypeOK, Shown, Shown', Flow, NEW r, Call(Main, r), live' = live, MainSame
  PROVE  Flow'
<1>1. Alone(Main) /\ SameRings
  BY CallIs, PoolConstants
<1>2. HandsSame
  BY <1>1, HandRests, PoolConstants DEF HandsSame, Alone
<1> QED
  BY <1>1, <1>2, RingsKept, FlowStays

LEMMA SendJobFlow ==
  ASSUME TypeOK, Roles, Shown, Shown', Flow, SendJob PROVE Flow'
<1>1. /\ at = "send" /\ sent' = sent + 1
      /\ Call(Main, [op |-> "send", ch |-> jobs, val |-> sent + 1])
      /\ UNCHANGED <<at, live, asked, printed>>
  BY DEF SendJob, Send
<1>2. pc[Main] = "idle" /\ pc'[Main] = "lock"
  BY <1>1, CallIs, PoolConstants
<1>3. sent \in Int
  BY PoolConstants DEF Roles, MainInv
<1>4. MainSame
  BY <1>1, <1>2, <1>3 DEF MainSame, HasResult, Accepted
<1> QED
  BY <1>1, <1>4, MainCallsFlow

LEMMA CloseJobsFlow ==
  ASSUME TypeOK, Roles, Shown, Shown', Flow, CloseJobs PROVE Flow'
<1>1. /\ at = "send" /\ at' = "collect"
      /\ Call(Main, [op |-> "close", ch |-> jobs, val |-> Nothing])
      /\ UNCHANGED <<sent, live, asked, printed>>
  BY DEF CloseJobs, Close
<1>2. pc[Main] = "idle" /\ res'[Main] = Nothing
  BY <1>1, CallIs, PoolConstants
<1>3. MainSame
  BY <1>1, <1>2 DEF MainSame, HasResult, Accepted
<1> QED
  BY <1>1, <1>3, MainCallsFlow

(* The result main had goes to the output. *)
LEMMA CollectFlow ==
  ASSUME TypeOK, Roles, Shown, Shown', Flow, Collect PROVE Flow'
<1>1. /\ at = "collect" /\ pc[Main] = "idle" /\ asked \in Nat
      /\ UNCHANGED <<sent, live>> /\ Prints
      /\ \/ /\ Call(Main, [op |-> "recv", ch |-> results, val |-> Nothing])
            /\ at' = at
         \/ at' = "exited" /\ UNCHANGED vars
  BY PoolConstants DEF Roles, MainInv, Collect, Recv, Prints
<1>2. /\ Alone(Main) /\ SameRings
      /\ at' = "exited" \/ res'[Main] = Nothing
  BY <1>1, CallIs, PoolConstants DEF vars, TypeOK, Alone, SameRings
<1>3. Jobs' = Jobs /\ Results' = Results
  BY <1>2, RingsKept
<1>4. HandsSame
  BY <1>1, <1>2, HandRests, PoolConstants DEF HandsSame, Alone
<1>5. HasResult' = FALSE /\ Accepted' = Accepted /\ at' # "send"
  BY <1>1, <1>2 DEF HasResult, Accepted
<1>6. CASE asked = 0
  <2>1. MainSame
    BY <1>1, <1>5, <1>6 DEF Prints, MainSame, HasResult
  <2> QED
    BY <1>3, <1>4, <2>1, FlowStays
<1>7. CASE asked # 0
  <2>1. res[Main] \in Values /\ printed \in Seq(Values)
    BY <1>1, <1>7, PrintedIs DEF Roles
  <2>2. HasResult = TRUE /\ printed' = Append(printed, res[Main])
    BY <1>1, <1>7, <2>1, PoolConstants DEF HasResult, Prints
  <2>3. Hands' = Hands /\ \A w \in Hands : Hold'[w] = Hold[w]
    BY <1>4, HandsAre
  <2>4. Shows(Where', Jobs, Hands, Hold', Results, FALSE, res'[Main], printed')
    BY <1>3, <1>5, <2>3 DEF Shown
  <2>5. Shows(Where', Jobs, Hands, Hold, Results, FALSE, res'[Main], Append(printed, res[Main]))
    BY <2>2, <2>3, <2>4 DEF Shows
  <2>6. Shows(Where, Jobs, Hands, Hold, Results, TRUE, res[Main], printed)
    BY <2>2 DEF Shown
  <2>7. Where \in Bijection(Spots(Jobs, Hands, Results, TRUE, printed), Doubles)
    BY <2>2 DEF Flow, Shown
  <2>8. Where' \in Bijection(Spots(Jobs, Hands, Results, FALSE, Append(printed, res[Main])),
                             Doubles)
    BY <2>1, <2>5, <2>6, <2>7, PrintedShown
  <2>9. Places' = Spots(Jobs, Hands, Results, FALSE, Append(printed, res[Main]))
    BY <1>3, <1>5, <2>2, <2>3 DEF Shown
  <2>10. Doubles' = Doubles
    BY <1>5 DEF Doubles
  <2> QED
    BY <2>8, <2>9, <2>10 DEF Flow
<1> QED
  BY <1>6, <1>7

(* A worker asks for a job, replies, or goes on after a call. *)
LEMMA WorkerMovesFlow ==
  ASSUME TypeOK, Roles, Shown, Shown', Flow, NEW w \in Workers,
         NextJob(w) \/ Reply(w) \/ Again(w) \/ LoopEnds(w)
  PROVE  Flow'
<1>1. /\ UNCHANGED <<at, sent, asked, printed>>
      /\ \A u \in Workers : u # w => live'[u] = live[u]
      /\ \/ NextJob(w) /\ live'[w] = "asked"
         \/ Reply(w) /\ live'[w] = "reply"
         \/ Again(w) /\ live'[w] = "loop"
         \/ LoopEnds(w) /\ live'[w] = "gone"
  BY DEF NextJob, Reply, Again, LoopEnds, Become, Roles
<1>2. /\ Alone(w) /\ SameRings
      /\ NextJob(w) => pc'[w] = "lock"
      /\ Reply(w) => pc[w] = "idle" /\ pc'[w] = "lock" /\ req'[w].val = 2 * res[w]
      /\ Again(w) \/ LoopEnds(w) => pc' = pc /\ req' = req /\ res' = res
  <2>1. NextJob(w) => Call(w, [op |-> "recv", ch |-> jobs, val |-> Nothing])
    BY DEF NextJob, Recv
  <2>2. Reply(w) => Call(w, [op |-> "send", ch |-> results, val |-> 2 * res[w]])
    BY DEF Reply, Send
  <2>3. Again(w) \/ LoopEnds(w) => /\ Alone(w) /\ SameRings
                                   /\ pc' = pc /\ req' = req /\ res' = res
    BY DEF Again, LoopEnds, vars, TypeOK, Alone, SameRings
  <2> QED
    BY <1>1, <2>1, <2>2, <2>3, CallIs, PoolConstants
<1>3. HandSame(w)
  BY <1>1, <1>2 DEF NextJob, Reply, Again, LoopEnds, HandSame, Hands, HasJob, HasReply, InHand
<1>4. HandsSame
  <2>1. ASSUME NEW u \in Workers, u # w PROVE HandSame(u)
    BY <1>1, <1>2, <2>1, HandRests, PoolConstants DEF Alone
  <2> QED
    BY <1>3, <2>1 DEF HandsSame
<1>5. MainSame
  BY <1>1, <1>2, MainKeeps, PoolConstants DEF Alone
<1> QED
  BY <1>2, <1>4, <1>5, RingsKept, FlowStays

-----------------------------------------------------------------------------
(* The steps inside the runtime: a call that moves nothing, ...            *)
LEMMA QuietFlow ==
  ASSUME TypeOK, Roles, Shown, Shown', Flow, Frozen, at # "exited", NEW t \in Threads,
         Alone(t), Stays(t) \/ Returns(t) \/ GivesUp(t) \/ Closes(t)
  PROVE  Flow'
<1>1. SameRings /\ res' = res /\ UNCHANGED <<at, sent, live, asked, printed>>
  BY DEF Stays, Returns, GivesUp, Closes, Frozen
<1>2. t = Main => MainSame
  <2> SUFFICES ASSUME t = Main PROVE MainSame
    OBVIOUS
  <2>1. CASE Stays(Main) \/ Returns(Main)
    BY <1>1, <2>1 DEF MainSame, HasResult, Accepted, Stays, Returns
  <2>2. CASE GivesUp(Main)
    BY <2>2, MainRequest DEF GivesUp, Roles, Closing
  <2>3. CASE Closes(Main)
    <3>1. pc[Main] # "idle" /\ req[Main].op = "close"
      BY <2>3 DEF Closes
    <3>2. at = "collect"
      BY <3>1, MainRequest
    <3> QED
      BY <1>1, <3>2 DEF MainSame, HasResult, Accepted
  <2> QED
    BY <2>1, <2>2, <2>3
<1>3. t # Main => MainSame
  BY <1>1, MainKeeps, PoolConstants DEF Alone
<1>4. t \in Workers => HandSame(t)
  <2> SUFFICES ASSUME t \in Workers PROVE HandSame(t)
    OBVIOUS
  <2>1. CASE Stays(t)
    BY <1>1, <2>1 DEF Stays, HandSame, Hands, HasJob, HasReply, InHand
  <2>2. CASE Returns(t)
    BY <1>1, <2>2 DEF Returns, HandSame, Hands, HasJob, HasReply, InHand
  <2>3. CASE GivesUp(t)
    <3>1. pc[t] = "body" /\ pc'[t] = "unlock" /\ chan[req[t].ch].closed
      BY <2>3 DEF GivesUp
    <3>2. live[t] = "asked" /\ res[t] = Nothing
      BY <3>1, WorkerRequest DEF Roles, Closing
    <3> QED
      BY <1>1, <3>1, <3>2 DEF HandSame, Hands, HasJob, HasReply
  <2>4. CASE Closes(t)
    BY <2>4, WorkerRequest DEF Closes
  <2> QED
    BY <2>1, <2>2, <2>3, <2>4
<1>5. HandsSame
  <2>1. ASSUME NEW u \in Workers, u # t PROVE HandSame(u)
    BY <1>1, <2>1, HandRests, PoolConstants DEF Alone
  <2> QED
    BY <1>4, <2>1 DEF HandsSame
<1> QED
  BY <1>1, <1>2, <1>3, <1>5, RingsKept, FlowStays

(* ... main's job arrives in the buffer, ...                               *)
LEMMA OthersHands ==
  ASSUME Alone(Main), Frozen PROVE HandsSame
BY HandRests, PoolConstants DEF HandsSame, Alone, Frozen

LEMMA PutJobFlow ==
  ASSUME TypeOK, RingInv, Roles, Shown, Shown', Flow, Frozen, at # "exited",
         Alone(Main), PutsOne(Main)
  PROVE  Flow'
<1>1. /\ at = "send" /\ sent \in 1 .. NJobs /\ sent \in Int
      /\ req[Main] = [op |-> "send", ch |-> jobs, val |-> sent]
  BY MainRequest, PoolConstants DEF PutsOne
<1>2. /\ Jobs' = Append(Jobs, sent) /\ Results' = Results
      /\ res' = res /\ pc[Main] = "body" /\ pc'[Main] = "unlock"
  BY <1>1, PoolConstants DEF PutsOne, OthersSame, Jobs, Results
<1>3. Jobs \in Seq(Values) /\ sent \in Values
  BY <1>1, ContentsOf, PoolConstants DEF Jobs
<1>4. Hands' = Hands /\ \A w \in Hands : Hold'[w] = Hold[w]
  BY OthersHands, HandsAre
<1>5. UNCHANGED <<at, sent, printed>> /\ HasResult = FALSE /\ HasResult' = FALSE
  BY <1>1 DEF Frozen, HasResult
<1>6. Accepted = sent - 1 /\ Accepted' = sent
  BY <1>1, <1>2, <1>5 DEF Accepted
<1>7. Doubles' = Doubles \cup {2 * sent} /\ 2 * sent \notin Doubles
  <2>1. 1 .. sent = 1 .. sent - 1 \cup {sent} /\ \A j \in 1 .. sent - 1 : 2 * j # 2 * sent
    BY <1>1
  <2> QED
    BY <1>6, <2>1 DEF Doubles
<1>8. Shows(Where', Jobs', Hands', Hold', Results', HasResult', res'[Main], printed')
  BY DEF Shown
<1>9. Shows(Where', Append(Jobs, sent), Hands, Hold, Results, FALSE, res[Main], printed)
  BY <1>2, <1>4, <1>5, <1>8 DEF Shows
<1>10. Shows(Where, Jobs, Hands, Hold, Results, FALSE, res[Main], printed)
  BY <1>5 DEF Shown
<1>11. Where \in Bijection(Spots(Jobs, Hands, Results, FALSE, printed), Doubles)
  BY <1>5 DEF Flow, Shown
<1>12. Where' \in Bijection(Spots(Append(Jobs, sent), Hands, Results, FALSE, printed),
                            Doubles \cup {2 * sent})
  BY <1>3, <1>7, <1>9, <1>10, <1>11, SentShown
<1>13. Places' = Spots(Append(Jobs, sent), Hands, Results, FALSE, printed)
  BY <1>2, <1>4, <1>5 DEF Shown
<1> QED
  BY <1>7, <1>12, <1>13 DEF Flow

(* ... a worker takes it from there, ...                                   *)
LEMMA TakeJobFlow ==
  ASSUME TypeOK, RingInv, Roles, Shown, Shown', Flow, Frozen, at # "exited",
         NEW w \in Workers, Alone(w), TakesOne(w)
  PROVE  Flow'
<1>1. /\ live[w] = "asked" /\ res[w] = Nothing
      /\ req[w] = [op |-> "recv", ch |-> jobs, val |-> Nothing]
      /\ pc[w] = "body" /\ pc'[w] = "unlock"
  BY WorkerRequest DEF TakesOne
<1>2. /\ Jobs' = Tail(Jobs) /\ Results' = Results
      /\ res'[w] = Head(Jobs) /\ Len(Jobs) >= 1
  BY <1>1, ContentsOf, PoolConstants DEF TakesOne, OthersSame, Jobs, Results
<1>3. Jobs \in Seq(Values) /\ Jobs # <<>> /\ Head(Jobs) \in Values
  BY <1>2, ContentsOf, PoolConstants DEF Jobs
<1>4. UNCHANGED <<at, sent, live, asked, printed>>
  BY DEF Frozen
<1>5. MainSame
  BY <1>4, MainKeeps, PoolConstants DEF Alone
<1>6. w \notin Hands /\ w \in Hands' /\ Hold'[w] = 2 * Head(Jobs)
  BY <1>1, <1>2, <1>3, <1>4, PoolConstants DEF Hands, Hold, HasJob, HasReply, InHand
<1>7. ASSUME NEW u \in Workers, u # w PROVE HandSame(u)
  BY <1>4, <1>7, HandRests, PoolConstants DEF Alone
<1>8. Hands' = Hands \cup {w}
  BY <1>6, <1>7 DEF HandSame, Hands
<1>9. \A u \in Hands : Hold'[u] = Hold[u]
  BY <1>6, <1>7 DEF HandSame, Hands, Hold
<1>10. Shows(Where', Jobs', Hands', Hold', Results', HasResult', res'[Main], printed')
  BY DEF Shown
<1>11. Shows(Where', Tail(Jobs), Hands \cup {w}, Hold', Results, HasResult, res[Main], printed)
  BY <1>2, <1>5, <1>8, <1>10 DEF Shows, MainSame
<1>12. Where' \in Bijection(Spots(Tail(Jobs), Hands \cup {w}, Results, HasResult, printed),
                            Doubles)
  BY <1>3, <1>6, <1>9, <1>11, ResultIs, TakenShown DEF Shown, Flow
<1>13. Places' = Spots(Tail(Jobs), Hands \cup {w}, Results, HasResult, printed)
  BY <1>2, <1>5, <1>8 DEF Shown, MainSame
<1>14. Doubles' = Doubles
  BY <1>5 DEF MainSame, Doubles
<1> QED
  BY <1>12, <1>13, <1>14 DEF Flow

(* ... hands in the double, ...                                            *)
LEMMA PutResultFlow ==
  ASSUME TypeOK, RingInv, Roles, Shown, Shown', Flow, Frozen, at # "exited",
         NEW w \in Workers, Alone(w), PutsOne(w)
  PROVE  Flow'
<1>0. PICK v : v = req[w].val
  OBVIOUS
<1>1. /\ live[w] = "reply" /\ req[w].ch = results /\ req[w].val = v /\ v \in Values
      /\ pc[w] = "body" /\ pc'[w] = "unlock"
  BY <1>0, WorkerRequest DEF PutsOne
<1>2. Results' = Append(Results, v) /\ Jobs' = Jobs
  BY <1>1, PoolConstants DEF PutsOne, OthersSame, Jobs, Results
<1>3. Results \in Seq(Values)
  BY ContentsOf, PoolConstants DEF Results
<1>4. UNCHANGED <<at, sent, live, asked, printed>>
  BY DEF Frozen
<1>5. MainSame
  BY <1>4, MainKeeps, PoolConstants DEF Alone
<1>6. w \in Hands /\ w \notin Hands' /\ Hold[w] = v
  BY <1>1, <1>4 DEF Hands, Hold, HasJob, HasReply, InHand
<1>7. ASSUME NEW u \in Workers, u # w PROVE HandSame(u)
  BY <1>4, <1>7, HandRests, PoolConstants DEF Alone
<1>8. Hands' = Hands \ {w}
  BY <1>6, <1>7 DEF HandSame, Hands
<1>9. \A u \in Hands \ {w} : Hold'[u] = Hold[u]
  BY <1>6, <1>7 DEF HandSame, Hands, Hold
<1>10. Shows(Where', Jobs', Hands', Hold', Results', HasResult', res'[Main], printed')
  BY DEF Shown
<1>11. Shows(Where', Jobs, Hands \ {w}, Hold', Append(Results, v),
             HasResult, res[Main], printed)
  BY <1>2, <1>5, <1>8, <1>10 DEF Shows, MainSame
<1>12. /\ Shows(Where, Jobs, Hands, Hold, Results, HasResult, res[Main], printed)
       /\ Where \in Bijection(Spots(Jobs, Hands, Results, HasResult, printed), Doubles)
  BY DEF Shown, Flow
<1>13. Where' \in Bijection(
                    Spots(Jobs, Hands \ {w}, Append(Results, v), HasResult, printed),
                    Doubles)
  <2>1. PICK K, B, J, H, G, R, L, m, r, o, h, h2, S :
          /\ K = Where' /\ B = Where /\ J = Jobs /\ H = Hands /\ G = Hands \ {w}
          /\ R = Results /\ L = Append(Results, v)
          /\ m = HasResult /\ r = res[Main] /\ o = printed
          /\ h = Hold /\ h2 = Hold' /\ S = Doubles
    OBVIOUS
  <2>2. R \in Seq(Values) /\ m \in BOOLEAN /\ HandsIn(w, H, G, h, R, L) /\ h[w] \in Values
    BY <1>1, <1>3, <1>6, <2>1, ResultIs DEF HandsIn
  <2>3. \A u \in G : h2[u] = h[u]
    BY <1>9, <2>1
  <2>4. Shows(K, J, G, h2, L, m, r, o)
    BY <1>11, <2>1
  <2>5. Shows(B, J, H, h, R, m, r, o) /\ B \in Bijection(Spots(J, H, R, m, o), S)
    BY <1>12, <2>1
  <2>6. K \in Bijection(Spots(J, G, L, m, o), S)
    BY <2>2, <2>3, <2>4, <2>5, RepliedShown
  <2> QED
    BY <2>1, <2>6
<1>14. Places' = Spots(Jobs, Hands \ {w}, Append(Results, v), HasResult, printed)
  BY <1>2, <1>5, <1>8 DEF Shown, MainSame
<1>15. Doubles' = Doubles
  BY <1>5 DEF MainSame, Doubles
<1> QED
  BY <1>13, <1>14, <1>15 DEF Flow

(* ... and main receives it.                                               *)
LEMMA TakeResultFlow ==
  ASSUME TypeOK, RingInv, Roles, Shown, Shown', Flow, Frozen, at # "exited",
         Alone(Main), TakesOne(Main)
  PROVE  Flow'
<1>1. /\ at = "collect" /\ asked > 0 /\ res[Main] = Nothing
      /\ req[Main] = [op |-> "recv", ch |-> results, val |-> Nothing]
  BY MainRequest DEF TakesOne
<1>2. /\ Results' = Tail(Results) /\ Jobs' = Jobs
      /\ res'[Main] = Head(Results) /\ Len(Results) >= 1
  BY <1>1, ContentsOf, PoolConstants DEF TakesOne, OthersSame, Jobs, Results
<1>3. Results \in Seq(Values) /\ Results # <<>> /\ Head(Results) \in Values
  BY <1>2, ContentsOf, PoolConstants DEF Results
<1>4. Hands' = Hands /\ \A w \in Hands : Hold'[w] = Hold[w]
  BY OthersHands, HandsAre
<1>5. /\ UNCHANGED <<at, sent, asked, printed>>
      /\ HasResult = FALSE /\ HasResult' = TRUE /\ Accepted' = Accepted
  BY <1>1, <1>2, <1>3, PoolConstants DEF Frozen, HasResult, Accepted
<1>6. Shows(Where', Jobs', Hands', Hold', Results', HasResult', res'[Main], printed')
  BY DEF Shown
<1>7. Shows(Where', Jobs, Hands, Hold, Tail(Results), TRUE, Head(Results), printed)
  BY <1>2, <1>4, <1>5, <1>6 DEF Shows
<1>8. Where' \in Bijection(Spots(Jobs, Hands, Tail(Results), TRUE, printed), Doubles)
  BY <1>3, <1>5, <1>7, ReceivedShown DEF Shown, Flow
<1>9. Places' = Spots(Jobs, Hands, Tail(Results), TRUE, printed)
  BY <1>2, <1>4, <1>5 DEF Shown
<1>10. Doubles' = Doubles
  BY <1>5 DEF Doubles
<1> QED
  BY <1>8, <1>9, <1>10 DEF Flow

LEMMA RuntimeFlow ==
  ASSUME TypeOK, RingInv, Roles, Shown, Shown', Flow, Frozen, at # "exited",
         NEW t \in Threads, Kinds(t)
  PROVE  Flow'
BY PoolConstants, QuietFlow, PutJobFlow, TakeJobFlow, PutResultFlow, TakeResultFlow
DEF Kinds

LEMMA FlowStep ==
  ASSUME TypeOK, RingInv, Roles, Shown, Shown', Flow, PoolKinds PROVE Flow'
<1>1. ASSUME UNCHANGED <<vars, at, sent, live, asked, printed>> PROVE Flow'
  <2>1. Jobs' = Jobs /\ Results' = Results /\ HandsSame
    BY <1>1, HandRests DEF vars, Jobs, Results, HandsSame
  <2>2. MainSame
    BY <1>1, MainKeeps DEF vars
  <2> QED
    BY <2>1, <2>2, FlowStays
<1> QED
  BY <1>1, SpawnFlow, SendJobFlow, CloseJobsFlow, CollectFlow, WorkerMovesFlow, RuntimeFlow
  DEF PoolKinds

-----------------------------------------------------------------------------
(* The invariant holds throughout.                                         *)
ChannelInv == TypeOK /\ RingInv /\ WaitersInv /\ NoLostWakeup
PoolInv    == ChannelInv /\ Roles /\ Flow

LEMMA PoolInvInit == PoolInit => PoolInv
<1> SUFFICES ASSUME PoolInit PROVE PoolInv
  OBVIOUS
<1>1. /\ Init /\ at = "spawn" /\ sent = 0 /\ asked = 0 /\ printed = <<>>
      /\ live = [w \in Workers |-> "unborn"]
  BY DEF PoolInit
<1>2. ChannelInv
  <2>1. NoLostWakeup
    BY <1>1 DEF Init, NoLostWakeup, Make
  <2> QED
    BY <1>1, <2>1, TypeInit, RingInit, WaitersInit DEF ChannelInv
<1>3. /\ pc = [t \in Threads |-> "idle"]
      /\ \A c \in Chans : chan[c].count = 0 /\ ~chan[c].closed
  BY <1>1 DEF Init, Make
<1>4. Roles
  BY <1>1, <1>3, PoolConstants DEF Roles, MainInv, WorkerInv, Closing, JobValues
<1>5. Places = {}
  BY <1>1, <1>3, PoolConstants DEF Places, HasJob, HasReply, HasResult
<1>6. Doubles = {}
  BY <1>1 DEF Doubles, Accepted
<1>7. Where \in Bijection({}, {})
  <2>1. Where \in [{} -> {}]
    BY <1>5 DEF Where
  <2> QED
    BY <2>1, Fun_IsBij
<1> QED
  BY <1>2, <1>4, <1>5, <1>6, <1>7 DEF PoolInv, Flow

LEMMA PoolInvStep == PoolInv /\ [PoolNext]_<<vars, poolVars>> => PoolInv'
<1> SUFFICES ASSUME PoolInv, [PoolNext]_<<vars, poolVars>> PROVE PoolInv'
  OBVIOUS
<1>1. TypeOK /\ RingInv /\ WaitersInv /\ NoLostWakeup /\ Roles /\ Flow
  BY DEF PoolInv, ChannelInv
<1>2. [Next]_vars
  BY <1>1, PoolUsesRuntime
<1>3. TypeOK' /\ RingInv' /\ WaitersInv' /\ NoLostWakeup'
  BY <1>1, <1>2, TypeStep, RingStep, WaitersStep, WakeStep
<1>4. Shown /\ Shown'
  BY <1>1, <1>3, ShownNow, ShownNext
<1>5. PoolKinds
  BY <1>1, KindsOf
<1>6. Roles' /\ Flow'
  BY <1>1, <1>4, <1>5, RolesStep, FlowStep
<1> QED
  BY <1>3, <1>6 DEF PoolInv, ChannelInv

LEMMA PoolInvHolds == PoolSpec => []PoolInv
BY PoolInvInit, PoolInvStep, PTL DEF PoolSpec

-----------------------------------------------------------------------------
(* Counting places.                                                        *)
LEMMA TaggedCount ==
  ASSUME NEW tag, NEW T, IsFiniteSet(T)
  PROVE  /\ IsFiniteSet({<<tag, x>> : x \in T})
         /\ Cardinality({<<tag, x>> : x \in T}) = Cardinality(T)
<1> DEFINE U == {<<tag, x>> : x \in T}
           f == [x \in T |-> <<tag, x>>]
<1>1. f \in Bijection(T, U)
  <2>1. f \in [T -> U] /\ \A a, b \in T : f[a] = f[b] => a = b
    OBVIOUS
  <2>2. \A u \in U : \E x \in T : f[x] = u
    OBVIOUS
  <2> QED
    BY <2>1, <2>2, Fun_IsBij
<1>2. ExistsBijection(T, U)
  BY <1>1 DEF ExistsBijection
<1> QED
  BY <1>2, FS_Bijection

LEMMA DisjointCount ==
  ASSUME NEW S, IsFiniteSet(S), NEW T, IsFiniteSet(T), S \cap T = {}
  PROVE  /\ IsFiniteSet(S \cup T)
         /\ Cardinality(S \cup T) = Cardinality(S) + Cardinality(T)
<1>1. Cardinality(S \cap T) = 0 /\ Cardinality(S) \in Nat /\ Cardinality(T) \in Nat
  BY FS_EmptySet, FS_CardinalityType
<1>2. /\ IsFiniteSet(S \cup T)
      /\ Cardinality(S \cup T) = Cardinality(S) + Cardinality(T) - Cardinality(S \cap T)
  BY FS_Union, Zenon
<1> QED
  BY <1>1, <1>2

LEMMA QueueCount ==
  ASSUME NEW tag, NEW n \in Nat
  PROVE  /\ IsFiniteSet({<<tag, i>> : i \in 1 .. n})
         /\ Cardinality({<<tag, i>> : i \in 1 .. n}) = n
<1>1. IsFiniteSet(1 .. n) /\ Cardinality(1 .. n) = n
  <2>1. Cardinality(1 .. n) = IF 1 > n THEN 0 ELSE n - 1 + 1
    BY FS_Interval
  <2>2. IsFiniteSet(1 .. n)
    BY FS_Interval
  <2> QED
    BY <2>1, <2>2
<1>2. PICK T : T = 1 .. n
  OBVIOUS
<1>3. /\ IsFiniteSet({<<tag, i>> : i \in T})
      /\ Cardinality({<<tag, i>> : i \in T}) = n
  BY <1>1, <1>2, TaggedCount
<1> QED
  BY <1>2, <1>3

LEMMA SpotsCount ==
  ASSUME NEW J, Len(J) \in Nat, NEW H, IsFiniteSet(H), NEW R, Len(R) \in Nat,
         NEW m \in BOOLEAN, NEW o, Len(o) \in Nat
  PROVE  /\ IsFiniteSet(Spots(J, H, R, m, o))
         /\ Cardinality(Spots(J, H, R, m, o))
              = Len(J) + Cardinality(H) + Len(R) + (IF m THEN 1 ELSE 0) + Len(o)
<1> DEFINE A == {<<"jobs", i>> : i \in 1 .. Len(J)}
           B == {<<"hand", w>> : w \in H}
           C == {<<"results", i>> : i \in 1 .. Len(R)}
           D == IF m THEN {<<"main", 1>>} ELSE {}
           E == {<<"out", i>> : i \in 1 .. Len(o)}
<1>2. IsFiniteSet(A) /\ Cardinality(A) = Len(J)
  BY QueueCount
<1>3. IsFiniteSet(B) /\ Cardinality(B) = Cardinality(H)
  BY TaggedCount
<1>4. IsFiniteSet(C) /\ Cardinality(C) = Len(R)
  BY QueueCount
<1>5. IsFiniteSet(D) /\ Cardinality(D) = IF m THEN 1 ELSE 0
  BY FS_EmptySet, FS_Singleton
<1>6. IsFiniteSet(E) /\ Cardinality(E) = Len(o)
  BY QueueCount
<1>7. /\ A \cap B = {} /\ (A \cup B) \cap C = {} /\ (A \cup B \cup C) \cap D = {}
      /\ (A \cup B \cup C \cup D) \cap E = {}
  OBVIOUS
<1>8. Spots(J, H, R, m, o) = A \cup B \cup C \cup D \cup E
  BY DEF Spots
<1> HIDE DEF A, B, C, D, E
<1>9. IsFiniteSet(A \cup B) /\ Cardinality(A \cup B) = Len(J) + Cardinality(H)
  BY <1>2, <1>3, <1>7, DisjointCount
<1>10. /\ IsFiniteSet(A \cup B \cup C)
       /\ Cardinality(A \cup B \cup C) = Len(J) + Cardinality(H) + Len(R)
  BY <1>4, <1>7, <1>9, DisjointCount
<1>11. /\ IsFiniteSet(A \cup B \cup C \cup D)
       /\ Cardinality(A \cup B \cup C \cup D)
            = Len(J) + Cardinality(H) + Len(R) + (IF m THEN 1 ELSE 0)
  BY <1>5, <1>7, <1>10, DisjointCount
<1> QED
  BY <1>6, <1>7, <1>8, <1>11, DisjointCount

LEMMA PlacesCount ==
  ASSUME PoolInv
  PROVE  /\ IsFiniteSet(Places) /\ Accepted \in Nat /\ Cardinality(Places) = Accepted
         /\ Accepted = chan[jobs].count + Cardinality(Hands) + chan[results].count
                         + (IF HasResult THEN 1 ELSE 0) + Len(printed)
         /\ Cardinality(Hands) \in Nat /\ Len(printed) \in Nat
<1>1. TypeOK /\ RingInv /\ Roles /\ Flow
  BY DEF PoolInv, ChannelInv
<1>2. /\ Len(Jobs) = chan[jobs].count /\ Len(Results) = chan[results].count
      /\ Len(Jobs) \in Nat /\ Len(Results) \in Nat /\ Len(printed) \in Nat
  BY <1>1, ContentsOf, PoolConstants DEF Jobs, Results, Roles, MainInv
<1>3. IsFiniteSet(Hands) /\ Cardinality(Hands) \in Nat
  <2>1. Hands \in SUBSET Threads
    BY PoolConstants DEF Hands
  <2> QED
    BY <2>1, ThreadsAssumption, FS_Subset, FS_CardinalityType
<1>4. Places = Spots(Jobs, Hands, Results, HasResult, printed)
  BY <1>1, ShownNow DEF Shown
<1>5. /\ IsFiniteSet(Places)
      /\ Cardinality(Places) = Len(Jobs) + Cardinality(Hands) + Len(Results)
                                 + (IF HasResult THEN 1 ELSE 0) + Len(printed)
  <2>1. PICK m \in BOOLEAN : m = HasResult
    BY ResultIs
  <2>2. Places = Spots(Jobs, Hands, Results, m, printed)
    BY <1>4, <2>1
  <2>3. PICK J, R, o : J = Jobs /\ R = Results /\ o = printed
    OBVIOUS
  <2>4. Len(J) \in Nat /\ Len(R) \in Nat /\ Len(o) \in Nat
    BY <1>2, <2>3
  <2>5. /\ IsFiniteSet(Spots(J, Hands, R, m, o))
        /\ Cardinality(Spots(J, Hands, R, m, o))
             = Len(J) + Cardinality(Hands) + Len(R) + (IF m THEN 1 ELSE 0) + Len(o)
    BY <1>3, <2>4, SpotsCount
  <2> QED
    BY <2>1, <2>2, <2>3, <2>5
<1>6. Accepted \in Nat
  <2>1. /\ sent \in Nat
        /\ at = "send" /\ pc[Main] \in {"lock", "body", "wait"} => sent > 0
    BY <1>1, PoolConstants DEF Roles, MainInv
  <2> QED
    BY <2>1 DEF Accepted
<1>7. Cardinality(Doubles) = Accepted
  <2> DEFINE f == [j \in 1 .. Accepted |-> 2 * j]
  <2>1. f \in Bijection(1 .. Accepted, Doubles)
    <3>1. f \in [1 .. Accepted -> Doubles] /\ \A a, b \in 1 .. Accepted : f[a] = f[b] => a = b
      BY <1>6 DEF Doubles
    <3>2. \A d \in Doubles : \E j \in 1 .. Accepted : f[j] = d
      BY DEF Doubles
    <3> QED
      BY <3>1, <3>2, Fun_IsBij
  <2>2. ExistsBijection(1 .. Accepted, Doubles)
    BY <2>1 DEF ExistsBijection
  <2>3. IsFiniteSet(1 .. Accepted) /\ Cardinality(1 .. Accepted) = Accepted
    BY <1>6, FS_Interval
  <2> QED
    BY <2>2, <2>3, FS_Bijection
<1>8. ExistsBijection(Places, Doubles)
  BY <1>1 DEF Flow, ExistsBijection
<1>9. Cardinality(Places) = Accepted
  BY <1>5, <1>7, <1>8, FS_Bijection
<1> QED
  BY <1>2, <1>3, <1>5, <1>6, <1>9

LEMMA PlacesShow ==
  ASSUME PoolInv PROVE {JobAt(p) : p \in Places} = Doubles
<1>1. /\ Where \in [Places -> Doubles]
      /\ \A d \in Doubles : \E p \in Places : Where[p] = d
  BY Fun_BijectionProperties DEF PoolInv, Flow
<1>2. \A p \in Places : Where[p] = JobAt(p)
  BY DEF Where
<1> QED
  BY <1>1, <1>2

(* Whatever the interleaving of main and any number of workers, and        *)
(* whatever the capacities, the accepted jobs and the places that hold one *)
(* are in one-to-one correspondence: no job is lost, done twice or         *)
(* invented by the runtime and the loops the compiler emits around it.     *)
THEOREM JobsFlow == PoolSpec => []EachJobOnce
<1>1. PoolInv => EachJobOnce
  BY PlacesCount, PlacesShow DEF EachJobOnce, Doubles
<1> QED
  BY <1>1, PoolInvHolds, PTL

(* Main prints only what a worker sent, never the uninitialised slot of a  *)
(* receive that failed, and when it returns it has printed the double of   *)
(* every job, for any number of workers, of jobs and of failed spawns.     *)
THEOREM EverythingPrinted == PoolSpec => []AllJobsPrinted
<1>1. PoolInv => AllJobsPrinted
  <2> SUFFICES ASSUME PoolInv PROVE AllJobsPrinted
    OBVIOUS
  <2>1. printed \in Seq(Values) /\ (at = "exited" => sent = NJobs /\ Len(printed) = NJobs)
    BY DEF PoolInv, Roles, MainInv
  <2>2. \A i \in DOMAIN printed : printed[i] # Nothing
    BY <2>1, PoolConstants
  <2>3. ASSUME at = "exited" PROVE ToSet(printed) = {2 * j : j \in 1 .. NJobs}
    <3> DEFINE Out == {<<"out", i>> : i \in 1 .. Len(printed)}
    <3>1. Accepted = NJobs /\ Len(printed) = NJobs /\ NJobs \in Nat
      BY <2>1, <2>3, PoolConstants DEF Accepted
    <3>2. Out \in SUBSET Places
      BY DEF Places
    <3>3. Cardinality(Out) = NJobs
      BY <3>1, QueueCount
    <3>4. Places = Out
      BY <3>1, <3>2, <3>3, PlacesCount, FS_Subset
    <3>5. \A i : JobAt(<<"out", i>>) = printed[i]
      BY DEF JobAt
    <3>6. {JobAt(p) : p \in Out} = {printed[i] : i \in 1 .. Len(printed)}
      BY <3>5
    <3>7. DOMAIN printed = 1 .. Len(printed)
      BY <2>1
    <3> QED
      BY <3>1, <3>4, <3>6, <3>7, PlacesShow DEF ToSet, Doubles
  <2> QED
    BY <2>1, <2>2, <2>3 DEF AllJobsPrinted
<1> QED
  BY <1>1, PoolInvHolds, PTL

-----------------------------------------------------------------------------
(* When everyone is stuck, nobody is awake inside the runtime, so that     *)
(* NoLostWakeup says who can be waiting for what.                          *)
LEMMA StuckWaits ==
  ASSUME ChannelInv, Roles, Stuck, NEW c \in Chans
  PROVE  /\ chan[c].notEmpty # {} => chan[c].count = 0 /\ ~chan[c].closed
         /\ chan[c].notFull # {} => chan[c].count = chan[c].cap /\ ~chan[c].closed
<1>1. ASSUME NEW op PROVE Active(c, op) = {}
  <2>1. ASSUME NEW t \in Threads, t \in Active(c, op) PROVE FALSE
    <3>1. pc[t] # "idle" /\ ~Blocked(t)
      BY <2>1 DEF Active, Blocked
    <3>2. t # Main /\ live[t] \in {"failed", "gone"}
      BY <3>1 DEF Stuck
    <3> QED
      BY <3>1, <3>2, PoolConstants DEF Roles, WorkerInv
  <2> QED
    BY <2>1 DEF Active
<1>2. Cardinality(Active(c, "recv")) = 0 /\ Cardinality(Active(c, "send")) = 0
  BY <1>1, FS_EmptySet
<1>3. chan[c].cap \in Nat /\ chan[c].count \in 0 .. chan[c].cap
  BY ChanFields DEF ChannelInv
<1> QED
  BY <1>2, <1>3 DEF ChannelInv, NoLostWakeup

(* A blocked thread is in the waiter set of its own call. *)
LEMMA BlockedIn ==
  ASSUME ChannelInv, NEW t \in Threads, Blocked(t)
  PROVE  /\ pc[t] = "wait" /\ req[t].ch \in Chans
         /\ \/ req[t].op = "send" /\ t \in chan[req[t].ch].notFull
            \/ req[t].op = "recv" /\ t \in chan[req[t].ch].notEmpty
<1>1. pc[t] = "wait" /\ (t \in chan[req[t].ch].notFull \/ t \in chan[req[t].ch].notEmpty)
  BY DEF Blocked, Waiters
<1>2. req[t].ch \in Chans
  BY <1>1, RequestOf DEF ChannelInv
<1> QED
  BY <1>1, <1>2 DEF ChannelInv, WaitersInv

LEMMA StuckWorker ==
  ASSUME ChannelInv, Roles, Stuck, NEW w \in Workers, live[w] # "failed"
  PROVE  \/ live[w] = "gone" /\ Drained
         \/ live[w] = "asked" /\ chan[jobs].count = 0 /\ ~chan[jobs].closed
         \/ live[w] = "reply" /\ HasReply(w) /\ chan[results].count = chan[results].cap
<1>1. CASE live[w] = "gone"
  BY <1>1 DEF Roles, WorkerInv
<1>2. CASE live[w] # "gone"
  <2>1. Blocked(w)
    BY <1>2, PoolConstants DEF Stuck
  <2>2. pc[w] = "wait" /\ pc[w] # "idle"
    BY <2>1 DEF Blocked
  <2>3. /\ \/ req[w].op = "send" /\ w \in chan[req[w].ch].notFull
           \/ req[w].op = "recv" /\ w \in chan[req[w].ch].notEmpty
        /\ req[w].ch \in Chans
    BY <2>1, BlockedIn, PoolConstants
  <2>4. \/ live[w] = "asked" /\ req[w].op = "recv" /\ req[w].ch = jobs
        \/ live[w] = "reply" /\ req[w].op = "send" /\ req[w].ch = results
    BY <2>2, WorkerRequest DEF ChannelInv
  <2> QED
    BY <2>2, <2>3, <2>4, StuckWaits DEF HasReply
<1> QED
  BY <1>1, <1>2

(* Main sends everything before it collects anything.  Whenever nobody can *)
(* move and main has not returned, no worker was born, or both buffers are *)
(* full, every worker holds a finished job and there are more jobs than    *)
(* all of that can hold: the pool hangs by back-pressure and in no other   *)
(* way.                                                                    *)
THEOREM HangsOnlyWhenFull == PoolSpec => []StuckOnlyWhenFull
<1>1. PoolInv => StuckOnlyWhenFull
  <2> SUFFICES ASSUME PoolInv, Stuck, NEW v \in Workers, live[v] # "failed"
               PROVE  /\ at = "send"
                      /\ chan[jobs].count = chan[jobs].cap
                      /\ chan[results].count = chan[results].cap
                      /\ \A w \in Workers : live[w] # "failed" => HasReply(w)
                      /\ sent > chan[jobs].cap + chan[results].cap
                                  + Cardinality({w \in Workers : live[w] = "reply"})
    BY DEF StuckOnlyWhenFull
  <2>1. ChannelInv /\ Roles /\ TypeOK
    BY DEF PoolInv, ChannelInv
  <2>2. /\ Blocked(Main) /\ at # "exited"
        /\ pc[Main] = "wait" /\ pc[Main] # "idle"
    BY PoolConstants DEF Stuck, Blocked
  <2>3. /\ \A c \in {jobs, results} : chan[c].cap \in Nat /\ chan[c].cap >= 1
        /\ chan[jobs].count \in Nat /\ chan[results].count \in Nat
    BY <2>1, ChanFields, PoolConstants
  <2>4. CASE at = "send"
    <3>1. req[Main].op = "send" /\ req[Main].ch = jobs /\ sent \in 1 .. NJobs
      BY <2>1, <2>2, <2>4, MainRequest
    <3>2. chan[jobs].count = chan[jobs].cap /\ ~chan[jobs].closed
      BY <2>1, <2>2, <3>1, BlockedIn, StuckWaits, PoolConstants
    <3>3. \A w \in Workers :
            live[w] # "failed" =>
              live[w] = "reply" /\ HasReply(w) /\ chan[results].count = chan[results].cap
      BY <2>1, <2>3, <3>2, StuckWorker DEF Drained
    <3>4. Hands = {w \in Workers : live[w] = "reply"}
      BY <3>3 DEF Hands, HasJob, HasReply
    <3>5. Accepted = sent - 1
      BY <2>2, <2>4 DEF Accepted
    <3>6. HasResult = FALSE /\ Len(printed) = 0
      BY <2>1, <2>4 DEF HasResult, Roles, MainInv
    <3>7. sent - 1 = chan[jobs].cap + Cardinality(Hands) + chan[results].cap
      BY <2>3, <3>2, <3>3, <3>5, <3>6, PlacesCount
    <3>8. sent > chan[jobs].cap + chan[results].cap + Cardinality(Hands)
      BY <2>3, <3>1, <3>7, PlacesCount, PoolConstants
    <3> QED
      BY <2>4, <3>2, <3>3, <3>4, <3>8
  <2>5. CASE at = "collect"
    <3>1. req[Main].op \in {"send", "recv"}
      BY <2>1, <2>2, BlockedIn, PoolConstants
    <3>2. /\ asked > 0 /\ asked \in 1 .. NJobs
          /\ req[Main].op = "recv" /\ req[Main].ch = results
          /\ res[Main] = Nothing
      <4>1. asked > 0 /\ req[Main].op = "recv" /\ req[Main].ch = results /\ res[Main] = Nothing
        BY <2>1, <2>2, <2>5, <3>1, MainRequest
      <4> QED
        BY <2>1, <4>1, PoolConstants DEF Roles, MainInv
    <3>3. chan[results].count = 0
      BY <2>1, <2>2, <3>2, BlockedIn, StuckWaits, PoolConstants
    <3>4. chan[jobs].closed /\ Len(printed) = asked - 1 /\ sent = NJobs
      BY <2>1, <2>5, <3>2, PoolConstants DEF Roles, MainInv
    <3>5. \A w \in Workers : live[w] # "failed" => live[w] = "gone" /\ Drained
      BY <2>1, <2>3, <3>3, <3>4, StuckWorker
    <3>6. chan[jobs].count = 0
      BY <3>5 DEF Drained
    <3>7. Hands = {}
      BY <3>5 DEF Hands, HasJob, HasReply
    <3>8. Accepted = NJobs /\ HasResult = FALSE /\ Cardinality(Hands) = 0
      BY <2>5, <3>2, <3>4, <3>7, FS_EmptySet DEF Accepted, HasResult
    <3>9. NJobs = asked - 1
      BY <3>2, <3>3, <3>4, <3>6, <3>8, PlacesCount, PoolConstants
    <3> QED
      BY <3>2, <3>9, PoolConstants
  <2>6. CASE at = "spawn"
    BY <2>1, <2>2, <2>6 DEF Roles, MainInv
  <2> QED
    BY <2>1, <2>2, <2>4, <2>5, <2>6 DEF Roles, MainInv
<1> QED
  BY <1>1, PoolInvHolds, PTL

(* The pool is a client of the channel runtime: each of its behaviours is  *)
(* one of VaderChan, so that what is proved there (mutual exclusion, the   *)
(* abstract channel, no lost wake-up) holds of the program.                *)
THEOREM PoolUsesChannels == PoolSpec => Spec
<1>1. PoolInit => Init
  BY DEF PoolInit
<1>2. PoolInv /\ [PoolNext]_<<vars, poolVars>> => [Next]_vars
  BY PoolUsesRuntime DEF PoolInv, ChannelInv
<1> QED
  BY <1>1, <1>2, PoolInvHolds, PTL DEF PoolSpec, Spec
===============================================================================
