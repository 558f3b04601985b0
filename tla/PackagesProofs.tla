---------------------------- MODULE PackagesProofs ----------------------------
(***************************************************************************)
(* Proofs about Packages, for any dependencies, packages and versions, any *)
(* number of publishers, and commands that are interrupted at any step:    *)
(* what the registry's index keeps, and how vader.toml, vader.lock and the *)
(* clones of the developer go together.                                    *)
(***************************************************************************)
EXTENDS Packages, SequenceTheorems, TLAPS

Packs   == DOMAIN Home
Maps    == UNION {[P -> 1..MaxVersions] : P \in SUBSET Packs}
Indexes == {Torn} \cup Maps

RegistryTypes ==
  /\ index \in Indexes
  /\ pub \in [Packs -> {Idle} \cup [pc : {"write", "close"}, read : Indexes]]
  /\ latest \in [Packs -> 0..MaxVersions]
  /\ \A p \in Packs : pub[p] # Idle => latest[p] < MaxVersions
  /\ overlap \in BOOLEAN

(* An index that lacks nothing that was published. *)
Complete(i) == \A p \in Packs : latest[p] > 0 => p \in DOMAIN i /\ i[p] = latest[p]

(* As long as no two publishers overlapped, the one that truncated the     *)
(* index is alone between its two steps and holds all that was in it.      *)
Alone ==
  ~overlap =>
    \A p \in Packs : pub[p].pc = "close" =>
      /\ index = Torn /\ Complete(pub[p].read) /\ pub[p].read # Torn
      /\ \A q \in Packs : pub[q].pc = "close" => q = p

Inv == RegistryTypes /\ Alone /\ NoLostPublish

-----------------------------------------------------------------------------
LEMMA TornIsNoMap == Torn \notin Maps
<1> SUFFICES ASSUME NEW P \in SUBSET Packs, Torn \in [P -> 1..MaxVersions] PROVE FALSE
  BY DEF Maps
<1>1. DOMAIN Torn = {"torn"} /\ Torn["torn"] = 0
  BY DEF Torn
<1>2. Torn["torn"] \in 1..MaxVersions
  BY <1>1
<1> QED
  BY <1>1, <1>2, PackagesAssumption DEF PackagesAssumption

(* A written index is a map again, with one package changed. *)
LEMMA RegisteredIs ==
  ASSUME RegistryTypes, NEW p \in Packs, latest[p] < MaxVersions, NEW r \in Indexes
  PROVE  /\ Registered(p, r) \in Maps
         /\ p \in DOMAIN Registered(p, r) /\ Registered(p, r)[p] = latest[p] + 1
         /\ r # Torn => \A q \in DOMAIN r : /\ q \in DOMAIN Registered(p, r)
                                            /\ q # p => Registered(p, r)[q] = r[q]
<1> DEFINE E == (IF r = Torn THEN {} ELSE DOMAIN r) \cup {p}
           i == Registered(p, r)
<1>1. i = [q \in E |-> IF q = p THEN latest[p] + 1 ELSE r[q]]
  BY DEF Registered
<1>2. latest[p] + 1 \in 1..MaxVersions
  BY PackagesAssumption DEF PackagesAssumption, RegistryTypes
<1>3. E \in SUBSET Packs /\ \A q \in E : q # p => r[q] \in 1..MaxVersions
  <2>1. CASE r = Torn
    BY <2>1
  <2>2. CASE r # Torn
    <3>1. PICK P \in SUBSET Packs : r \in [P -> 1..MaxVersions]
      BY <2>2 DEF Indexes, Maps
    <3> QED
      BY <2>2, <3>1
  <2> QED
    BY <2>1, <2>2
<1>4. i \in [E -> 1..MaxVersions]
  BY <1>1, <1>2, <1>3
<1>5. p \in DOMAIN i /\ i[p] = latest[p] + 1
  BY <1>1
<1>6. r # Torn => \A q \in DOMAIN r : q \in DOMAIN i /\ (q # p => i[q] = r[q])
  BY <1>1
<1> QED
  BY <1>3, <1>4, <1>5, <1>6 DEF Maps

-----------------------------------------------------------------------------
LEMMA InitInv == Init => Inv
<1> SUFFICES ASSUME Init PROVE Inv
  OBVIOUS
<1>1. index \in Maps
  <2>1. index \in [{} -> 1..MaxVersions]
    BY DEF Init
  <2> QED
    BY <2>1 DEF Maps
<1>2. RegistryTypes
  <2>1. /\ pub = [p \in Packs |-> Idle] /\ latest = [p \in Packs |-> 0]
        /\ overlap = FALSE
    BY DEF Init, Packs
  <2>2. 0 \in 0..MaxVersions
    BY PackagesAssumption DEF PackagesAssumption
  <2> QED
    BY <1>1, <2>1, <2>2 DEF RegistryTypes, Indexes
<1>3. Alone
  BY DEF Init, Alone, Packs, Idle
<1>4. NoLostPublish
  BY DEF Init, NoLostPublish
<1> QED
  BY <1>2, <1>3, <1>4 DEF Inv

(* The developer and the repositories only read the registry. *)
LEMMA SameRegistry ==
  ASSUME Inv, UNCHANGED registry
  PROVE  Inv'
<1>1. index' = index /\ pub' = pub /\ latest' = latest /\ overlap' = overlap
  BY DEF registry
<1> QED
  BY <1>1 DEF Inv, RegistryTypes, Alone, Complete, NoLostPublish

LEMMA PubReadInv ==
  ASSUME Inv, NEW p \in Packs, PubRead(p)
  PROVE  Inv'
<1>1. /\ pub' = [pub EXCEPT ![p] = [pc |-> "write", read |-> index]]
      /\ latest[p] < MaxVersions
      /\ index' = index /\ latest' = latest /\ overlap' = overlap
  BY DEF PubRead
<1>2. RegistryTypes'
  BY <1>1 DEF Inv, RegistryTypes
<1>3. \A q \in Packs : pub'[q].pc = "close" => pub'[q] = pub[q]
  BY <1>1 DEF Inv, RegistryTypes
<1>4. Alone'
  BY <1>1, <1>3 DEF Inv, Alone, Complete
<1>5. NoLostPublish'
  BY <1>1 DEF Inv, NoLostPublish
<1> QED
  BY <1>2, <1>4, <1>5 DEF Inv

LEMMA PubTruncateInv ==
  ASSUME Inv, NEW p \in Packs, PubTruncate(p)
  PROVE  Inv'
<1>1. /\ pub[p].pc = "write" /\ index' = Torn /\ latest' = latest
      /\ overlap' = (overlap \/ index # pub[p].read \/ index = Torn)
      /\ pub' = [pub EXCEPT ![p].pc = "close"]
  BY DEF PubTruncate
<1>2. pub[p] \in [pc : {"write", "close"}, read : Indexes]
  BY <1>1 DEF Inv, RegistryTypes, Idle
<1>3. /\ pub'[p] \in [pc : {"write", "close"}, read : Indexes]
      /\ pub'[p].pc = "close" /\ pub'[p].read = pub[p].read
      /\ \A q \in Packs : q # p => pub'[q] = pub[q]
  BY <1>1, <1>2 DEF Inv, RegistryTypes
<1>4. RegistryTypes'
  <2>1. pub' \in [Packs -> {Idle} \cup [pc : {"write", "close"}, read : Indexes]]
    BY <1>1, <1>3 DEF Inv, RegistryTypes
  <2>2. overlap' \in BOOLEAN
    BY <1>1
  <2> QED
    BY <1>1, <1>3, <2>1, <2>2 DEF Inv, RegistryTypes, Indexes, Idle
<1>5. Alone'
  <2> SUFFICES ASSUME ~overlap', NEW r \in Packs, pub'[r].pc = "close"
               PROVE  /\ index' = Torn /\ Complete(pub[r].read)' /\ pub'[r].read # Torn
                      /\ \A q \in Packs : pub'[q].pc = "close" => q = r
    BY DEF Alone
  <2>1. ~overlap /\ index = pub[p].read /\ index # Torn
    BY <1>1
  <2>2. \A q \in Packs : pub[q].pc # "close"
    BY <2>1 DEF Inv, Alone
  <2>3. \A q \in Packs : pub'[q].pc = "close" => q = p
    BY <1>3, <2>2
  <2>4. Complete(pub[p].read)
    BY <2>1 DEF Inv, NoLostPublish, Complete, Packs
  <2> QED
    BY <1>1, <1>3, <2>1, <2>3, <2>4 DEF Complete
<1>6. NoLostPublish'
  BY <1>1 DEF NoLostPublish, Torn
<1> QED
  BY <1>4, <1>5, <1>6 DEF Inv

LEMMA PubWriteInv ==
  ASSUME Inv, NEW p \in Packs, PubWrite(p)
  PROVE  Inv'
<1> DEFINE r == pub[p].read
<1>1. /\ pub[p].pc = "close" /\ index' = Registered(p, r)
      /\ overlap' = (overlap \/ index # Torn)
      /\ latest' = [latest EXCEPT ![p] = @ + 1]
      /\ pub' = [pub EXCEPT ![p] = Idle]
  BY DEF PubWrite
<1>2. r \in Indexes /\ latest[p] < MaxVersions
  BY <1>1 DEF Inv, RegistryTypes, Idle
<1>3. RegistryTypes'
  <2>1. index' \in Indexes
    BY <1>1, <1>2, RegisteredIs DEF Inv, Indexes
  <2>2. latest' \in [Packs -> 0..MaxVersions] /\ overlap' \in BOOLEAN
    BY <1>1, <1>2, PackagesAssumption DEF PackagesAssumption, Inv, RegistryTypes
  <2>3. pub' \in [Packs -> {Idle} \cup [pc : {"write", "close"}, read : Indexes]]
    BY <1>1 DEF Inv, RegistryTypes
  <2>4. \A q \in Packs : pub'[q] # Idle => latest'[q] < MaxVersions
    BY <1>1 DEF Inv, RegistryTypes
  <2> QED
    BY <2>1, <2>2, <2>3, <2>4 DEF RegistryTypes
<1>4. \A q \in Packs : pub'[q].pc = "close" => q # p /\ pub[q].pc = "close"
  BY <1>1 DEF Inv, RegistryTypes, Idle
<1>5. Alone'
  BY <1>1, <1>4 DEF Inv, Alone
<1>6. NoLostPublish'
  <2> SUFFICES ASSUME ~overlap', NEW q \in Packs, latest'[q] > 0
               PROVE  q \in DOMAIN index' /\ index'[q] = latest'[q]
    BY DEF NoLostPublish, Packs
  <2>1. Complete(r) /\ r # Torn
    BY <1>1 DEF Inv, Alone
  <2>2. CASE q = p
    BY <1>1, <1>2, <2>2, RegisteredIs DEF Inv, RegistryTypes
  <2>3. CASE q # p
    <3>1. latest'[q] = latest[q]
      BY <1>1, <2>3 DEF Inv, RegistryTypes
    <3>2. q \in DOMAIN r /\ r[q] = latest[q]
      BY <2>1, <3>1 DEF Complete
    <3> QED
      BY <1>1, <1>2, <2>1, <2>3, <3>1, <3>2, RegisteredIs DEF Inv
  <2> QED
    BY <2>2, <2>3
<1> QED
  BY <1>3, <1>5, <1>6 DEF Inv

LEMMA PubInterruptInv ==
  ASSUME Inv, NEW p \in Packs, PubInterrupt(p)
  PROVE  Inv'
<1>1. /\ pub' = [pub EXCEPT ![p] = Idle]
      /\ index' = index /\ latest' = latest /\ overlap' = overlap
  BY DEF PubInterrupt
<1>2. RegistryTypes'
  BY <1>1 DEF Inv, RegistryTypes
<1>3. \A q \in Packs : pub'[q].pc = "close" => pub'[q] = pub[q]
  BY <1>1 DEF Inv, RegistryTypes, Idle
<1>4. Alone'
  BY <1>1, <1>3 DEF Inv, Alone, Complete
<1>5. NoLostPublish'
  BY <1>1 DEF Inv, NoLostPublish
<1> QED
  BY <1>2, <1>4, <1>5 DEF Inv

-----------------------------------------------------------------------------
LEMMA NextInv == Inv /\ [Next]_vars => Inv'
<1> SUFFICES ASSUME Inv, [Next]_vars PROVE Inv'
  OBVIOUS
<1>1. CASE \E p \in DOMAIN Home :
             PubRead(p) \/ PubTruncate(p) \/ PubWrite(p) \/ PubInterrupt(p)
  BY <1>1, PubReadInv, PubTruncateInv, PubWriteInv, PubInterruptInv DEF Packs
<1>2. CASE AddUrl \/ AddName
  <2>1. UNCHANGED registry
    BY <1>2 DEF AddUrl, AddName, Ask
  <2> QED
    BY <2>1, SameRegistry
<1>3. CASE AddFetch \/ RemoveDep \/ WriteToml \/ LockFetch \/ WriteLock
  <2>1. UNCHANGED registry
    BY <1>3 DEF AddFetch, RemoveDep, WriteToml, LockFetch, WriteLock
  <2> QED
    BY <2>1, SameRegistry
<1>4. CASE Build \/ BuildFetch \/ BuildDone \/ Interrupt
  <2>1. UNCHANGED registry
    BY <1>4 DEF Build, BuildFetch, BuildDone, Interrupt
  <2> QED
    BY <2>1, SameRegistry
<1>5. CASE \E u \in Urls : Push(u)
  <2>1. UNCHANGED registry
    BY <1>5 DEF Push
  <2> QED
    BY <2>1, SameRegistry
<1>6. CASE UNCHANGED vars
  <2>1. UNCHANGED registry
    BY <1>6 DEF vars
  <2> QED
    BY <2>1, SameRegistry
<1> QED
  BY <1>1, <1>2, <1>3, <1>4, <1>5, <1>6 DEF Next

(* Publishers that do not overlap lose nothing of each other: the index    *)
(* has the last version of every package, unless it was left torn          *)
(* (registry_publish).                                                     *)
THEOREM NothingLost == Spec => []NoLostPublish
<1>1. Inv => NoLostPublish
  BY DEF Inv
<1> QED
  BY <1>1, InitInv, NextInv, PTL DEF Spec

-----------------------------------------------------------------------------
(***************************************************************************)
(* vader.toml, vader.lock and the clones.                                  *)
(***************************************************************************)
Keys   == {Key(d) : d \in AllDeps}
Sites  == {d.url : d \in AllDeps} \cup {"none"}
Clones == [url : Sites, at : Int]
Lines  == [name : Names, url : Sites, commit : Clones]

Commands ==
  {Idle} \cup [pc : {"add"}, dep : asked] \cup [pc : {"toml"}, deps : Seq(asked)]
         \cup [pc : {"build"}, todo : Seq(asked), out : Seq(Lines)]
         \cup [pc : {"lock"}, todo : Seq(asked), out : Seq(Lines), miss : SUBSET Names]

ProjectTypes ==
  /\ asked \subseteq AllDeps /\ manifest \in Seq(asked) /\ lock \in Seq(Lines)
  /\ stale \in BOOLEAN /\ here \in BOOLEAN
  /\ cache \in [Keys -> Clones] /\ head \in [Urls -> Nat]
  /\ dev \in Commands /\ crashes \in Nat

(* A clone has the commit of a repository that was asked for under its     *)
(* name and version, unless it is a broken one.                            *)
Origin(k) ==
  \/ cache[k] = NoClone
  \/ cache[k] = Broken /\ crashes > 0
  \/ \E o \in asked : Key(o) = k /\ cache[k].url = o.url

(* The same of an entry of vader.lock. *)
Honest(e) ==
  \/ e.commit = Broken /\ crashes > 0
  \/ \E d, o \in asked : /\ d.url = e.url /\ o.url = e.commit.url
                         /\ d.name = e.name /\ o.name = e.name /\ d.version = o.version

HonestLines(L) == \A i \in DOMAIN L : Honest(L[i])

(* The commands go through vader.toml and are before its line k + 1.       *)
Left(todo, k) ==
  /\ k \in Nat /\ Len(todo) + k = Len(manifest)
  /\ \A i \in 1..Len(todo) : todo[i] = manifest[k + i]

(* One entry for each of the first k lines, as they were cloned.           *)
Made(L, k) ==
  /\ Len(L) = k
  /\ \A i \in 1..k : /\ cache[Key(manifest[i])] # NoClone
                     /\ L[i] = Entry(manifest[i], cache[Key(manifest[i])])

(* The same, in order, but for those that could not be cloned.             *)
Places(L, k, miss, f) ==
  /\ f \in [1..Len(L) -> 1..k]
  /\ \A i, j \in 1..Len(L) : i < j => f[i] < f[j]
  /\ \A i \in 1..Len(L) : L[i].name = manifest[f[i]].name /\ L[i].url = manifest[f[i]].url
  /\ \A j \in 1..k : manifest[j].name \notin miss <=> \E i \in 1..Len(L) : f[i] = j

Placed(L, k, miss) ==
  /\ \A n \in miss : \E j \in 1..k : manifest[j].name = n
  /\ \E f \in [1..Len(L) -> 1..k] : Places(L, k, miss, f)

(* What a command has in its hands. *)
Working ==
  /\ dev.pc = "toml" => NamedOnce(dev.deps)
  /\ dev.pc = "build" => \E k \in Nat : Left(dev.todo, k) /\ Made(dev.out, k)
  /\ dev.pc = "lock" =>
       /\ HonestLines(dev.out)
       /\ \E k \in Nat : /\ Left(dev.todo, k) /\ Placed(dev.out, k, dev.miss)
                         /\ dev.miss = {} => Made(dev.out, k)

(* vader.lock, while it is not behind vader.toml. *)
Locked ==
  dev.pc \in {"idle", "add", "build"} /\ ~stale =>
    /\ Placed(lock, Len(manifest), skipped)
    /\ here /\ skipped = {} => Made(lock, Len(manifest))

LockInv ==
  /\ ProjectTypes /\ NamedOnce(manifest)
  /\ \A k \in Keys : Origin(k)
  /\ HonestLines(lock) /\ Working /\ Locked

(* What is cloned stays as it is. *)
Grown == \A k \in Keys : cache[k] # NoClone => cache'[k] = cache[k]

-----------------------------------------------------------------------------
(* Dependencies, clones and entries.                                       *)
LEMMA DepIs ==
  ASSUME NEW d \in AllDeps
  PROVE  /\ d.name \in Names /\ d.url \in Sites /\ Key(d) \in Keys
         /\ d.version \in Nat /\ (d.version = 0 => d.url \in Urls)
<1>1. d.version \in Nat
  <2>1. CASE d \in Deps
    BY <2>1, PackagesAssumption DEF PackagesAssumption
  <2>2. CASE d \notin Deps
    BY <2>2, PackagesAssumption DEF PackagesAssumption, AllDeps, Published
  <2> QED
    BY <2>1, <2>2
<1> QED
  BY <1>1 DEF Names, Sites, Keys, Urls

LEMMA TipIs ==
  ASSUME ProjectTypes, NEW d \in AllDeps
  PROVE  Tip(d) \in Clones /\ Tip(d).url = d.url
<1>1. (IF d.version = 0 THEN head[d.url] ELSE -d.version) \in Int
  BY DepIs DEF ProjectTypes
<1> QED
  BY <1>1, DepIs DEF Tip, Clones

LEMMA EntryIs ==
  ASSUME NEW d \in AllDeps, NEW c \in Clones
  PROVE  /\ Entry(d, c) \in Lines
         /\ Entry(d, c).name = d.name /\ Entry(d, c).url = d.url /\ Entry(d, c).commit = c
BY DepIs DEF Entry, Lines

LEMMA CommandIs ==
  ASSUME ProjectTypes
  PROVE  /\ dev # Idle => dev.pc # "idle"
         /\ dev.pc = "idle" => dev = Idle
         /\ dev.pc = "add" => dev \in [pc : {"add"}, dep : asked]
         /\ dev.pc = "toml" => dev \in [pc : {"toml"}, deps : Seq(asked)]
         /\ dev.pc = "build" => dev \in [pc : {"build"}, todo : Seq(asked), out : Seq(Lines)]
         /\ dev.pc = "lock" => dev \in [pc : {"lock"}, todo : Seq(asked), out : Seq(Lines),
                                        miss : SUBSET Names]
BY DEF ProjectTypes, Commands, Idle

-----------------------------------------------------------------------------
(* Sequences.                                                              *)
LEMMA SeqGrows ==
  ASSUME NEW S, NEW T, S \subseteq T, NEW s \in Seq(S)
  PROVE  s \in Seq(T)
OBVIOUS

LEMMA FirstOfIs ==
  ASSUME NEW S, NEW s \in Seq(S), NEW t \in FirstOf(s)
  PROVE  /\ t \in Seq(S)
         /\ \A i \in DOMAIN t : i \in DOMAIN s /\ t[i] = s[i]
<1>1. PICK n \in 0..Len(s) : t = SubSeq(s, 1, n)
  BY DEF FirstOf
<1> QED
  BY <1>1

LEMMA RemoveAtIs ==
  ASSUME NEW S, NEW L \in Seq(S), NEW i \in 1 .. Len(L)
  PROVE  /\ RemoveAt(L, i) \in Seq(S)
         /\ Len(RemoveAt(L, i)) = Len(L) - 1
         /\ \A j \in 1 .. (Len(L) - 1) :
              RemoveAt(L, i)[j] = IF j < i THEN L[j] ELSE L[j + 1]
<1> DEFINE A == SubSeq(L, 1, i - 1)
           B == SubSeq(L, i + 1, Len(L))
           R == A \o B
<1>1. Len(L) \in Nat /\ \A j \in 1 .. Len(L) : L[j] \in S
  OBVIOUS
<1>2. /\ A \in Seq(S) /\ Len(A) = i - 1
      /\ \A j \in 1 .. (i - 1) : A[j] = L[j]
  BY <1>1, SubSeqProperties
<1>3. /\ B \in Seq(S) /\ Len(B) = Len(L) - i
      /\ \A j \in 1 .. (Len(L) - i) : B[j] = L[i + j]
  BY <1>1, SubSeqProperties
<1>4. RemoveAt(L, i) = R
  BY DEF RemoveAt
<1> HIDE DEF A, B
<1>5. /\ R \in Seq(S) /\ Len(R) = Len(A) + Len(B)
      /\ \A j \in 1 .. (Len(A) + Len(B)) : R[j] = IF j <= Len(A) THEN A[j] ELSE B[j - Len(A)]
  BY <1>2, <1>3, ConcatProperties
<1> HIDE DEF R
<1>6. \A j \in 1 .. (Len(L) - 1) : R[j] = IF j <= i - 1 THEN A[j] ELSE B[j - (i - 1)]
  <2>1. Len(A) + Len(B) = Len(L) - 1
    BY <1>1, <1>2, <1>3
  <2> QED
    BY <1>2, <1>5, <2>1
<1>7. ASSUME NEW j \in 1 .. (Len(L) - 1)
      PROVE  R[j] = IF j < i THEN L[j] ELSE L[j + 1]
  <2>1. CASE j < i
    <3>1. R[j] = A[j] /\ A[j] = L[j]
      BY <1>1, <1>2, <1>6, <2>1
    <3> QED
      BY <2>1, <3>1
  <2>2. CASE ~(j < i)
    <3>1. j - (i - 1) \in 1 .. (Len(L) - i) /\ ~(j <= i - 1)
      BY <1>1, <2>2
    <3>2. B[j - (i - 1)] = L[i + (j - (i - 1))] /\ i + (j - (i - 1)) = j + 1
      BY <1>1, <1>3, <3>1
    <3>3. R[j] = B[j - (i - 1)]
      BY <1>6, <3>1
    <3> QED
      BY <2>2, <3>2, <3>3
  <2> QED
    BY <2>1, <2>2
<1> QED
  BY <1>1, <1>2, <1>3, <1>4, <1>5, <1>7

(* The retain of cmd_add and cmd_remove. *)
LEMMA WithoutIs ==
  ASSUME NEW S, NEW s \in Seq(S), NamedOnce(s), NEW n
  PROVE  /\ Without(s, n) \in Seq(S)
         /\ NamedOnce(Without(s, n))
         /\ \A i \in DOMAIN Without(s, n) : Without(s, n)[i].name # n
<1>1. CASE ~ \E i \in DOMAIN s : s[i].name = n
  BY <1>1 DEF Without
<1>2. CASE \E i \in DOMAIN s : s[i].name = n
  <2>1. PICK k : k = CHOOSE i \in DOMAIN s : s[i].name = n
    OBVIOUS
  <2>2. k \in 1..Len(s) /\ s[k].name = n
    BY <1>2, <2>1
  <2>3. PICK R : R = RemoveAt(s, k)
    OBVIOUS
  <2>4. /\ R \in Seq(S) /\ Len(R) = Len(s) - 1
        /\ \A i \in 1..(Len(s) - 1) : R[i] = IF i < k THEN s[i] ELSE s[i + 1]
    BY <2>2, <2>3, RemoveAtIs
  <2>5. ASSUME NEW i \in DOMAIN R
        PROVE  \E j \in DOMAIN s : R[i] = s[j] /\ j # k /\ j = IF i < k THEN i ELSE i + 1
    BY <2>2, <2>4
  <2>6. NamedOnce(R)
    BY <2>2, <2>4, <2>5 DEF NamedOnce
  <2>7. \A i \in DOMAIN R : R[i].name # n
    BY <2>2, <2>5 DEF NamedOnce
  <2>8. Without(s, n) = R
    BY <1>2, <2>1, <2>3 DEF Without
  <2> QED
    BY <2>4, <2>6, <2>7, <2>8
<1> QED
  BY <1>1, <1>2

LEMMA AppendOnce ==
  ASSUME NEW S, NEW s \in Seq(S), NEW d \in S, NamedOnce(s),
         \A i \in DOMAIN s : s[i].name # d.name
  PROVE  Append(s, d) \in Seq(S) /\ NamedOnce(Append(s, d))
<1>1. /\ Append(s, d) \in Seq(S) /\ Len(Append(s, d)) = Len(s) + 1
      /\ \A i \in 1..(Len(s) + 1) : Append(s, d)[i] = IF i = Len(s) + 1 THEN d ELSE s[i]
  OBVIOUS
<1> QED
  BY <1>1 DEF NamedOnce

-----------------------------------------------------------------------------
(* Going through vader.toml.                                               *)
LEMMA LeftIs ==
  ASSUME ProjectTypes, NEW k \in Nat, NEW T \in Seq(asked), Left(T, k), T # <<>>
  PROVE  /\ k + 1 \in 1..Len(manifest) /\ Head(T) = manifest[k + 1] /\ Head(T) \in asked
         /\ Tail(T) \in Seq(asked) /\ Left(Tail(T), k + 1)
<1>1. /\ Len(T) \in Nat /\ Len(T) > 0 /\ Head(T) = T[1] /\ Head(T) \in asked
      /\ Tail(T) \in Seq(asked) /\ Len(Tail(T)) = Len(T) - 1
      /\ \A i \in 1..(Len(T) - 1) : Tail(T)[i] = T[i + 1]
  OBVIOUS
<1>2. Len(manifest) \in Nat
  BY DEF ProjectTypes
<1>3. k + 1 \in 1..Len(manifest) /\ Head(T) = manifest[k + 1]
  BY <1>1, <1>2 DEF Left
<1>4. ASSUME NEW i \in 1..Len(Tail(T))
      PROVE  Tail(T)[i] = manifest[(k + 1) + i]
  <2>1. i + 1 \in 1..Len(T) /\ k + (i + 1) = (k + 1) + i
    BY <1>1
  <2> QED
    BY <1>1, <2>1 DEF Left
<1> QED
  BY <1>1, <1>2, <1>3, <1>4 DEF Left

LEMMA LeftAll ==
  ASSUME ProjectTypes
  PROVE  Left(manifest, 0)
BY DEF ProjectTypes, Left

LEMMA PlacedNone == Placed(<<>>, 0, {})
<1> DEFINE f == [i \in 1..0 |-> i]
<1>1. f \in [1..Len(<<>>) -> 1..0]
  OBVIOUS
<1>2. Places(<<>>, 0, {}, f)
  BY <1>1 DEF Places
<1> QED
  BY <1>1, <1>2 DEF Placed

LEMMA MadeNone == Made(<<>>, 0)
BY DEF Made

(* The next line of vader.toml could not be cloned ... *)
LEMMA PlacedWithout ==
  ASSUME ProjectTypes, NamedOnce(manifest), NEW k \in Nat, k + 1 \in 1..Len(manifest),
         NEW L \in Seq(Lines), NEW miss, Placed(L, k, miss)
  PROVE  Placed(L, k + 1, miss \cup {manifest[k + 1].name})
<1> DEFINE d == manifest[k + 1]
           M == miss \cup {d.name}
<1>1. PICK f : f \in [1..Len(L) -> 1..k] /\ Places(L, k, miss, f)
  BY DEF Placed
<1>2. Len(L) \in Nat /\ DOMAIN manifest = 1..Len(manifest) /\ Len(manifest) \in Nat
  BY DEF ProjectTypes
<1>3. \A j \in 1..k : manifest[j].name # d.name
  BY <1>2 DEF NamedOnce
<1>4. f \in [1..Len(L) -> 1..(k + 1)]
  BY <1>1
<1>5. ASSUME NEW j \in 1..(k + 1)
      PROVE  manifest[j].name \notin M <=> \E i \in 1..Len(L) : f[i] = j
  <2>1. CASE j \in 1..k
    BY <1>1, <1>3, <2>1 DEF Places
  <2>2. CASE j = k + 1
    <3>1. \A i \in 1..Len(L) : f[i] # j
      BY <1>1, <2>2
    <3> QED
      BY <2>2, <3>1
  <2> QED
    BY <2>1, <2>2
<1>6. Places(L, k + 1, M, f)
  BY <1>1, <1>4, <1>5 DEF Places
<1>7. \A n \in M : \E j \in 1..(k + 1) : manifest[j].name = n
  <2>1. k + 1 \in 1..(k + 1) /\ \A j \in 1..k : j \in 1..(k + 1)
    OBVIOUS
  <2> QED
    BY <2>1 DEF Placed
<1> QED
  BY <1>4, <1>6, <1>7 DEF Placed

(* ... or has an entry now. *)
LEMMA PlacedWith ==
  ASSUME ProjectTypes, NamedOnce(manifest), NEW k \in Nat, k + 1 \in 1..Len(manifest),
         NEW L \in Seq(Lines), NEW miss, Placed(L, k, miss),
         NEW e \in Lines, e.name = manifest[k + 1].name, e.url = manifest[k + 1].url
  PROVE  Placed(Append(L, e), k + 1, miss)
<1> DEFINE n == Len(L)
<1>1. PICK f : f \in [1..n -> 1..k] /\ Places(L, k, miss, f)
  BY DEF Placed
<1>2. PICK A : A = Append(L, e)
  OBVIOUS
<1>3. /\ n \in Nat /\ Len(A) = n + 1 /\ A[n + 1] = e /\ \A i \in 1..n : A[i] = L[i]
      /\ DOMAIN manifest = 1..Len(manifest) /\ Len(manifest) \in Nat
  BY <1>2 DEF ProjectTypes
<1> HIDE DEF n
<1>4. PICK g : g = [i \in 1..(n + 1) |-> IF i = n + 1 THEN k + 1 ELSE f[i]]
  OBVIOUS
<1>5. g[n + 1] = k + 1 /\ \A i \in 1..n : g[i] = f[i] /\ g[i] \in 1..k
  BY <1>1, <1>3, <1>4
<1>6. g \in [1..Len(A) -> 1..(k + 1)]
  BY <1>1, <1>3, <1>4
<1>7. \A i, j \in 1..Len(A) : i < j => g[i] < g[j]
  <2> SUFFICES ASSUME NEW i \in 1..(n + 1), NEW j \in 1..(n + 1), i < j
               PROVE  g[i] < g[j]
    BY <1>3
  <2>1. i \in 1..n
    BY <1>3
  <2>2. CASE j \in 1..n
    BY <1>1, <1>5, <2>1, <2>2 DEF Places, n
  <2>3. CASE j = n + 1
    BY <1>5, <2>1, <2>3
  <2> QED
    BY <1>3, <2>2, <2>3
<1>8. ASSUME NEW i \in 1..Len(A)
      PROVE  A[i].name = manifest[g[i]].name /\ A[i].url = manifest[g[i]].url
  <2>1. CASE i \in 1..n
    BY <1>1, <1>3, <1>5, <2>1 DEF Places, n
  <2>2. CASE i = n + 1
    BY <1>3, <1>5, <2>2
  <2> QED
    BY <1>3, <2>1, <2>2
<1>9. ASSUME NEW j \in 1..(k + 1)
      PROVE  manifest[j].name \notin miss <=> \E i \in 1..Len(A) : g[i] = j
  <2>1. CASE j \in 1..k
    <3>1. (\E i \in 1..Len(A) : g[i] = j) <=> \E i \in 1..n : f[i] = j
      <4>1. 1..Len(A) = (1..n) \cup {n + 1} /\ j # k + 1
        BY <1>3, <2>1
      <4>2. ASSUME NEW i \in 1..Len(A), g[i] = j
            PROVE  i \in 1..n /\ f[i] = j
        BY <1>5, <4>1, <4>2
      <4>3. ASSUME NEW i \in 1..n, f[i] = j
            PROVE  i \in 1..Len(A) /\ g[i] = j
        BY <1>5, <4>1, <4>3
      <4> QED
        BY <4>2, <4>3
    <3> QED
      BY <1>1, <2>1, <3>1 DEF Places, n
  <2>2. CASE j = k + 1
    <3>1. manifest[j].name \notin miss
      <4>1. \A i \in 1..k : manifest[i].name # manifest[j].name
        BY <1>3, <2>2 DEF NamedOnce
      <4> QED
        BY <4>1 DEF Placed
    <3>2. n + 1 \in 1..Len(A)
      BY <1>3
    <3> QED
      BY <1>5, <2>2, <3>1, <3>2
  <2> QED
    BY <2>1, <2>2
<1>10. Places(A, k + 1, miss, g)
  BY <1>6, <1>7, <1>8, <1>9 DEF Places
<1>11. \A m \in miss : \E j \in 1..(k + 1) : manifest[j].name = m
  <2>1. \A j \in 1..k : j \in 1..(k + 1)
    OBVIOUS
  <2> QED
    BY <2>1 DEF Placed
<1> QED
  BY <1>2, <1>6, <1>10, <1>11 DEF Placed

LEMMA MadeWith ==
  ASSUME ProjectTypes, NEW k \in Nat, k + 1 \in 1..Len(manifest),
         NEW L \in Seq(Lines), Made(L, k)', manifest' = manifest,
         NEW c \in Clones, c # NoClone, cache'[Key(manifest[k + 1])] = c,
         NEW e \in Lines, e = Entry(manifest[k + 1], c)
  PROVE  Made(Append(L, e), k + 1)'
<1>1. PICK A : A = Append(L, e)
  OBVIOUS
<1>2. /\ Len(L) = k /\ Len(A) = k + 1 /\ A[k + 1] = e /\ \A i \in 1..k : A[i] = L[i]
  BY <1>1 DEF Made
<1>3. ASSUME NEW i \in 1..(k + 1)
      PROVE  /\ cache'[Key(manifest[i])] # NoClone
             /\ A[i] = Entry(manifest[i], cache'[Key(manifest[i])])
  <2>1. CASE i \in 1..k
    BY <1>2, <2>1 DEF Made
  <2>2. CASE i = k + 1
    BY <1>2, <2>2
  <2> QED
    BY <2>1, <2>2
<1>4. Made(A, k + 1)'
  BY <1>2, <1>3 DEF Made
<1> QED
  BY <1>1, <1>4

LEMMA PlacedFollows ==
  ASSUME ProjectTypes, Placed(lock, Len(manifest), skipped)
  PROVE  Follows(lock, manifest)
<1>1. DOMAIN lock = 1..Len(lock) /\ DOMAIN manifest = 1..Len(manifest)
  BY DEF ProjectTypes
<1>2. PICK f : /\ f \in [DOMAIN lock -> DOMAIN manifest]
               /\ Places(lock, Len(manifest), skipped, f)
  BY <1>1 DEF Placed
<1>3. /\ \A i, j \in DOMAIN lock : i < j => f[i] < f[j]
      /\ \A i \in DOMAIN lock : /\ lock[i].name = manifest[f[i]].name
                                /\ lock[i].url = manifest[f[i]].url
      /\ \A j \in DOMAIN manifest :
           manifest[j].name \notin skipped <=> \E i \in DOMAIN lock : f[i] = j
  BY <1>1, <1>2 DEF Places
<1> QED
  BY <1>2, <1>3 DEF Follows

-----------------------------------------------------------------------------
(* What a step keeps.                                                      *)
LEMMA HonestKept ==
  ASSUME ProjectTypes, asked \subseteq asked', crashes' \in Nat, crashes <= crashes',
         NEW L \in Seq(Lines), HonestLines(L)
  PROVE  HonestLines(L)'
<1>1. ASSUME NEW e, Honest(e)
      PROVE  Honest(e)'
  <2>1. CASE e.commit = Broken /\ crashes > 0
    BY <2>1 DEF Honest, ProjectTypes, Broken
  <2>2. CASE \E d, o \in asked : /\ d.url = e.url /\ o.url = e.commit.url
                                 /\ d.name = e.name /\ o.name = e.name
                                 /\ d.version = o.version
    BY <2>2 DEF Honest
  <2> QED
    BY <1>1, <2>1, <2>2 DEF Honest
<1> QED
  BY <1>1 DEF HonestLines

LEMMA OriginKept ==
  ASSUME ProjectTypes, asked \subseteq asked', crashes' \in Nat, crashes <= crashes',
         NEW k \in Keys, Origin(k), cache'[k] = cache[k]
  PROVE  Origin(k)'
<1>1. CASE cache[k] = NoClone
  BY <1>1 DEF Origin, NoClone
<1>2. CASE cache[k] = Broken /\ crashes > 0
  BY <1>2 DEF Origin, Broken, ProjectTypes
<1>3. CASE \E o \in asked : Key(o) = k /\ cache[k].url = o.url
  BY <1>3 DEF Origin, Key
<1> QED
  BY <1>1, <1>2, <1>3 DEF Origin

LEMMA PlacedKept ==
  ASSUME manifest' = manifest, NEW L, NEW k, NEW miss, Placed(L, k, miss)
  PROVE  Placed(L, k, miss)'
<1>1. PICK f : f \in [1..Len(L) -> 1..k] /\ Places(L, k, miss, f)
  BY DEF Placed
<1>2. Places(L, k, miss, f)'
  BY <1>1 DEF Places
<1>3. \A n \in miss : \E j \in 1..k : manifest'[j].name = n
  BY DEF Placed
<1> QED
  BY <1>1, <1>2, <1>3 DEF Placed

LEMMA MadeKept ==
  ASSUME ProjectTypes, manifest' = manifest, Grown,
         NEW k \in 0..Len(manifest), NEW L, Made(L, k)
  PROVE  Made(L, k)'
<1>1. ASSUME NEW i \in 1..k
      PROVE  Key(manifest[i]) \in Keys
  <2>1. manifest[i] \in asked /\ asked \subseteq AllDeps
    BY DEF ProjectTypes
  <2> QED
    BY <2>1, DepIs
<1>2. ASSUME NEW i \in 1..k
      PROVE  cache'[Key(manifest[i])] = cache[Key(manifest[i])]
  BY <1>1 DEF Made, Grown
<1> QED
  BY <1>2 DEF Made, Key, Entry, NoClone

LEMMA LockedKept ==
  ASSUME LockInv, UNCHANGED <<manifest, lock, stale, here, skipped>>, Grown,
         dev'.pc \in {"idle", "add", "build"} => dev.pc \in {"idle", "add", "build"}
  PROVE  Locked'
<1>1. ProjectTypes /\ Locked /\ Len(manifest) \in Nat
  BY DEF LockInv, ProjectTypes
<1>2. PICK L, n, X : L = lock /\ n = Len(manifest) /\ X = skipped
  OBVIOUS
<1>3. Placed(lock, Len(manifest), skipped) => Placed(lock, Len(manifest), skipped)'
  <2>1. Placed(L, n, X) => Placed(L, n, X)'
    BY PlacedKept
  <2> QED
    BY <1>2, <2>1
<1>4. Made(L, n) => Made(L, n)'
  BY <1>1, <1>2, MadeKept
<1>5. Made(lock, Len(manifest)) => Made(lock, Len(manifest))'
  BY <1>2, <1>4 DEF Made
<1> QED
  BY <1>1, <1>3, <1>5 DEF Locked

(* fetch: what a clone or a look into the cache does to the clones. *)
LEMMA FetchIs ==
  ASSUME ProjectTypes, \A k \in Keys : Origin(k), NEW d \in asked, NEW c \in Fetched(d),
         cache' = [cache EXCEPT ![Key(d)] = c], asked' = asked, crashes' = crashes
  PROVE  /\ c \in Clones /\ cache' \in [Keys -> Clones] /\ Grown /\ cache'[Key(d)] = c
         /\ \A k \in Keys : Origin(k)'
         /\ c # NoClone => Honest(Entry(d, c))'
<1>1. d \in AllDeps /\ Key(d) \in Keys
  BY DepIs DEF ProjectTypes
<1>2. /\ c \in Clones
      /\ \/ c = NoClone
         \/ c = Broken /\ crashes > 0
         \/ \E o \in asked : Key(o) = Key(d) /\ c.url = o.url
      /\ cache[Key(d)] # NoClone => c = cache[Key(d)]
  <2>1. CASE cache[Key(d)] # NoClone
    <3>1. c = cache[Key(d)] /\ c \in Clones
      BY <1>1, <2>1 DEF Fetched, ProjectTypes
    <3> QED
      BY <1>1, <3>1 DEF Origin
  <2>2. CASE cache[Key(d)] = NoClone
    <3>1. c = Tip(d) \/ c = NoClone
      BY <2>2 DEF Fetched
    <3>2. Tip(d) \in Clones /\ Tip(d).url = d.url
      BY <1>1, TipIs
    <3>3. NoClone \in Clones
      BY DEF NoClone, Clones, Sites
    <3> QED
      BY <2>2, <3>1, <3>2, <3>3
  <2> QED
    BY <2>1, <2>2
<1>3. /\ cache' \in [Keys -> Clones] /\ cache'[Key(d)] = c
      /\ \A k \in Keys : k # Key(d) => cache'[k] = cache[k]
  BY <1>1, <1>2 DEF ProjectTypes
<1>4. Grown
  BY <1>2, <1>3 DEF Grown
<1>5. ASSUME NEW k \in Keys
      PROVE  Origin(k)'
  <2>1. CASE k = Key(d)
    BY <1>2, <1>3, <2>1 DEF Origin, Key, NoClone, Broken
  <2>2. CASE k # Key(d)
    BY <1>3, <2>2, OriginKept DEF ProjectTypes
  <2> QED
    BY <2>1, <2>2
<1>6. c # NoClone => Honest(Entry(d, c))'
  <2>1. Entry(d, c).name = d.name /\ Entry(d, c).url = d.url /\ Entry(d, c).commit = c
    BY <1>1, <1>2, EntryIs
  <2>2. CASE c = Broken /\ crashes > 0
    BY <2>1, <2>2 DEF Honest, Entry, Broken
  <2>3. CASE \E o \in asked : Key(o) = Key(d) /\ c.url = o.url
    <3>1. PICK o \in asked : Key(o) = Key(d) /\ c.url = o.url
      BY <2>3
    <3>2. o.name = d.name /\ o.version = d.version
      BY <3>1 DEF Key
    <3> QED
      BY <2>1, <3>1, <3>2 DEF Honest, Entry
  <2> QED
    BY <1>2, <2>2, <2>3
<1> QED
  BY <1>2, <1>3, <1>4, <1>5, <1>6

(* A clone that is interrupted. *)
LEMMA InCloneIs ==
  ASSUME ProjectTypes, \A k \in Keys : Origin(k), NEW d \in asked, InClone(d),
         asked' = asked, crashes' = crashes + 1
  PROVE  cache' \in [Keys -> Clones] /\ Grown /\ \A k \in Keys : Origin(k)'
<1>1. d \in AllDeps /\ Key(d) \in Keys
  BY DepIs DEF ProjectTypes
<1>2. crashes' \in Nat /\ crashes <= crashes' /\ crashes' > 0
  BY DEF ProjectTypes
<1>3. Broken \in Clones
  BY DEF Broken, Clones, Sites
<1>4. /\ cache' \in [Keys -> Clones] /\ Grown
      /\ \A k \in Keys : cache'[k] = cache[k] \/ cache'[k] = Broken
  BY <1>1, <1>3 DEF InClone, ProjectTypes, Grown
<1>5. ASSUME NEW k \in Keys
      PROVE  Origin(k)'
  <2>1. CASE cache'[k] = cache[k]
    BY <1>2, <2>1, OriginKept
  <2>2. CASE cache'[k] = Broken
    BY <1>2, <2>2 DEF Origin, Broken
  <2> QED
    BY <1>4, <2>1, <2>2
<1> QED
  BY <1>4, <1>5

-----------------------------------------------------------------------------
(* The steps of the developer.                                             *)
LEMMA LockInit == Init => LockInv
<1> SUFFICES ASSUME Init PROVE LockInv
  OBVIOUS
<1>1. PICK m \in {<<>>} \cup {<<d>> : d \in Deps} :
        /\ head = [u \in Urls |-> 0]
        /\ manifest = m /\ asked = ToSet(m)
        /\ lock = [i \in DOMAIN m |-> Entry(m[i], Tip(m[i]))]
        /\ here = (m = <<>>)
  BY DEF Init
<1>2. /\ stale = FALSE /\ skipped = {} /\ cache = [k \in Keys |-> NoClone]
      /\ dev = Idle /\ crashes = 0
  BY DEF Init, Keys
<1>3. NoClone \in Clones
  BY DEF NoClone, Clones, Sites
<1>4. /\ cache \in [Keys -> Clones] /\ head \in [Urls -> Nat] /\ dev \in Commands
      /\ crashes \in Nat /\ stale \in BOOLEAN /\ here \in BOOLEAN
  BY <1>1, <1>2, <1>3 DEF Commands
<1>5. /\ \A k \in Keys : Origin(k)
      /\ Working
  BY <1>2 DEF Origin, Working, Idle
<1>6. CASE m = <<>>
  <2>1. manifest = <<>> /\ lock = <<>> /\ asked = {} /\ Len(manifest) = 0
    <3>1. DOMAIN m = {} /\ lock = [i \in {} |-> Entry(m[i], Tip(m[i]))]
      BY <1>1, <1>6
    <3>2. lock = <<>>
      BY <3>1
    <3> QED
      BY <1>1, <1>6, <3>2 DEF ToSet
  <2>2. ProjectTypes
    BY <1>4, <2>1 DEF ProjectTypes
  <2>3. NamedOnce(manifest) /\ HonestLines(lock)
    BY <2>1 DEF NamedOnce, HonestLines
  <2>4. Locked
    BY <1>2, <2>1, PlacedNone, MadeNone DEF Locked
  <2> QED
    BY <1>5, <2>2, <2>3, <2>4 DEF LockInv
<1>7. CASE m # <<>>
  <2>1. PICK d \in Deps : m = <<d>>
    BY <1>1, <1>7
  <2>2. PICK e : e = Entry(d, Tip(d))
    OBVIOUS
  <2>3. /\ manifest = <<d>> /\ Len(manifest) = 1 /\ manifest[1] = d /\ asked = {d}
        /\ lock = <<e>> /\ Len(lock) = 1 /\ lock[1] = e /\ here = FALSE
    <3>1. DOMAIN m = 1..1 /\ m[1] = d
      BY <2>1
    <3>2. lock = [i \in 1..1 |-> e]
      BY <1>1, <2>2, <3>1
    <3>3. lock = <<e>>
      BY <3>2
    <3>4. asked = {d}
      <4>1. asked = {m[i] : i \in DOMAIN m}
        BY <1>1 DEF ToSet
      <4> QED
        BY <3>1, <4>1
    <3>5. manifest = <<d>> /\ here = FALSE
      BY <1>1, <1>7, <2>1
    <3> QED
      BY <3>3, <3>4, <3>5
  <2>4. d \in AllDeps /\ Tip(d).url = d.url /\ Tip(d) \in Clones
    <3>1. d \in AllDeps
      BY DEF AllDeps
    <3>2. (IF d.version = 0 THEN head[d.url] ELSE -d.version) \in Int
      BY <1>4, <3>1, DepIs
    <3> QED
      BY <3>1, <3>2, DepIs DEF Tip, Clones
  <2>5. e \in Lines /\ e.name = d.name /\ e.url = d.url /\ e.commit = Tip(d)
    BY <2>2, <2>4, EntryIs
  <2>6. ProjectTypes
    BY <1>4, <2>3, <2>4, <2>5 DEF ProjectTypes
  <2>7. NamedOnce(manifest)
    BY <2>3 DEF NamedOnce
  <2>8. HonestLines(lock)
    BY <2>3, <2>4, <2>5 DEF HonestLines, Honest
  <2>9. Placed(lock, 1, {})
    <3>1. PICK f : f = [i \in 1..1 |-> 1]
      OBVIOUS
    <3>2. f \in [1..Len(lock) -> 1..1] /\ f[1] = 1
      BY <2>3, <3>1
    <3>3. Places(lock, 1, {}, f)
      BY <2>3, <2>5, <3>2 DEF Places
    <3> QED
      BY <3>2, <3>3 DEF Placed
  <2>10. Locked
    BY <1>2, <2>3, <2>9 DEF Locked
  <2> QED
    BY <1>5, <2>6, <2>7, <2>8, <2>10 DEF LockInv
<1> QED
  BY <1>6, <1>7

(* Nobody else touches the project or the clones. *)
LEMMA SameDev ==
  ASSUME LockInv, UNCHANGED <<project, cache, dev>>, head' \in [Urls -> Nat],
         crashes' \in Nat, crashes <= crashes'
  PROVE  LockInv'
<1>1. ProjectTypes /\ \A k \in Keys : Origin(k)
  BY DEF LockInv
<1>2. UNCHANGED <<manifest, lock, asked, stale, here, skipped, cache, dev>>
  BY DEF project
<1>3. ProjectTypes'
  BY <1>1, <1>2 DEF ProjectTypes, Commands
<1>4. Grown
  BY <1>2 DEF Grown
<1>5. \A k \in Keys : Origin(k)'
  BY <1>1, <1>2, OriginKept
<1>6. Locked'
  BY <1>2, <1>4, LockedKept
<1>7. NamedOnce(manifest)'
  BY <1>2 DEF LockInv, NamedOnce
<1>8. PICK L : L = lock
  OBVIOUS
<1>9. HonestLines(L)'
  BY <1>1, <1>2, <1>8, HonestKept DEF LockInv, ProjectTypes
<1>10. Working'
  <2>1. dev'.pc = "toml" => NamedOnce(dev'.deps)
    BY <1>2 DEF LockInv, Working
  <2>2. CASE dev.pc = "build"
    <3>1. PICK k \in Nat : Left(dev.todo, k) /\ Made(dev.out, k)
      BY <2>2 DEF LockInv, Working
    <3>2. Left(dev.todo, k)' /\ Made(dev.out, k)'
      BY <1>2, <3>1 DEF Left, Made
    <3> QED
      BY <1>2, <2>2, <3>2 DEF Working
  <2>3. CASE dev.pc = "lock"
    <3>1. HonestLines(dev.out) /\ dev.out \in Seq(Lines)
      BY <1>1, <2>3, CommandIs DEF LockInv, Working
    <3>2. PICK M : M = dev.out
      OBVIOUS
    <3>3. HonestLines(M)'
      BY <1>1, <1>2, <3>1, <3>2, HonestKept
    <3>4. HonestLines(dev.out)'
      BY <1>2, <3>2, <3>3 DEF HonestLines
    <3>5. PICK k \in Nat : /\ Left(dev.todo, k) /\ Placed(dev.out, k, dev.miss)
                           /\ dev.miss = {} => Made(dev.out, k)
      BY <2>3 DEF LockInv, Working
    <3>6. Left(dev.todo, k)' /\ (dev'.miss = {} => Made(dev.out, k)')
      BY <1>2, <3>5 DEF Left, Made
    <3>7. PICK X : X = dev.miss
      OBVIOUS
    <3>8. Placed(M, k, X)'
      BY <1>2, <3>2, <3>5, <3>7, PlacedKept
    <3>9. Placed(dev.out, k, dev.miss)'
      BY <1>2, <3>2, <3>7, <3>8
    <3> QED
      BY <1>2, <2>3, <3>4, <3>6, <3>9 DEF Working
  <2> QED
    BY <1>2, <2>1, <2>2, <2>3 DEF Working
<1> QED
  BY <1>2, <1>3, <1>5, <1>6, <1>7, <1>8, <1>9, <1>10 DEF LockInv, HonestLines

LEMMA AskInv ==
  ASSUME LockInv, dev = Idle, NEW d \in AllDeps, Ask(d)
  PROVE  LockInv'
<1>1. ProjectTypes /\ \A k \in Keys : Origin(k)
  BY DEF LockInv
<1>2. /\ dev' = [pc |-> "add", dep |-> d] /\ asked' = asked \cup {d}
      /\ UNCHANGED <<manifest, lock, stale, here, skipped, cache, head, crashes>>
  BY DEF Ask
<1>3. asked \subseteq asked' /\ asked' \subseteq AllDeps /\ crashes' \in Nat /\ crashes <= crashes'
  BY <1>1, <1>2 DEF ProjectTypes
<1>4. ProjectTypes'
  <2>1. manifest' \in Seq(asked')
    BY <1>1, <1>2, <1>3, SeqGrows DEF ProjectTypes
  <2>2. dev' \in Commands'
    BY <1>2 DEF Commands
  <2> QED
    BY <1>1, <1>2, <1>3, <2>1, <2>2 DEF ProjectTypes
<1>5. \A k \in Keys : Origin(k)'
  BY <1>1, <1>2, <1>3, OriginKept
<1>6. PICK L : L = lock
  OBVIOUS
<1>7. HonestLines(L)'
  BY <1>1, <1>3, <1>6, HonestKept DEF LockInv, ProjectTypes
<1>8. Locked'
  BY <1>2, LockedKept DEF Grown, Idle
<1>9. NamedOnce(manifest)' /\ Working'
  BY <1>2 DEF LockInv, NamedOnce, Working
<1> QED
  BY <1>2, <1>4, <1>5, <1>6, <1>7, <1>8, <1>9 DEF LockInv, HonestLines

LEMMA AddFetchInv ==
  ASSUME LockInv, AddFetch
  PROVE  LockInv'
<1>1. ProjectTypes /\ \A k \in Keys : Origin(k)
  BY DEF LockInv
<1>2. PICK d : dev.pc = "add" /\ d = dev.dep /\ d \in asked
  BY <1>1, CommandIs DEF AddFetch
<1>3. PICK c \in Fetched(d) :
        /\ cache' = [cache EXCEPT ![Key(d)] = c]
        /\ dev' = IF c = NoClone THEN Idle
                  ELSE [pc |-> "toml", deps |-> Append(Without(manifest, d.name), d)]
  BY <1>2 DEF AddFetch
<1>4. /\ UNCHANGED <<manifest, lock, asked, stale, here, skipped, head, crashes>>
  BY DEF AddFetch, project
<1>5. cache' \in [Keys -> Clones] /\ Grown /\ \A k \in Keys : Origin(k)'
  BY <1>1, <1>2, <1>3, <1>4, FetchIs
<1>6. PICK D : D = Append(Without(manifest, d.name), d)
  OBVIOUS
<1>7. D \in Seq(asked) /\ NamedOnce(D)
  BY <1>1, <1>2, <1>6, WithoutIs, AppendOnce DEF LockInv, ProjectTypes
<1>8. dev' = Idle \/ dev' = [pc |-> "toml", deps |-> D]
  BY <1>3, <1>6
<1>9. ProjectTypes'
  BY <1>1, <1>4, <1>5, <1>7, <1>8 DEF ProjectTypes, Commands
<1>10. Working'
  BY <1>7, <1>8 DEF Working, Idle, NamedOnce
<1>11. Locked'
  BY <1>2, <1>4, <1>5, LockedKept
<1>12. PICK L : L = lock
  OBVIOUS
<1>13. HonestLines(L)'
  BY <1>1, <1>4, <1>12, HonestKept DEF LockInv, ProjectTypes
<1>14. NamedOnce(manifest)'
  BY <1>4 DEF LockInv, NamedOnce
<1> QED
  BY <1>4, <1>5, <1>9, <1>10, <1>11, <1>12, <1>13, <1>14 DEF LockInv, HonestLines

(* The steps that change nothing but the command of the developer. *)
LEMMA DevStep ==
  ASSUME LockInv, UNCHANGED <<project, cache, head, crashes>>, dev' \in Commands,
         Working', Locked'
  PROVE  LockInv'
<1>1. UNCHANGED <<manifest, lock, asked, stale, here, skipped, cache, head, crashes>>
  BY DEF project
<1>2. ProjectTypes'
  BY <1>1 DEF LockInv, ProjectTypes, Commands
<1>3. \A k \in Keys : Origin(k)'
  BY <1>1, OriginKept DEF LockInv, ProjectTypes
<1>4. PICK L : L = lock
  OBVIOUS
<1>5. HonestLines(L)'
  BY <1>1, <1>4, HonestKept DEF LockInv, ProjectTypes
<1>6. NamedOnce(manifest)'
  BY <1>1 DEF LockInv, NamedOnce
<1> QED
  BY <1>1, <1>2, <1>3, <1>4, <1>5, <1>6 DEF LockInv, HonestLines

LEMMA RemoveDepInv ==
  ASSUME LockInv, RemoveDep
  PROVE  LockInv'
<1>1. /\ ProjectTypes /\ NamedOnce(manifest) /\ dev = Idle
      /\ UNCHANGED <<project, cache, head, crashes>>
  BY DEF LockInv, RemoveDep
<1>2. PICK n, D : D = Without(manifest, n) /\ dev' = [pc |-> "toml", deps |-> D]
  BY DEF RemoveDep
<1>3. D \in Seq(asked) /\ NamedOnce(D)
  BY <1>1, <1>2, WithoutIs DEF ProjectTypes
<1>4. dev' \in Commands
  BY <1>2, <1>3 DEF Commands
<1>5. Working'
  BY <1>2, <1>3 DEF Working, NamedOnce
<1>6. Locked'
  BY <1>2 DEF Locked
<1> QED
  BY <1>1, <1>4, <1>5, <1>6, DevStep

LEMMA WriteTomlInv ==
  ASSUME LockInv, WriteToml
  PROVE  LockInv'
<1>1. ProjectTypes /\ \A k \in Keys : Origin(k)
  BY DEF LockInv
<1>2. PICK D : dev.pc = "toml" /\ D = dev.deps /\ D \in Seq(asked) /\ NamedOnce(D)
  BY <1>1, CommandIs DEF WriteToml, LockInv, Working
<1>3. /\ manifest' = D /\ dev' = [pc |-> "lock", todo |-> D, out |-> <<>>, miss |-> {}]
      /\ UNCHANGED <<lock, asked, stale, here, skipped, cache, head, crashes>>
  BY <1>2 DEF WriteToml
<1>4. ProjectTypes'
  <2>1. <<>> \in Seq(Lines) /\ {} \in SUBSET Names
    OBVIOUS
  <2>2. dev' \in Commands'
    BY <1>2, <1>3, <2>1 DEF Commands
  <2> QED
    BY <1>1, <1>2, <1>3, <2>2 DEF ProjectTypes
<1>5. \A k \in Keys : Origin(k)'
  BY <1>1, <1>3, OriginKept DEF ProjectTypes
<1>6. PICK L : L = lock
  OBVIOUS
<1>7. HonestLines(L)'
  BY <1>1, <1>3, <1>6, HonestKept DEF LockInv, ProjectTypes
<1>8. NamedOnce(manifest)' /\ Locked'
  BY <1>2, <1>3 DEF NamedOnce, Locked
<1>9. Working'
  <2>1. Left(D, 0)'
    BY <1>2, <1>3 DEF Left
  <2>2. Placed(<<>>, 0, {})'
    <3>1. PICK f : f = [i \in 1..0 |-> i]
      OBVIOUS
    <3>2. f \in [1..Len(<<>>) -> 1..0] /\ Places(<<>>, 0, {}, f)'
      BY <3>1 DEF Places
    <3> QED
      BY <3>2 DEF Placed
  <2>3. Made(<<>>, 0)'
    BY DEF Made
  <2>4. HonestLines(<<>>)'
    BY DEF HonestLines
  <2>5. /\ dev'.pc = "lock" /\ dev'.todo = D /\ dev'.out = <<>> /\ dev'.miss = {}
    BY <1>3
  <2> QED
    BY <2>1, <2>2, <2>3, <2>4, <2>5 DEF Working
<1> QED
  BY <1>3, <1>4, <1>5, <1>6, <1>7, <1>8, <1>9 DEF LockInv, HonestLines

LEMMA LockFetchInv ==
  ASSUME LockInv, LockFetch
  PROVE  LockInv'
<1>1. ProjectTypes /\ NamedOnce(manifest) /\ \A k \in Keys : Origin(k)
  BY DEF LockInv
<1>2. PICK T, L, X : /\ T = dev.todo /\ L = dev.out /\ X = dev.miss
                     /\ T \in Seq(asked) /\ L \in Seq(Lines) /\ X \in SUBSET Names
                     /\ dev = [pc |-> "lock", todo |-> T, out |-> L, miss |-> X]
  BY <1>1, CommandIs DEF LockFetch
<1>3. T # <<>> /\ HonestLines(L)
  BY <1>2 DEF LockFetch, LockInv, Working
<1>4. PICK k \in Nat : Left(T, k) /\ Placed(L, k, X) /\ (X = {} => Made(L, k))
  BY <1>2 DEF LockInv, Working
<1>5. PICK d, R : d = Head(T) /\ R = Tail(T)
  OBVIOUS
<1>6. /\ k + 1 \in 1..Len(manifest) /\ d = manifest[k + 1] /\ d \in asked
      /\ R \in Seq(asked) /\ Left(R, k + 1)
  BY <1>1, <1>2, <1>3, <1>4, <1>5, LeftIs
<1>7. PICK c, e : /\ c \in Fetched(d) /\ e = Entry(d, c)
                  /\ cache' = [cache EXCEPT ![Key(d)] = c]
                  /\ dev' = IF c = NoClone
                            THEN [dev EXCEPT !.todo = Tail(@), !.miss = @ \cup {d.name}]
                            ELSE [dev EXCEPT !.todo = Tail(@), !.out = Append(@, Entry(d, c))]
  BY <1>2, <1>5 DEF LockFetch
<1>8. UNCHANGED <<manifest, lock, asked, stale, here, skipped, head, crashes>>
  BY DEF LockFetch, project
<1>9. /\ c \in Clones /\ cache' \in [Keys -> Clones] /\ Grown /\ cache'[Key(d)] = c
      /\ \A q \in Keys : Origin(q)'
      /\ c # NoClone => Honest(e)'
  BY <1>1, <1>6, <1>7, <1>8, FetchIs
<1>10. d \in AllDeps /\ e \in Lines /\ e.name = d.name /\ e.url = d.url
  BY <1>1, <1>6, <1>7, <1>9, EntryIs DEF ProjectTypes
<1>11. PICK M, Y : /\ M = IF c = NoClone THEN L ELSE Append(L, e)
                   /\ Y = IF c = NoClone THEN X \cup {d.name} ELSE X
  OBVIOUS
<1>12. dev' = [pc |-> "lock", todo |-> R, out |-> M, miss |-> Y]
  <2>1. CASE c = NoClone
    <3>1. dev' = [dev EXCEPT !.todo = R, !.miss = Y]
      BY <1>2, <1>5, <1>7, <1>11, <2>1
    <3>2. dev = [pc |-> "lock", todo |-> T, out |-> L, miss |-> X]
      BY <1>2
    <3>3. dev' = [pc |-> "lock", todo |-> R, out |-> L, miss |-> Y]
      BY <3>1, <3>2
    <3> QED
      BY <1>11, <2>1, <3>3
  <2>2. CASE c # NoClone
    <3>1. dev' = [dev EXCEPT !.todo = R, !.out = M]
      BY <1>2, <1>5, <1>7, <1>11, <2>2
    <3>2. dev = [pc |-> "lock", todo |-> T, out |-> L, miss |-> X]
      BY <1>2
    <3>3. dev' = [pc |-> "lock", todo |-> R, out |-> M, miss |-> X]
      BY <3>1, <3>2
    <3> QED
      BY <1>11, <2>2, <3>3
  <2> QED
    BY <2>1, <2>2
<1>13. M \in Seq(Lines) /\ Y \in SUBSET Names
  BY <1>2, <1>10, <1>11, DepIs
<1>14. ProjectTypes'
  <2>1. dev' \in Commands'
    BY <1>6, <1>8, <1>12, <1>13 DEF Commands
  <2> QED
    BY <1>1, <1>8, <1>9, <2>1 DEF ProjectTypes
<1>15. Working'
  <2>1. HonestLines(M)'
    <3>1. HonestLines(L)'
      BY <1>1, <1>2, <1>3, <1>8, HonestKept DEF ProjectTypes
    <3>2. CASE c = NoClone
      BY <1>11, <3>1, <3>2
    <3>3. CASE c # NoClone
      <4>1. Honest(e)' /\ M = Append(L, e)
        BY <1>9, <1>11, <3>3
      <4>2. \A i \in DOMAIN M : M[i] = e \/ (i \in DOMAIN L /\ M[i] = L[i])
        BY <1>2, <4>1
      <4> QED
        BY <3>1, <4>1, <4>2 DEF HonestLines
    <3> QED
      BY <3>2, <3>3
  <2>2. Placed(M, k + 1, Y)
    <3>1. CASE c = NoClone
      BY <1>1, <1>2, <1>4, <1>6, <1>11, <3>1, PlacedWithout
    <3>2. CASE c # NoClone
      BY <1>1, <1>2, <1>4, <1>6, <1>10, <1>11, <3>2, PlacedWith
    <3> QED
      BY <3>1, <3>2
  <2>3. ASSUME Y = {}
        PROVE  Made(M, k + 1)'
    <3>1. c # NoClone /\ X = {} /\ M = Append(L, e)
      BY <1>11, <2>3
    <3>2. k \in 0..Len(manifest)
      BY <1>6
    <3>3. Made(L, k)'
      BY <1>1, <1>4, <1>8, <1>9, <3>1, <3>2, MadeKept
    <3> QED
      BY <1>1, <1>2, <1>6, <1>7, <1>8, <1>9, <1>10, <3>1, <3>3, MadeWith
  <2>4. PICK j \in Nat : j = k + 1
    OBVIOUS
  <2>5. Left(R, j)' /\ Placed(M, j, Y)' /\ (Y = {} => Made(M, j)')
    <3>1. Left(R, j) /\ Placed(M, j, Y)
      BY <1>6, <2>2, <2>4
    <3>2. Left(R, j)'
      BY <1>8, <3>1 DEF Left
    <3>3. Placed(M, j, Y)'
      BY <1>8, <3>1, PlacedKept
    <3> QED
      BY <2>3, <2>4, <3>2, <3>3
  <2>6. dev'.pc = "lock" /\ dev'.todo = R /\ dev'.out = M /\ dev'.miss = Y
    BY <1>12
  <2> QED
    BY <2>1, <2>5, <2>6 DEF Working
<1>16. Locked' /\ NamedOnce(manifest)'
  BY <1>1, <1>8, <1>12 DEF Locked, NamedOnce
<1>17. PICK K : K = lock
  OBVIOUS
<1>18. HonestLines(K)'
  BY <1>1, <1>8, <1>17, HonestKept DEF LockInv, ProjectTypes
<1> QED
  BY <1>8, <1>9, <1>14, <1>15, <1>16, <1>17, <1>18 DEF LockInv, HonestLines

LEMMA WriteLockInv ==
  ASSUME LockInv, WriteLock
  PROVE  LockInv'
<1>1. ProjectTypes /\ NamedOnce(manifest) /\ \A k \in Keys : Origin(k)
  BY DEF LockInv
<1>2. PICK L, X : /\ dev.pc = "lock" /\ dev.todo = <<>> /\ L = dev.out /\ X = dev.miss
                  /\ L \in Seq(Lines)
  BY <1>1, CommandIs DEF WriteLock
<1>3. /\ lock' = L /\ skipped' = X /\ stale' = FALSE /\ here' = TRUE /\ dev' = Idle
      /\ UNCHANGED <<manifest, asked, cache, head, crashes>>
  BY <1>2 DEF WriteLock
<1>4. PICK n : n = Len(manifest)
  OBVIOUS
<1>5. n \in Nat /\ Placed(L, n, X) /\ (X = {} => Made(L, n))
  <2>1. PICK k \in Nat : Left(dev.todo, k) /\ Placed(L, k, X) /\ (X = {} => Made(L, k))
    BY <1>2 DEF LockInv, Working
  <2>2. k = n
    BY <1>2, <1>4, <2>1 DEF Left
  <2> QED
    BY <2>1, <2>2
<1>6. Placed(L, n, X)' /\ (X = {} => Made(L, n)')
  BY <1>3, <1>5, PlacedKept DEF Made
<1>7. Locked'
  BY <1>3, <1>4, <1>6 DEF Locked
<1>8. HonestLines(L)'
  BY <1>1, <1>2, <1>3, HonestKept DEF LockInv, Working, ProjectTypes
<1>9. ProjectTypes'
  BY <1>1, <1>2, <1>3 DEF ProjectTypes, Commands
<1>10. Working' /\ NamedOnce(manifest)'
  BY <1>1, <1>3 DEF Working, Idle, NamedOnce
<1>11. \A k \in Keys : Origin(k)'
  BY <1>1, <1>3, OriginKept DEF ProjectTypes
<1> QED
  BY <1>3, <1>7, <1>8, <1>9, <1>10, <1>11 DEF LockInv, HonestLines

LEMMA BuildInv ==
  ASSUME LockInv, Build
  PROVE  LockInv'
<1>1. /\ ProjectTypes /\ dev = Idle /\ UNCHANGED <<project, cache, head, crashes>>
      /\ dev' = [pc |-> "build", todo |-> manifest, out |-> <<>>]
  BY DEF LockInv, Build
<1>2. UNCHANGED <<manifest, lock, asked, stale, here, skipped>>
  BY <1>1 DEF project
<1>3. dev' \in Commands
  <2>1. <<>> \in Seq(Lines)
    OBVIOUS
  <2> QED
    BY <1>1, <2>1 DEF Commands, ProjectTypes
<1>4. Left(manifest, 0)' /\ Made(<<>>, 0)'
  BY <1>1, <1>2 DEF ProjectTypes, Left, Made
<1>5. Working'
  <2>1. /\ dev'.pc = "build" /\ dev'.todo = manifest' /\ dev'.out = <<>>
    BY <1>1, <1>2
  <2> QED
    BY <1>4, <2>1 DEF Working
<1>6. Locked'
  BY <1>1, <1>2, LockedKept DEF Grown, Idle
<1> QED
  BY <1>1, <1>3, <1>5, <1>6, DevStep

LEMMA BuildFetchInv ==
  ASSUME LockInv, BuildFetch
  PROVE  LockInv'
<1>1. ProjectTypes /\ NamedOnce(manifest) /\ \A k \in Keys : Origin(k)
  BY DEF LockInv
<1>2. PICK T, L : /\ T = dev.todo /\ L = dev.out /\ T \in Seq(asked) /\ L \in Seq(Lines)
                  /\ dev = [pc |-> "build", todo |-> T, out |-> L] /\ T # <<>>
  BY <1>1, CommandIs DEF BuildFetch
<1>3. PICK k \in Nat : Left(T, k) /\ Made(L, k)
  BY <1>2 DEF LockInv, Working
<1>0. PICK j \in Nat : j = k + 1
  OBVIOUS
<1>4. PICK d, R : d = Head(T) /\ R = Tail(T)
  OBVIOUS
<1>5. /\ k + 1 \in 1..Len(manifest) /\ d = manifest[k + 1] /\ d \in asked
      /\ R \in Seq(asked) /\ Left(R, j)
  BY <1>0, <1>1, <1>2, <1>3, <1>4, LeftIs
<1>6. PICK c, e : /\ c \in Fetched(d) /\ e = Entry(d, c)
                  /\ cache' = [cache EXCEPT ![Key(d)] = c]
                  /\ dev' = IF c = NoClone THEN Idle
                            ELSE [dev EXCEPT !.todo = Tail(@), !.out = Append(@, Entry(d, c))]
  BY <1>2, <1>4 DEF BuildFetch
<1>7. UNCHANGED <<manifest, lock, asked, stale, here, skipped, head, crashes>>
  BY DEF BuildFetch, project
<1>8. /\ c \in Clones /\ cache' \in [Keys -> Clones] /\ Grown /\ cache'[Key(d)] = c
      /\ \A q \in Keys : Origin(q)'
  BY <1>1, <1>5, <1>6, <1>7, FetchIs
<1>9. d \in AllDeps /\ e \in Lines
  BY <1>1, <1>5, <1>6, <1>8, EntryIs DEF ProjectTypes
<1>10. PICK M : M = Append(L, e)
  OBVIOUS
<1>11. dev' = Idle \/ (c # NoClone /\ dev' = [pc |-> "build", todo |-> R, out |-> M])
  <2>1. CASE c = NoClone
    BY <1>6, <2>1
  <2>2. CASE c # NoClone
    <3>1. dev' = [dev EXCEPT !.todo = R, !.out = M]
      BY <1>2, <1>4, <1>6, <1>10, <2>2
    <3>2. dev = [pc |-> "build", todo |-> T, out |-> L]
      BY <1>2
    <3>3. dev' = [pc |-> "build", todo |-> R, out |-> M]
      BY <3>1, <3>2
    <3> QED
      BY <2>2, <3>3
  <2> QED
    BY <2>1, <2>2
<1>12. ProjectTypes'
  <2>1. M \in Seq(Lines)
    BY <1>2, <1>9, <1>10
  <2>2. dev' \in Commands'
    BY <1>5, <1>7, <1>11, <2>1 DEF Commands
  <2> QED
    BY <1>1, <1>7, <1>8, <2>2 DEF ProjectTypes
<1>13. Working'
  <2>1. CASE dev' = Idle
    BY <2>1 DEF Working, Idle
  <2>2. CASE c # NoClone /\ dev' = [pc |-> "build", todo |-> R, out |-> M]
    <3>1. k \in 0..Len(manifest)
      BY <1>5
    <3>2. Made(L, k)'
      BY <1>1, <1>3, <1>7, <1>8, <3>1, MadeKept
    <3>3. Made(M, j)'
      BY <1>0, <1>1, <1>2, <1>5, <1>6, <1>7, <1>8, <1>9, <1>10, <2>2, <3>2, MadeWith
    <3>4. Left(R, j)'
      BY <1>5, <1>7 DEF Left
    <3>5. dev'.pc = "build" /\ dev'.todo = R /\ dev'.out = M
      BY <2>2
    <3> QED
      BY <1>0, <3>3, <3>4, <3>5 DEF Working
  <2> QED
    BY <1>11, <2>1, <2>2
<1>14. Locked'
  BY <1>2, <1>7, <1>8, LockedKept
<1>15. PICK K : K = lock
  OBVIOUS
<1>16. HonestLines(K)'
  BY <1>1, <1>7, <1>15, HonestKept DEF LockInv, ProjectTypes
<1>17. NamedOnce(manifest)'
  BY <1>1, <1>7 DEF NamedOnce
<1> QED
  BY <1>7, <1>8, <1>12, <1>13, <1>14, <1>15, <1>16, <1>17 DEF LockInv, HonestLines

LEMMA BuildDoneInv ==
  ASSUME LockInv, BuildDone
  PROVE  LockInv'
<1>1. dev.pc = "build" /\ dev' = Idle /\ UNCHANGED <<project, cache, head, crashes>>
  BY DEF BuildDone
<1>2. dev' \in Commands /\ Working'
  BY <1>1 DEF Commands, Working, Idle
<1>3. Locked'
  BY <1>1, LockedKept DEF Grown, project
<1> QED
  BY <1>1, <1>2, <1>3, DevStep

(* A command that is killed leaves a file that is cut short, or a clone    *)
(* that is broken, and notes it.                                           *)
LEMMA InterruptInv ==
  ASSUME LockInv, Interrupt
  PROVE  LockInv'
<1>1. ProjectTypes /\ NamedOnce(manifest) /\ \A k \in Keys : Origin(k)
  BY DEF LockInv
<1>2. /\ dev # Idle /\ dev' = Idle /\ crashes' = crashes + 1 /\ head' = head
      /\ crashes' \in Nat /\ crashes <= crashes'
  BY <1>1 DEF Interrupt, ProjectTypes
<1>3. PICK m \in Seq(asked), L \in Seq(Lines) :
        /\ manifest' = m /\ NamedOnce(m) /\ lock' = L /\ HonestLines(L)
        /\ UNCHANGED <<asked, here, skipped>>
        /\ UNCHANGED cache \/ \E d \in asked : InClone(d)
        /\ \/ stale' = TRUE
           \/ UNCHANGED <<manifest, lock, stale>> /\ dev.pc \in {"add", "build"}
  <2>1. CASE dev.pc = "add"
    <3>1. InClone(dev.dep) /\ dev.dep \in asked /\ UNCHANGED project
      BY <1>1, <2>1, CommandIs DEF Interrupt
    <3> QED
      BY <2>1, <3>1 DEF project, LockInv, ProjectTypes
  <2>2. CASE dev.pc = "toml"
    <3>1. /\ manifest' \in {manifest} \cup FirstOf(dev.deps) /\ stale' = TRUE
          /\ UNCHANGED <<lock, asked, here, skipped, cache>>
      BY <2>2 DEF Interrupt
    <3>2. dev.deps \in Seq(asked) /\ NamedOnce(dev.deps)
      BY <1>1, <2>2, CommandIs DEF LockInv, Working
    <3>3. manifest' \in Seq(asked) /\ NamedOnce(manifest')
      <4>1. CASE manifest' = manifest
        BY <1>1, <4>1 DEF ProjectTypes
      <4>2. CASE manifest' \in FirstOf(dev.deps)
        BY <3>2, <4>2, FirstOfIs DEF NamedOnce
      <4> QED
        BY <3>1, <4>1, <4>2
    <3> QED
      BY <3>1, <3>3 DEF LockInv, ProjectTypes
  <2>3. CASE dev.pc = "lock" /\ dev.todo = <<>>
    <3>1. /\ lock' \in {lock} \cup FirstOf(dev.out) /\ stale' = TRUE
          /\ UNCHANGED <<manifest, asked, here, skipped, cache>>
      BY <2>3 DEF Interrupt
    <3>2. dev.out \in Seq(Lines) /\ HonestLines(dev.out)
      BY <1>1, <2>3, CommandIs DEF LockInv, Working
    <3>3. lock' \in Seq(Lines) /\ HonestLines(lock')
      <4>1. CASE lock' = lock
        BY <4>1 DEF LockInv, ProjectTypes
      <4>2. CASE lock' \in FirstOf(dev.out)
        BY <3>2, <4>2, FirstOfIs DEF HonestLines
      <4> QED
        BY <3>1, <4>1, <4>2
    <3> QED
      BY <1>1, <3>1, <3>3 DEF ProjectTypes
  <2>4. CASE dev.pc = "lock" /\ dev.todo # <<>>
    <3>1. /\ InClone(Head(dev.todo)) /\ stale' = TRUE
          /\ UNCHANGED <<manifest, lock, asked, here, skipped>>
      BY <2>4 DEF Interrupt
    <3>2. Head(dev.todo) \in asked
      BY <1>1, <2>4, CommandIs
    <3> QED
      BY <3>1, <3>2 DEF LockInv, ProjectTypes
  <2>5. CASE dev.pc = "build" /\ dev.todo # <<>>
    <3>1. InClone(Head(dev.todo)) /\ UNCHANGED project
      BY <2>5 DEF Interrupt
    <3>2. Head(dev.todo) \in asked
      BY <1>1, <2>5, CommandIs
    <3> QED
      BY <2>5, <3>1, <3>2 DEF project, LockInv, ProjectTypes
  <2>6. CASE dev.pc = "build" /\ dev.todo = <<>>
    <3>1. UNCHANGED <<project, cache>>
      BY <2>6 DEF Interrupt
    <3> QED
      BY <2>6, <3>1 DEF project, LockInv, ProjectTypes
  <2> QED
    BY <1>1, <1>2, <2>1, <2>2, <2>3, <2>4, <2>5, <2>6 DEF ProjectTypes, Commands
<1>4. cache' \in [Keys -> Clones] /\ Grown /\ \A k \in Keys : Origin(k)'
  <2>1. CASE UNCHANGED cache
    BY <1>1, <1>2, <1>3, <2>1, OriginKept DEF Grown, ProjectTypes
  <2>2. CASE \E d \in asked : InClone(d)
    BY <1>1, <1>2, <1>3, <2>2, InCloneIs
  <2> QED
    BY <1>3, <2>1, <2>2
<1>5. ProjectTypes'
  BY <1>1, <1>2, <1>3, <1>4 DEF ProjectTypes, Commands
<1>6. Working'
  BY <1>2 DEF Working, Idle
<1>7. Locked'
  <2>1. CASE stale' = TRUE
    BY <2>1 DEF Locked
  <2>2. CASE UNCHANGED <<manifest, lock, stale>> /\ dev.pc \in {"add", "build"}
    BY <1>3, <1>4, <2>2, LockedKept
  <2> QED
    BY <1>3, <2>1, <2>2
<1>8. HonestLines(L)'
  BY <1>1, <1>2, <1>3, HonestKept
<1>9. NamedOnce(manifest)'
  BY <1>3 DEF NamedOnce
<1> QED
  BY <1>3, <1>4, <1>5, <1>6, <1>7, <1>8, <1>9 DEF LockInv, HonestLines

-----------------------------------------------------------------------------
LEMMA LockNext == Inv /\ LockInv /\ [Next]_vars => LockInv'
<1> SUFFICES ASSUME Inv, LockInv, [Next]_vars PROVE LockInv'
  OBVIOUS
<1>1. ProjectTypes
  BY DEF LockInv
<1>2. CASE AddUrl
  BY <1>2, AskInv DEF AddUrl, AllDeps
<1>3. CASE AddName
  <2>1. PICK p \in DOMAIN index : dev = Idle /\ index # Torn /\ Ask(Published(p, index[p]))
    BY <1>3 DEF AddName
  <2>2. p \in DOMAIN Home /\ index[p] \in 1..MaxVersions
    <3>1. PICK P \in SUBSET Packs : index \in [P -> 1..MaxVersions]
      BY <2>1 DEF Inv, RegistryTypes, Indexes, Maps
    <3> QED
      BY <2>1, <3>1 DEF Packs
  <2>3. Published(p, index[p]) \in AllDeps
    BY <2>2 DEF AllDeps
  <2> QED
    BY <2>1, <2>3, AskInv
<1>4. CASE AddFetch \/ RemoveDep \/ WriteToml \/ LockFetch \/ WriteLock
  BY <1>4, AddFetchInv, RemoveDepInv, WriteTomlInv, LockFetchInv, WriteLockInv
<1>5. CASE Build \/ BuildFetch \/ BuildDone \/ Interrupt
  BY <1>5, BuildInv, BuildFetchInv, BuildDoneInv, InterruptInv
<1>6. CASE \E u \in Urls : Push(u)
  <2>1. PICK u \in Urls : /\ head' = [head EXCEPT ![u] = @ + 1]
                          /\ UNCHANGED <<project, cache, dev, registry, crashes>>
    BY <1>6 DEF Push
  <2>2. head' \in [Urls -> Nat] /\ crashes' \in Nat /\ crashes <= crashes'
    BY <1>1, <2>1 DEF ProjectTypes
  <2> QED
    BY <2>1, <2>2, SameDev
<1>7. CASE \E p \in DOMAIN Home : PubRead(p) \/ PubTruncate(p) \/ PubWrite(p) \/ PubInterrupt(p)
  <2>1. /\ UNCHANGED <<project, cache, dev, head>>
        /\ crashes' = crashes \/ crashes' = crashes + 1
    BY <1>7 DEF PubRead, PubTruncate, PubWrite, PubInterrupt
  <2>2. head' \in [Urls -> Nat] /\ crashes' \in Nat /\ crashes <= crashes'
    BY <1>1, <2>1 DEF ProjectTypes
  <2> QED
    BY <2>1, <2>2, SameDev
<1>8. CASE UNCHANGED vars
  <2>1. UNCHANGED <<project, cache, dev, head, crashes>>
    BY <1>8 DEF vars
  <2>2. head' \in [Urls -> Nat] /\ crashes' \in Nat /\ crashes <= crashes'
    BY <1>1, <2>1 DEF ProjectTypes
  <2> QED
    BY <2>1, <2>2, SameDev
<1> QED
  BY <1>2, <1>3, <1>4, <1>5, <1>6, <1>7, <1>8 DEF Next

LEMMA AllInvs == Spec => [](Inv /\ LockInv)
<1>1. Init => Inv /\ LockInv
  BY InitInv, LockInit
<1>2. Inv /\ LockInv /\ [Next]_vars => (Inv /\ LockInv)'
  BY NextInv, LockNext
<1> QED
  BY <1>1, <1>2, PTL DEF Spec

(* vader.toml never names a package twice, and whatever is added, replaced *)
(* and removed, for any dependencies and however many fetches fail,        *)
(* vader.lock has an entry for each line of vader.toml that could be       *)
(* cloned, in its order, and no other, unless a command was interrupted    *)
(* between the two files (cmd_add, cmd_remove, write_lock).                *)
THEOREM LockFollows == Spec => []LockFollowsManifest
<1>1. LockInv => LockFollowsManifest
  BY PlacedFollows DEF LockInv, Locked, LockFollowsManifest
<1> QED
  BY <1>1, AllInvs, PTL

(* A commit in vader.lock comes from the repository it is listed under, or *)
(* from another one that was asked for under the same name and version     *)
(* (the directory of a clone has no trace of its URL), or from a clone     *)
(* that was interrupted: fetch cannot go wrong in any other way.           *)
THEOREM LockTellsTheTruth == Spec => []LockTruthful
<1>1. LockInv => LockTruthful
  <2> SUFFICES ASSUME LockInv, NEW e \in ToSet(lock)
               PROVE  \/ e.commit.url = e.url
                      \/ e.commit = Broken /\ crashes > 0
                      \/ \E d, o \in asked : /\ d.url = e.url /\ o.url = e.commit.url
                                             /\ d.name = e.name /\ o.name = e.name
                                             /\ d.version = o.version
    BY DEF LockTruthful
  <2>1. PICK i \in DOMAIN lock : e = lock[i]
    BY DEF ToSet
  <2> QED
    BY <2>1 DEF LockInv, HonestLines, Honest
<1> QED
  BY <1>1, AllInvs, PTL

(* On the machine that wrote vader.lock, a build that ends is made of the  *)
(* commits in it, however far upstream has moved since and however often   *)
(* commands were interrupted before the lock was written: builds do not    *)
(* read vader.lock, but a clone that is there is never changed.            *)
THEOREM BuildsFollowTheLock == Spec => BuildMatchesLock
<1>1. LockInv /\ BuildDone /\ here /\ ~stale /\ skipped = {} => dev.out = lock
  <2> SUFFICES ASSUME LockInv, BuildDone, here, ~stale, skipped = {}
               PROVE  dev.out = lock
    OBVIOUS
  <2>1. ProjectTypes /\ dev.pc = "build" /\ dev.todo = <<>>
    BY DEF LockInv, BuildDone
  <2>2. PICK k \in Nat : Left(dev.todo, k) /\ Made(dev.out, k)
    BY <2>1 DEF LockInv, Working
  <2>3. k = Len(manifest)
    BY <2>1, <2>2 DEF Left, ProjectTypes
  <2>4. Made(lock, k)
    BY <2>1, <2>3 DEF LockInv, Locked
  <2>5. dev.out \in Seq(Lines) /\ lock \in Seq(Lines)
    BY <2>1, CommandIs DEF ProjectTypes
  <2>6. Len(dev.out) = Len(lock) /\ \A i \in 1..Len(lock) : dev.out[i] = lock[i]
    BY <2>2, <2>4 DEF Made
  <2> QED
    BY <2>5, <2>6, SeqEqual
<1>2. LockInv /\ [Next]_vars =>
        [BuildDone /\ here /\ ~stale /\ skipped = {} => dev.out = lock]_vars
  BY <1>1
<1> QED
  BY <1>2, AllInvs, PTL DEF Spec, BuildMatchesLock
=============================================================================
