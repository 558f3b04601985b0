------------------------------ MODULE Packages ------------------------------
(***************************************************************************)
(* The package manager: `vader add`, `vader remove`, the fetching of       *)
(* dependencies by a build, and `vader publish` (src/src/pkg.rs and the    *)
(* commands in src/src/main.rs).                                           *)
(*                                                                         *)
(* A developer runs one command after the other in one project, which may  *)
(* be the checkout of a colleague's; his clones are cached per user, by    *)
(* name and version, and never looked at again once they are there.        *)
(* Publishers, at the same time, register packages in one registry         *)
(* directory.  Any command may be interrupted; upstream repositories move  *)
(* on.  A file is truncated and then written, so an interrupted command    *)
(* leaves the lines it got to.                                             *)
(***************************************************************************)
EXTENDS Integers, Sequences, SequencesExt

CONSTANTS
  Deps,         \* the [name, url, version] the developer may ask for by URL
  Home,         \* the URL of each package that may be published
  MaxVersions,  \* bound on the versions of a published package
  MaxPushes,    \* bound on the commits pushed to a repository
  MaxCrashes    \* bound on interrupted commands

ASSUME PackagesAssumption ==
  /\ \A d \in Deps : d.version \in Nat
  /\ MaxVersions \in Nat /\ MaxPushes \in Nat /\ MaxCrashes \in Nat

(* Version 0 stands for none; the others are tags.                         *)
Published(p, v) == [name |-> p, url |-> Home[p], version |-> v]
AllDeps == Deps \cup {Published(p, v) : p \in DOMAIN Home, v \in 1..MaxVersions}
Names == {d.name : d \in AllDeps}
Urls  == {d.url : d \in {e \in AllDeps : e.version = 0}}   \* asked for at their default branch

VARIABLES
  manifest,  \* the dependencies in vader.toml
  lock,      \* the entries of vader.lock
  cache,     \* ~/.vader/pkg
  head,      \* how far the default branch of each repository has moved
  dev,       \* the command the developer runs
  asked,     \* every dependency the developer asked for
  stale,     \* whether a command was interrupted between vader.toml and vader.lock
  here,      \* whether vader.lock was written on this machine
  skipped,   \* the dependencies it lacks because they could not be cloned
  index,     \* the registry's index.json: a version by package, or Torn
  pub,       \* the publish command of each package
  latest,    \* the version each package last published
  overlap,   \* whether an index was replaced that was not the one read
  crashes

project  == <<manifest, lock, asked, stale, here, skipped>>
registry == <<index, pub, latest, overlap>>
vars     == <<project, cache, head, dev, registry, crashes>>

NoClone == [url |-> "none", at |-> 0]
Broken  == [url |-> "none", at |-> 1]    \* a clone that was interrupted
Torn    == [p \in {"torn"} |-> 0]
Idle    == [pc |-> "idle"]

(* Mutant of Key: one directory per name. *)
KeyByName(d) == <<d.name>>

(* dep_dir *)
Key(d) == <<d.name, d.version>>

(* A clone of a dependency now: a tag stays where it is.                   *)
Tip(d) == [url |-> d.url, at |-> IF d.version = 0 THEN head[d.url] ELSE -d.version]

(* Mutant of Fetched: a clone that is there is brought up to date. *)
FetchedAnew(d) == {Tip(d), NoClone}

(* fetch: what may be in the cache afterwards; with NoClone it failed.     *)
Fetched(d) == IF cache[Key(d)] # NoClone THEN {cache[Key(d)]} ELSE {Tip(d), NoClone}

Entry(d, c) == [name |-> d.name, url |-> d.url, commit |-> c]

Init ==
  /\ \E m \in {<<>>} \cup {<<d>> : d \in Deps} :
       /\ head = [u \in Urls |-> 0]
       /\ manifest = m /\ asked = ToSet(m)
       /\ lock = [i \in DOMAIN m |-> Entry(m[i], Tip(m[i]))]
       /\ here = (m = <<>>)
  /\ stale = FALSE /\ skipped = {}
  /\ cache = [k \in {Key(d) : d \in AllDeps} |-> NoClone]
  /\ dev = Idle
  /\ index = [p \in {} |-> 0] /\ pub = [p \in DOMAIN Home |-> Idle]
  /\ latest = [p \in DOMAIN Home |-> 0] /\ overlap = FALSE
  /\ crashes = 0

(***************************************************************************)
(* The developer's commands.                                               *)
(***************************************************************************)
Ask(d) ==
  /\ dev' = [pc |-> "add", dep |-> d] /\ asked' = asked \cup {d}
  /\ UNCHANGED <<manifest, lock, stale, here, skipped, cache, head, registry, crashes>>

(* cmd_add with a URL.                                                     *)
AddUrl == dev = Idle /\ \E d \in Deps : Ask(d)

(* cmd_add with a name: registry_lookup; an index that cannot be parsed or *)
(* lacks the name ends the command.                                        *)
AddName ==
  /\ dev = Idle /\ index # Torn
  /\ \E p \in DOMAIN index : Ask(Published(p, index[p]))

(* The retain of cmd_add and cmd_remove.  vader.toml names a package once  *)
(* (LockFollowsManifest), so that it drops one at most.                    *)
Without(deps, n) ==
  IF \E i \in DOMAIN deps : deps[i].name = n
  THEN RemoveAt(deps, CHOOSE i \in DOMAIN deps : deps[i].name = n)
  ELSE deps

AddFetch ==
  /\ dev.pc = "add"
  /\ \E c \in Fetched(dev.dep) :
       /\ cache' = [cache EXCEPT ![Key(dev.dep)] = c]
       /\ dev' = IF c = NoClone THEN Idle
                 ELSE [pc |-> "toml",
                       deps |-> Append(Without(manifest, dev.dep.name), dev.dep)]
  /\ UNCHANGED <<project, head, registry, crashes>>

RemoveDep ==
  /\ dev = Idle
  /\ \E n \in {d.name : d \in ToSet(manifest)} :
       dev' = [pc |-> "toml", deps |-> Without(manifest, n)]
  /\ UNCHANGED <<project, cache, head, registry, crashes>>

(* Mutant of WriteToml: the lock is made of the dependencies that were read. *)
WriteTomlThenOld ==
  /\ dev.pc = "toml"
  /\ manifest' = dev.deps
  /\ dev' = [pc |-> "lock", todo |-> manifest, out |-> <<>>, miss |-> {}]
  /\ UNCHANGED <<lock, asked, stale, here, skipped, cache, head, registry, crashes>>

WriteToml ==
  /\ dev.pc = "toml"
  /\ manifest' = dev.deps
  /\ dev' = [pc |-> "lock", todo |-> dev.deps, out |-> <<>>, miss |-> {}]
  /\ UNCHANGED <<lock, asked, stale, here, skipped, cache, head, registry, crashes>>

(* write_lock fetches every dependency and leaves out what it cannot.      *)
LockFetch ==
  /\ dev.pc = "lock" /\ dev.todo # <<>>
  /\ LET d == Head(dev.todo) IN \E c \in Fetched(d) :
       /\ cache' = [cache EXCEPT ![Key(d)] = c]
       /\ dev' = IF c = NoClone
                 THEN [dev EXCEPT !.todo = Tail(@), !.miss = @ \cup {d.name}]
                 ELSE [dev EXCEPT !.todo = Tail(@), !.out = Append(@, Entry(d, c))]
  /\ UNCHANGED <<project, head, registry, crashes>>

WriteLock ==
  /\ dev.pc = "lock" /\ dev.todo = <<>>
  /\ lock' = dev.out /\ skipped' = dev.miss
  /\ stale' = FALSE /\ here' = TRUE
  /\ dev' = Idle
  /\ UNCHANGED <<manifest, asked, cache, head, registry, crashes>>

(* module::load of a build: every dependency is fetched; one that fails    *)
(* ends it.                                                                *)
Build ==
  /\ dev = Idle /\ manifest # <<>>
  /\ dev' = [pc |-> "build", todo |-> manifest, out |-> <<>>]
  /\ UNCHANGED <<project, cache, head, registry, crashes>>

BuildFetch ==
  /\ dev.pc = "build" /\ dev.todo # <<>>
  /\ LET d == Head(dev.todo) IN \E c \in Fetched(d) :
       /\ cache' = [cache EXCEPT ![Key(d)] = c]
       /\ dev' = IF c = NoClone THEN Idle
                 ELSE [dev EXCEPT !.todo = Tail(@), !.out = Append(@, Entry(d, c))]
  /\ UNCHANGED <<project, head, registry, crashes>>

BuildDone ==
  /\ dev.pc = "build" /\ dev.todo = <<>>
  /\ dev' = Idle
  /\ UNCHANGED <<project, cache, head, registry, crashes>>

(* The command is killed: in a clone, in the writing of vader.toml or      *)
(* vader.lock, or before.                                                  *)
InClone(d) ==
  \/ cache' = cache
  \/ cache[Key(d)] = NoClone /\ cache' = [cache EXCEPT ![Key(d)] = Broken]

FirstOf(s) == {SubSeq(s, 1, n) : n \in 0..Len(s)}

Interrupt ==
  /\ dev # Idle /\ crashes < MaxCrashes
  /\ crashes' = crashes + 1 /\ dev' = Idle
  /\ CASE dev.pc = "add"  -> InClone(dev.dep) /\ UNCHANGED project
       [] dev.pc = "toml" -> /\ manifest' \in {manifest} \cup FirstOf(dev.deps)
                             /\ stale' = TRUE
                             /\ UNCHANGED <<lock, asked, here, skipped, cache>>
       [] dev.pc = "lock" /\ dev.todo = <<>> ->
                             /\ lock' \in {lock} \cup FirstOf(dev.out)
                             /\ stale' = TRUE
                             /\ UNCHANGED <<manifest, asked, here, skipped, cache>>
       [] dev.pc = "lock" /\ dev.todo # <<>> ->
                             /\ InClone(Head(dev.todo)) /\ stale' = TRUE
                             /\ UNCHANGED <<manifest, lock, asked, here, skipped>>
       [] dev.pc = "build" /\ dev.todo # <<>> -> InClone(Head(dev.todo)) /\ UNCHANGED project
       [] OTHER -> UNCHANGED <<project, cache>>
  /\ UNCHANGED <<head, registry>>

(***************************************************************************)
(* The repositories and the publishers.                                    *)
(***************************************************************************)
Push(u) ==
  /\ head[u] < MaxPushes
  /\ head' = [head EXCEPT ![u] = @ + 1]
  /\ UNCHANGED <<project, cache, dev, registry, crashes>>

(* registry_publish reads the index (one that cannot be read or parsed is  *)
(* taken to be empty), ...                                                 *)
PubRead(p) ==
  /\ pub[p] = Idle /\ latest[p] < MaxVersions
  /\ pub' = [pub EXCEPT ![p] = [pc |-> "write", read |-> index]]
  /\ UNCHANGED <<project, cache, dev, head, index, latest, overlap, crashes>>

(* ... truncates it ...                                                    *)
PubTruncate(p) ==
  /\ pub[p].pc = "write"
  /\ index' = Torn
  /\ overlap' = (overlap \/ index # pub[p].read \/ index = Torn)
  /\ pub' = [pub EXCEPT ![p].pc = "close"]
  /\ UNCHANGED <<project, cache, dev, head, latest, crashes>>

(* Mutant of Registered: the other packages are dropped. *)
RegisteredAlone(p, read) == [q \in {p} |-> latest[p] + 1]

Registered(p, read) ==
  [q \in (IF read = Torn THEN {} ELSE DOMAIN read) \cup {p} |->
     IF q = p THEN latest[p] + 1 ELSE read[q]]

(* ... and writes it with the package added or replaced.                   *)
PubWrite(p) ==
  /\ pub[p].pc = "close"
  /\ index' = Registered(p, pub[p].read)
  /\ overlap' = (overlap \/ index # Torn)
  /\ latest' = [latest EXCEPT ![p] = @ + 1]
  /\ pub' = [pub EXCEPT ![p] = Idle]
  /\ UNCHANGED <<project, cache, dev, head, crashes>>

PubInterrupt(p) ==
  /\ pub[p] # Idle /\ crashes < MaxCrashes
  /\ crashes' = crashes + 1
  /\ pub' = [pub EXCEPT ![p] = Idle]
  /\ UNCHANGED <<project, cache, dev, head, index, latest, overlap>>

Next ==
  \/ AddUrl \/ AddName \/ AddFetch \/ RemoveDep \/ WriteToml \/ LockFetch \/ WriteLock
  \/ Build \/ BuildFetch \/ BuildDone \/ Interrupt
  \/ \E u \in Urls : Push(u)
  \/ \E p \in DOMAIN Home : PubRead(p) \/ PubTruncate(p) \/ PubWrite(p) \/ PubInterrupt(p)

Spec == Init /\ [][Next]_vars

(***************************************************************************)
(* Properties.                                                             *)
(***************************************************************************)
(* An entry for each dependency that could be cloned, in order.            *)
Follows(entries, deps) ==
  \E f \in [DOMAIN entries -> DOMAIN deps] :
    /\ \A i, j \in DOMAIN entries : i < j => f[i] < f[j]
    /\ \A i \in DOMAIN entries : /\ entries[i].name = deps[f[i]].name
                                 /\ entries[i].url = deps[f[i]].url
    /\ \A j \in DOMAIN deps :
         deps[j].name \notin skipped <=> \E i \in DOMAIN entries : f[i] = j

NamedOnce(deps) == \A i, j \in DOMAIN deps : deps[i].name = deps[j].name => i = j

(* vader.toml names a package once and vader.lock has the dependencies of  *)
(* vader.toml, in its order, unless a command was interrupted between the  *)
(* two files: no entry of a removed or replaced dependency stays, and the  *)
(* only ones missing are those that could not be cloned (main.rs:329-414,  *)
(* 510).                                                                   *)
LockFollowsManifest ==
  /\ NamedOnce(manifest)
  /\ dev.pc \in {"idle", "add", "build"} /\ ~stale => Follows(lock, manifest)

(* A commit in vader.lock is one of the repository it is listed under,     *)
(* unless the same name and version was once asked for under another URL,  *)
(* or a clone was interrupted: the cache does not notice either            *)
(* (pkg.rs:40).                                                            *)
LockTruthful ==
  \A e \in ToSet(lock) :
    \/ e.commit.url = e.url
    \/ e.commit = Broken /\ crashes > 0
    \/ \E d, o \in asked : /\ d.url = e.url /\ o.url = e.commit.url
                           /\ d.name = e.name /\ o.name = e.name /\ d.version = o.version

(* A build is made of the commits in vader.lock, however far upstream has  *)
(* moved, on the machine that wrote the lock: builds do not read it, the   *)
(* clones stay (pkg.rs:41).                                                *)
BuildMatchesLock ==
  [][BuildDone /\ here /\ ~stale /\ skipped = {} => dev.out = lock]_vars

(* The index has the last version of every package, unless two publishers  *)
(* overlapped or one was interrupted while it wrote (pkg.rs:221-242).      *)
NoLostPublish ==
  ~overlap /\ index # Torn =>
    \A p \in DOMAIN Home : latest[p] > 0 => p \in DOMAIN index /\ index[p] = latest[p]
=============================================================================
