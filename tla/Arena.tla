-------------------------------- MODULE Arena --------------------------------
(***************************************************************************)
(* The region allocator of src/runtime/vader_mem.c, one thread of it       *)
(* (g_cur is thread-local), driven by what calls it:                       *)
(*                                                                         *)
(*   - the loops the LLVM backend wraps in an arena: vader_scope before    *)
(*     the loop, vader_reset at the end of each iteration, vader_release   *)
(*     after it;                                                           *)
(*   - the program's own mem.scope() / mem.release(a), last opened first   *)
(*     released inside the iteration that opened them.  A program may also *)
(*     forget to release.                                                  *)
(*                                                                         *)
(* Sizes are counted in units of 16 bytes, the alignment of vader_alloc.   *)
(***************************************************************************)
EXTENDS Integers, Sequences, FiniteSets

CONSTANTS
  Arenas,      \* the Arena objects malloc can return
  NoArena,     \* the null pointer
  Asks,        \* sizes in bytes the program asks for
  BlockUnits,  \* units of an ordinary block (65536 bytes in the code)
  MaxBlocks    \* bound: no allocation once an arena holds this many blocks

ASSUME ArenaAssumption ==
  /\ NoArena \notin Arenas
  /\ Asks \subseteq Int
  /\ BlockUnits \in Nat \ {0}
  /\ MaxBlocks \in Nat

VARIABLES
  arena,   \* the Arena structs: in use or not, prev, blocks (the head last)
  cur,     \* g_cur
  frames,  \* the scopes the program has open, innermost last
  held     \* the allocations of the open scopes: where each one lies

vars == <<arena, cur, frames, held>>

-----------------------------------------------------------------------------
Units(n) == (IF n > 0 THEN n + 15 ELSE 16) \div 16

NewBlock(sz) == [used |-> 0, cap |-> IF sz > BlockUnits THEN sz ELSE BlockUnits]

(* Mutant of HeadHasRoom: what is left is not compared with the size. *)
HeadHasSomeRoom(blocks, sz) ==
  blocks # <<>> /\ blocks[Len(blocks)].used < blocks[Len(blocks)].cap

HeadHasRoom(blocks, sz) ==
  /\ blocks # <<>>
  /\ blocks[Len(blocks)].used + sz <= blocks[Len(blocks)].cap

(* Mutant of Bump: the new block replaces the list instead of heading it. *)
BumpReplaces(blocks, sz) ==
  LET bs == IF HeadHasRoom(blocks, sz) THEN blocks ELSE <<NewBlock(sz)>>
  IN  [bs EXCEPT ![Len(bs)].used = @ + sz]

(* The block list after an allocation: bump the head, or push a new one. *)
Bump(blocks, sz) ==
  LET bs == IF HeadHasRoom(blocks, sz) THEN blocks ELSE Append(blocks, NewBlock(sz))
  IN  [bs EXCEPT ![Len(bs)].used = @ + sz]

(* Mutant of Rewind: the blocks stay used. *)
RewindNothing(blocks) == blocks

Rewind(blocks) == [i \in DOMAIN blocks |-> [blocks[i] EXCEPT !.used = 0]]

Fresh == [live |-> FALSE, prev |-> NoArena, blocks |-> <<>>, most |-> 0, now |-> 0]

Init ==
  /\ arena  = [a \in Arenas |-> Fresh]
  /\ cur    = NoArena
  /\ frames = <<>>
  /\ held   = {}

Depth == Len(frames)
Top   == frames[Depth]

(* What the scopes above depth d allocated is garbage from now on. *)
Forget(d) == held' = {o \in held : o.depth <= d}

-----------------------------------------------------------------------------
(* vader_scope *)
Scope(kind) ==
  \E a \in Arenas :
    /\ ~arena[a].live
    /\ arena'  = [arena EXCEPT ![a] = [Fresh EXCEPT !.live = TRUE, !.prev = cur]]
    /\ cur'    = a
    /\ frames' = Append(frames, [kind |-> kind, arena |-> a])
    /\ UNCHANGED held

(* vader_alloc; without an arena it is malloc and the program's own affair. *)
Alloc(n) ==
  LET sz == Units(n)
      bs == Bump(arena[cur].blocks, sz)
  IN
  /\ cur # NoArena
  /\ Len(arena[cur].blocks) < MaxBlocks
  /\ arena' = [arena EXCEPT ![cur].blocks = bs,
                            ![cur].now    = @ + sz,
                            ![cur].most   = IF arena[cur].now + sz > @
                                            THEN arena[cur].now + sz ELSE @]
  /\ held' = held \cup {[arena |-> cur, block |-> Len(bs),
                         off |-> bs[Len(bs)].used - sz, size |-> sz,
                         depth |-> Depth]}
  /\ UNCHANGED <<cur, frames>>

(* Mutant of Reset: g_cur stays at a scope the body forgot to release. *)
ResetKeepsCur(a) ==
  /\ arena' = [arena EXCEPT ![a].blocks = Rewind(@), ![a].now = 0]
  /\ UNCHANGED cur

(* vader_reset *)
Reset(a) ==
  /\ arena' = [arena EXCEPT ![a].blocks = Rewind(@), ![a].now = 0]
  /\ cur'   = a

(* vader_release *)
Release(a) ==
  /\ arena' = [arena EXCEPT ![a] = Fresh]
  /\ cur'   = IF cur = a THEN arena[a].prev ELSE cur

-----------------------------------------------------------------------------
(* The compiled loop: the end of an iteration at depth d drops the scopes  *)
(* the body left open, whose arenas stay allocated for ever.               *)
Loops == {d \in 1 .. Depth : frames[d].kind = "loop"}

EndIteration ==
  \E d \in Loops :
    /\ \A e \in Loops : e <= d
    /\ Reset(frames[d].arena)
    /\ frames' = SubSeq(frames, 1, d)
    /\ Forget(d - 1)

LoopExit ==
  /\ Depth > 0
  /\ Top.kind = "loop"
  /\ Release(Top.arena)
  /\ frames' = SubSeq(frames, 1, Depth - 1)
  /\ Forget(Depth - 1)

(* mem.release(a) of the innermost scope. *)
UserRelease ==
  /\ Depth > 0
  /\ Top.kind = "user"
  /\ Release(Top.arena)
  /\ frames' = SubSeq(frames, 1, Depth - 1)
  /\ Forget(Depth - 1)

Next ==
  \/ Scope("loop") \/ Scope("user")
  \/ \E n \in Asks : Alloc(n)
  \/ EndIteration
  \/ LoopExit
  \/ UserRelease

Spec == Init /\ [][Next]_vars

-----------------------------------------------------------------------------
TypeOK ==
  /\ DOMAIN arena = Arenas
  /\ \A a \in Arenas :
       /\ arena[a].live \in BOOLEAN
       /\ arena[a].prev \in Arenas \cup {NoArena}
       /\ arena[a].most \in Nat /\ arena[a].now \in Nat
       /\ \A i \in 1 .. Len(arena[a].blocks) :
            LET b == arena[a].blocks[i] IN
            b.cap \in Nat /\ b.used \in 0 .. b.cap
  /\ cur \in Arenas \cup {NoArena}
  /\ frames \in Seq([kind : {"loop", "user"}, arena : Arenas])

(* The current arena is always that of the innermost open scope (or none), *)
(* so an allocation lives exactly as long as the scope it is written in.   *)
(* vader_reset has to restore g_cur when the body forgot a release, and    *)
(* vader_release finds the enclosing arena through prev only.              *)
CurIsTop == cur = IF frames = <<>> THEN NoArena ELSE Top.arena

(* What an open scope allocated stays where it is, inside its block and    *)
(* apart from everything else that is still in use, however many inner     *)
(* iterations are reset and inner scopes released meanwhile.               *)
HeldIntact ==
  /\ \A o \in held :
       /\ arena[o.arena].live
       /\ o.block <= Len(arena[o.arena].blocks)
       /\ o.off + o.size <= arena[o.arena].blocks[o.block].used
  /\ \A o, p \in held :
       o # p /\ o.arena = p.arena /\ o.block = p.block =>
         o.off + o.size <= p.off \/ p.off + p.size <= o.off

(* "Reuses the arena": while no iteration needs more than one block, the   *)
(* loop keeps the first block it got and never asks malloc for another.    *)
OneBlockIsEnough ==
  \A a \in Arenas : arena[a].most <= BlockUnits => Len(arena[a].blocks) <= 1

(* "Bounded memory" (vader_http.c): what an arena holds is bounded by its  *)
(* largest iteration, here by a block for each unit that one allocated.    *)
BoundedMemory ==
  \A a \in Arenas : Len(arena[a].blocks) <= arena[a].most
=============================================================================
