----------------------------- MODULE ArenaProofs -----------------------------
(***************************************************************************)
(* Proofs about Arena, for any number of arenas, any sizes, any size of a  *)
(* block and scopes nested to any depth.                                   *)
(***************************************************************************)
EXTENDS Arena, TLAPS

LEMMA ConstantTypes == NoArena \notin Arenas /\ BlockUnits \in Nat
BY ArenaAssumption DEF ArenaAssumption

LEMMA ZeroOrOne == ASSUME NEW l \in Nat, l <= 1 PROVE l = 0 \/ l = 1
OBVIOUS

LEMMA Before ==
  ASSUME NEW n \in Nat, n >= 1, n # 1
  PROVE  n - 1 \in 1 .. n - 1 /\ n - 1 # 0
OBVIOUS

USE ConstantTypes

-----------------------------------------------------------------------------
Blocks == {b \in [used : Nat, cap : Nat] : b.used <= b.cap}
Structs ==
  [live : BOOLEAN, prev : Arenas \cup {NoArena}, blocks : Seq(Blocks), most : Nat, now : Nat]
Allocations ==
  [arena : Arenas, block : Nat \ {0}, off : Nat, size : Nat, depth : Nat]

(* The inductive invariant.  The types, ...                                *)
Types ==
  /\ arena \in [Arenas -> Structs]
  /\ cur \in Arenas \cup {NoArena}
  /\ frames \in Seq([kind : {"loop", "user"}, arena : Arenas])
  /\ held \in SUBSET Allocations

(* ... the open scopes: their arenas are in use, distinct, and linked by   *)
(* prev in the order in which they were opened, though arenas of scopes    *)
(* that were never released are still about; ...                           *)
Stack ==
  /\ CurIsTop
  /\ \A d \in 1 .. Len(frames) :
       /\ arena[frames[d].arena].live
       /\ arena[frames[d].arena].prev = IF d = 1 THEN NoArena ELSE frames[d - 1].arena
       /\ \A e \in 1 .. Len(frames) : frames[d].arena = frames[e].arena => d = e

(* ... what is allocated lies in the arena of the scope it was made in; ... *)
Owned ==
  \A o \in held : o.depth \in 1 .. Len(frames) /\ o.arena = frames[o.depth].arena

(* ... and, as long as no iteration needed more, an arena is one block, of *)
(* which exactly what was allocated is used.                               *)
Single(s) ==
  /\ s.now <= s.most
  /\ s.most <= BlockUnits =>
       /\ Len(s.blocks) <= 1
       /\ Len(s.blocks) = 0 => s.now = 0
       /\ Len(s.blocks) = 1 => s.blocks[1].used = s.now /\ s.blocks[1].cap >= BlockUnits

Inv == Types /\ Stack /\ Owned /\ HeldIntact /\ \A a \in Arenas : Single(arena[a])

-----------------------------------------------------------------------------
LEMMA SeqElements ==
  ASSUME NEW S, NEW q \in Seq(S)
  PROVE  Len(q) \in Nat /\ DOMAIN q = 1 .. Len(q) /\ \A i \in 1 .. Len(q) : q[i] \in S
OBVIOUS

LEMMA StructIs ==
  ASSUME NEW s \in Structs
  PROVE  /\ s = [live |-> s.live, prev |-> s.prev, blocks |-> s.blocks,
                 most |-> s.most, now |-> s.now]
         /\ s.live \in BOOLEAN /\ s.prev \in Arenas \cup {NoArena}
         /\ s.blocks \in Seq(Blocks) /\ s.most \in Nat /\ s.now \in Nat
BY DEF Structs

LEMMA FrameTypes ==
  ASSUME Types
  PROVE  Len(frames) \in Nat /\ \A d \in 1 .. Len(frames) : frames[d].arena \in Arenas
<1>1. frames \in Seq([kind : {"loop", "user"}, arena : Arenas])
  BY DEF Types
<1>2. Len(frames) \in Nat
      /\ \A d \in 1 .. Len(frames) : frames[d] \in [kind : {"loop", "user"}, arena : Arenas]
  BY <1>1, SeqElements
<1> QED
  BY <1>2

LEMMA UnitsPositive ==
  ASSUME NEW n \in Asks
  PROVE  Units(n) \in Nat /\ Units(n) >= 1
<1>1. n \in Int
  BY ArenaAssumption DEF ArenaAssumption
<1>2. (n + 15) \in Int /\ (n > 0 => (n + 15) \div 16 \in Nat /\ (n + 15) \div 16 >= 1)
  BY <1>1
<1>3. 16 \div 16 = 1
  OBVIOUS
<1> QED
  BY <1>2, <1>3 DEF Units

(* An allocation changes the head of the list, by its own size, or puts a  *)
(* new block there.                                                        *)
LEMMA BumpIs ==
  ASSUME NEW old \in Seq(Blocks), NEW sz \in Nat, sz >= 1
  PROVE  LET bs == Bump(old, sz) IN
         /\ bs \in Seq(Blocks)
         /\ HeadHasRoom(old, sz) =>
              /\ Len(old) >= 1 /\ Len(bs) = Len(old)
              /\ \A i \in 1 .. Len(old) : i # Len(old) => bs[i] = old[i]
              /\ bs[Len(old)].used = old[Len(old)].used + sz
              /\ bs[Len(old)].cap = old[Len(old)].cap
         /\ ~HeadHasRoom(old, sz) =>
              /\ Len(bs) = Len(old) + 1
              /\ \A i \in 1 .. Len(old) : bs[i] = old[i]
              /\ bs[Len(old) + 1].used = sz
              /\ bs[Len(old) + 1].cap >= BlockUnits
<1> DEFINE bs == Bump(old, sz)
           n  == Len(old)
<1>0. n \in Nat /\ \A i \in 1 .. n : old[i] \in Blocks
  OBVIOUS
<1>1. CASE HeadHasRoom(old, sz)
  <2>1. n >= 1 /\ old[n].used + sz <= old[n].cap /\ old[n] \in Blocks
    BY <1>0, <1>1 DEF HeadHasRoom
  <2>2. bs = [old EXCEPT ![n].used = @ + sz]
    BY <1>1 DEF Bump
  <2>3. [old[n] EXCEPT !.used = @ + sz] \in Blocks
    BY <2>1 DEF Blocks
  <2>4. bs = [old EXCEPT ![n] = [old[n] EXCEPT !.used = @ + sz]]
    BY <2>2
  <2> HIDE DEF bs
  <2>5. bs \in Seq(Blocks) /\ Len(bs) = n
    BY <1>0, <2>1, <2>3, <2>4
  <2>6. /\ \A i \in 1 .. n : i # n => bs[i] = old[i]
        /\ bs[n].used = old[n].used + sz /\ bs[n].cap = old[n].cap
    BY <1>0, <2>1, <2>4 DEF Blocks
  <2> QED
    BY <1>1, <2>1, <2>5, <2>6 DEF bs
<1>2. CASE ~HeadHasRoom(old, sz)
  <2> DEFINE b  == NewBlock(sz)
             ap == Append(old, b)
  <2>1. b.used = 0 /\ b.cap >= sz /\ b.cap >= BlockUnits /\ b \in [used : Nat, cap : Nat]
    BY DEF NewBlock
  <2>2. bs = [ap EXCEPT ![Len(ap)].used = @ + sz]
    BY <1>2 DEF Bump
  <2>3. b \in Blocks
    BY <2>1 DEF Blocks
  <2>4. /\ [b EXCEPT !.used = @ + sz] \in Blocks
        /\ [b EXCEPT !.used = @ + sz].used = sz
        /\ [b EXCEPT !.used = @ + sz].cap = b.cap
    BY <2>1 DEF Blocks
  <2> HIDE DEF b
  <2>5. /\ ap \in Seq(Blocks) /\ Len(ap) = n + 1 /\ ap[n + 1] = b
        /\ \A i \in 1 .. n : ap[i] = old[i]
    BY <1>0, <2>3
  <2> HIDE DEF ap
  <2>6. bs = [ap EXCEPT ![n + 1] = [b EXCEPT !.used = @ + sz]]
    BY <2>2, <2>5
  <2> HIDE DEF bs
  <2>7. bs \in Seq(Blocks) /\ Len(bs) = n + 1
    BY <1>0, <2>4, <2>5, <2>6
  <2>8. /\ \A i \in 1 .. n : bs[i] = old[i]
        /\ bs[n + 1] = [b EXCEPT !.used = @ + sz]
    BY <1>0, <2>5, <2>6
  <2> QED
    BY <1>2, <2>1, <2>4, <2>7, <2>8 DEF bs
<1> QED
  BY <1>1, <1>2

LEMMA FreshIs == Fresh \in Structs /\ Single(Fresh) /\ Fresh.now = 0 /\ Fresh.blocks = <<>>
<1>1. <<>> \in Seq(Blocks) /\ Len(<<>>) = 0
  OBVIOUS
<1> QED
  BY <1>1 DEF Fresh, Structs, Single

(* After a reset an arena has the blocks it had, with nothing used.        *)
LEMMA RewoundIs ==
  ASSUME NEW s \in Structs, Single(s)
  PROVE  LET r == [s EXCEPT !.blocks = Rewind(@), !.now = 0] IN
         r \in Structs /\ Single(r) /\ r.live = s.live /\ r.prev = s.prev
<1> DEFINE bs == Rewind(s.blocks)
           r  == [s EXCEPT !.blocks = Rewind(@), !.now = 0]
<1>1. s.blocks \in Seq(Blocks)
  BY DEF Structs
<1>2. /\ Len(s.blocks) \in Nat /\ DOMAIN s.blocks = 1 .. Len(s.blocks)
      /\ \A i \in 1 .. Len(s.blocks) : s.blocks[i] \in Blocks
  BY <1>1
<1>3. bs = [i \in 1 .. Len(s.blocks) |-> [s.blocks[i] EXCEPT !.used = 0]]
  BY <1>2 DEF Rewind
<1>4. \A i \in 1 .. Len(s.blocks) :
        /\ [s.blocks[i] EXCEPT !.used = 0] \in Blocks
        /\ [s.blocks[i] EXCEPT !.used = 0].used = 0
        /\ [s.blocks[i] EXCEPT !.used = 0].cap = s.blocks[i].cap
  BY <1>2 DEF Blocks
<1>5. bs \in Seq(Blocks) /\ Len(bs) = Len(s.blocks)
  BY <1>2, <1>3, <1>4
<1>6. \A i \in 1 .. Len(s.blocks) : bs[i].used = 0 /\ bs[i].cap = s.blocks[i].cap
  BY <1>2, <1>3, <1>4
<1> HIDE DEF bs
<1>7. /\ r \in Structs /\ r.blocks = bs /\ r.now = 0 /\ r.most = s.most
      /\ r.live = s.live /\ r.prev = s.prev
  <2>1. /\ r.blocks = Rewind(s.blocks) /\ r.now = 0 /\ r.most = s.most
        /\ r.live = s.live /\ r.prev = s.prev
    BY DEF Structs
  <2>2. \A b \in Seq(Blocks) : [s EXCEPT !.blocks = b, !.now = 0] \in Structs
    BY DEF Structs
  <2> QED
    BY <1>5, <2>1, <2>2 DEF bs
<1> HIDE DEF r
<1>8. Single(r)
  <2>1. /\ r.blocks = bs /\ r.now = 0 /\ r.most = s.most /\ s.most \in Nat /\ s.now \in Nat
    BY <1>7, StructIs
  <2>2. s.most <= BlockUnits => Len(bs) <= 1
    BY <1>5 DEF Single
  <2>3. s.most <= BlockUnits /\ Len(bs) = 1 => bs[1].used = 0 /\ bs[1].cap >= BlockUnits
    <3>1. Len(bs) = 1 => 1 \in 1 .. Len(s.blocks)
      BY <1>5
    <3> QED
      BY <1>5, <1>6, <3>1 DEF Single
  <2> QED
    BY <2>1, <2>2, <2>3 DEF Single
<1> QED
  BY <1>7, <1>8 DEF r

-----------------------------------------------------------------------------
LEMMA InitInv == Init => Inv
<1> SUFFICES ASSUME Init PROVE Inv
  OBVIOUS
<1>1. Types
  BY FreshIs DEF Init, Types
<1>2. Stack /\ Owned /\ HeldIntact
  BY DEF Init, Stack, CurIsTop, Owned, HeldIntact
<1>3. \A a \in Arenas : Single(arena[a])
  BY FreshIs DEF Init
<1> QED
  BY <1>1, <1>2, <1>3 DEF Inv

LEMMA ScopeInv ==
  ASSUME Inv, NEW k \in {"loop", "user"}, Scope(k)
  PROVE  Inv'
<1> DEFINE n == Len(frames)
<1>1. PICK a \in Arenas :
        /\ ~arena[a].live
        /\ arena' = [arena EXCEPT ![a] = [Fresh EXCEPT !.live = TRUE, !.prev = cur]]
        /\ cur' = a
        /\ frames' = Append(frames, [kind |-> k, arena |-> a])
        /\ held' = held
  BY DEF Scope
<1> DEFINE s == [Fresh EXCEPT !.live = TRUE, !.prev = cur]
<1>2. s \in Structs /\ Single(s) /\ s.live /\ s.prev = cur
  <2>1. cur \in Arenas \cup {NoArena}
    BY DEF Inv, Types
  <2>2. s \in Structs
    BY <2>1, FreshIs DEF Structs
  <2>3. s.live = TRUE /\ s.prev = cur /\ s.blocks = <<>> /\ s.now = 0 /\ s.most = 0
    BY <2>1 DEF Fresh
  <2>4. Len(<<>>) = 0
    OBVIOUS
  <2> HIDE DEF s
  <2> QED
    BY <2>2, <2>3, <2>4 DEF Single
<1> HIDE DEF s
<1>3. /\ arena \in [Arenas -> Structs] /\ n \in Nat
      /\ frames \in Seq([kind : {"loop", "user"}, arena : Arenas])
  BY DEF Inv, Types
<1>4. arena'[a] = s /\ \A b \in Arenas : b # a => arena'[b] = arena[b]
  BY <1>1, <1>3 DEF s
<1>5. Types'
  BY <1>1, <1>2, <1>3 DEF Inv, Types, s
<1>6. /\ Len(frames') = n + 1 /\ frames'[n + 1].arena = a
      /\ \A d \in 1 .. n : frames'[d] = frames[d] /\ frames[d].arena \in Arenas
  BY <1>1, <1>3, FrameTypes DEF Inv
<1>7. \A d \in 1 .. n : frames[d].arena # a
  BY <1>1 DEF Inv, Stack
<1>8. cur = IF n = 0 THEN NoArena ELSE frames[n].arena
  BY <1>3 DEF Inv, Stack, CurIsTop, Top, Depth
<1>9. Stack'
  <2>1. CurIsTop'
    BY <1>1, <1>3, <1>6 DEF CurIsTop, Top, Depth
  <2>2. ASSUME NEW d \in 1 .. n
        PROVE  /\ arena'[frames'[d].arena].live
               /\ arena'[frames'[d].arena].prev
                    = IF d = 1 THEN NoArena ELSE frames'[d - 1].arena
               /\ \A e \in 1 .. n + 1 : frames'[d].arena = frames'[e].arena => d = e
    <3>1. arena'[frames'[d].arena] = arena[frames[d].arena] /\ frames'[d] = frames[d]
      BY <1>4, <1>6, <1>7
    <3>2. d # 1 => d - 1 \in 1 .. n
      BY <1>3
    <3>3. \A e \in 1 .. n + 1 : e = n + 1 \/ e \in 1 .. n
      BY <1>3
    <3> QED
      BY <1>6, <1>7, <3>1, <3>2, <3>3 DEF Inv, Stack
  <2>3. /\ arena'[frames'[n + 1].arena].live
        /\ arena'[frames'[n + 1].arena].prev
             = IF n + 1 = 1 THEN NoArena ELSE frames'[n].arena
        /\ \A e \in 1 .. n + 1 : frames'[n + 1].arena = frames'[e].arena => n + 1 = e
    BY <1>2, <1>3, <1>4, <1>6, <1>7, <1>8
  <2>4. \A d \in 1 .. n + 1 : d = n + 1 \/ d \in 1 .. n
    BY <1>3
  <2>5. ASSUME NEW d \in 1 .. n + 1
        PROVE  /\ arena'[frames'[d].arena].live
               /\ arena'[frames'[d].arena].prev
                    = IF d = 1 THEN NoArena ELSE frames'[d - 1].arena
               /\ \A e \in 1 .. n + 1 : frames'[d].arena = frames'[e].arena => d = e
    <3>1. CASE d \in 1 .. n
      BY <3>1, <2>2
    <3>2. CASE d = n + 1
      <4>1. d - 1 = n
        BY <1>3, <3>2
      <4> QED
        BY <3>2, <4>1, <2>3
    <3> QED
      BY <2>4, <3>1, <3>2
  <2> QED
    BY <1>6, <2>1, <2>5 DEF Stack
<1>10. Owned'
  BY <1>1, <1>3, <1>6 DEF Inv, Owned, Types, Allocations
<1>11. \A o \in held : arena'[o.arena] = arena[o.arena]
  BY <1>4, <1>6, <1>7 DEF Inv, Owned
<1>12. HeldIntact'
  BY <1>1, <1>11 DEF Inv, HeldIntact
<1>13. \A b \in Arenas : Single(arena'[b])
  BY <1>2, <1>4 DEF Inv
<1> QED
  BY <1>5, <1>9, <1>10, <1>12, <1>13 DEF Inv

LEMMA AllocInv ==
  ASSUME Inv, NEW m \in Asks, Alloc(m)
  PROVE  Inv'
<1> DEFINE sz  == Units(m)
           s   == arena[cur]
           old == s.blocks
           bs  == Bump(old, sz)
           top == IF s.now + sz > s.most THEN s.now + sz ELSE s.most
           new == [arena |-> cur, block |-> Len(bs), off |-> bs[Len(bs)].used - sz,
                   size |-> sz, depth |-> Len(frames)]
           t   == [s EXCEPT !.blocks = bs, !.now = @ + sz, !.most = top]
<1>1. /\ cur \in Arenas
      /\ s \in Structs /\ old \in Seq(Blocks) /\ Len(old) \in Nat
      /\ s.now \in Nat /\ s.most \in Nat /\ s.live \in BOOLEAN
      /\ s.prev \in Arenas \cup {NoArena}
  BY DEF Inv, Types, Structs, Alloc
<1>2. sz \in Nat /\ sz >= 1
  BY UnitsPositive
<1>3. /\ arena' = [arena EXCEPT ![cur] = t]
      /\ held' = held \cup {new} /\ cur' = cur /\ frames' = frames
  <2>2. /\ arena' = [arena EXCEPT ![cur].blocks = bs, ![cur].now = @ + sz,
                                  ![cur].most = top]
        /\ held' = held \cup {new} /\ cur' = cur /\ frames' = frames
    BY <1>1 DEF Alloc, Depth
  <2>3. arena \in [Arenas -> Structs]
    BY DEF Inv, Types
  <2>4. arena' = [arena EXCEPT ![cur] = t]
    <3> HIDE DEF bs, sz, top
    <3> QED
      BY <1>1, <2>2, <2>3
  <2> QED
    BY <2>2, <2>4
<1>4. /\ bs \in Seq(Blocks) /\ Len(bs) \in Nat
      /\ HeadHasRoom(old, sz) =>
              /\ Len(old) >= 1 /\ Len(bs) = Len(old)
              /\ \A i \in 1 .. Len(old) : i # Len(old) => bs[i] = old[i]
              /\ bs[Len(old)].used = old[Len(old)].used + sz
              /\ bs[Len(old)].cap = old[Len(old)].cap
      /\ ~HeadHasRoom(old, sz) =>
              /\ Len(bs) = Len(old) + 1
              /\ \A i \in 1 .. Len(old) : bs[i] = old[i]
              /\ bs[Len(old) + 1].used = sz
              /\ bs[Len(old) + 1].cap >= BlockUnits
  BY <1>1, <1>2, BumpIs
<1>5. /\ \A i \in 1 .. Len(old) : old[i].used \in Nat /\ old[i].cap \in Nat
      /\ \A i \in 1 .. Len(bs) : bs[i].used \in Nat
  <2>1. /\ \A i \in 1 .. Len(old) : old[i] \in Blocks
        /\ \A i \in 1 .. Len(bs) : bs[i] \in Blocks
    BY <1>1, <1>4, SeqElements
  <2> QED
    BY <2>1 DEF Blocks
<1> HIDE DEF sz, bs
<1>6. /\ Len(bs) >= Len(old) /\ Len(bs) >= 1
      /\ bs[Len(bs)].used - sz \in Nat
      /\ \A i \in 1 .. Len(old) : bs[i].used >= old[i].used
  <2>1. CASE HeadHasRoom(old, sz)
    <3>1. Len(old) \in 1 .. Len(old) /\ Len(bs) = Len(old) /\ Len(bs) >= 1
      BY <1>1, <1>4, <2>1
    <3>2. bs[Len(bs)].used - sz = old[Len(old)].used
      BY <1>2, <1>4, <1>5, <2>1, <3>1
    <3>3. \A i \in 1 .. Len(old) : bs[i].used >= old[i].used
      BY <1>2, <1>4, <1>5, <2>1, <3>1
    <3> QED
      BY <1>5, <3>1, <3>2, <3>3
  <2>2. CASE ~HeadHasRoom(old, sz)
    <3>1. Len(bs) = Len(old) + 1
      BY <1>4, <2>2
    <3>2. bs[Len(bs)].used = sz
      BY <1>4, <2>2, <3>1
    <3> QED
      BY <1>1, <1>2, <1>4, <1>5, <2>2, <3>1, <3>2
  <2> QED
    BY <2>1, <2>2
<1>7. top \in Nat /\ top >= s.now + sz /\ top >= s.most /\ s.now + sz \in Nat
  BY <1>1, <1>2
<1> HIDE DEF top
<1>8. /\ t \in Structs /\ t.blocks = bs /\ t.live = s.live /\ t.prev = s.prev
      /\ t.most = top /\ t.now = s.now + sz
  <2>1. /\ s \in Structs /\ bs \in Seq(Blocks) /\ top \in Nat
        /\ s.now \in Nat /\ s.now + sz \in Nat
    BY <1>1, <1>4, <1>7
  <2> HIDE DEF s
  <2>2. t.blocks = bs /\ t.most = top /\ t.now = s.now + sz
    BY ONLY <2>1 DEF t, Structs
  <2>3. t.live = s.live /\ t.prev = s.prev
    BY ONLY <2>1 DEF t, Structs
  <2>4. t \in Structs
    BY ONLY <2>1 DEF t, Structs
  <2> QED
    BY <2>2, <2>3, <2>4
<1> HIDE DEF t
<1>9. Len(frames) \in Nat /\ Len(frames) >= 1 /\ frames[Len(frames)].arena = cur
  BY <1>1 DEF Inv, Types, Stack, CurIsTop, Top, Depth
<1>10. new \in Allocations
  BY <1>1, <1>2, <1>4, <1>6, <1>9 DEF Allocations
<1>11. /\ arena'[cur] = t /\ \A a \in Arenas : a # cur => arena'[a] = arena[a]
  BY <1>1, <1>3 DEF Inv, Types
<1>12. Types'
  BY <1>1, <1>3, <1>8, <1>10 DEF Inv, Types
<1>13. Stack'
  <2>1. \A a \in Arenas : arena'[a].live = arena[a].live /\ arena'[a].prev = arena[a].prev
    BY <1>8, <1>11
  <2>2. \A d \in 1 .. Len(frames) : frames[d].arena \in Arenas
    BY FrameTypes DEF Inv
  <2> QED
    BY <1>3, <2>1, <2>2 DEF Inv, Stack, CurIsTop, Top, Depth
<1>14. Owned'
  BY <1>3, <1>9 DEF Inv, Owned
<1>16. /\ s.live
       /\ new.arena = cur /\ new.block = Len(bs) /\ new.off = bs[Len(bs)].used - sz
       /\ new.size = sz
  BY <1>9 DEF Inv, Stack
<1> HIDE DEF new
<1>17. \A o \in held : /\ o.arena \in Arenas /\ o.block \in Nat \ {0}
                       /\ o.off \in Nat /\ o.size \in Nat
  BY DEF Inv, Types, Allocations
<1>18. \A o \in held :
         /\ arena'[o.arena].live
         /\ o.block <= Len(arena'[o.arena].blocks)
         /\ o.off + o.size <= arena'[o.arena].blocks[o.block].used
  <2> SUFFICES ASSUME NEW o \in held
               PROVE  /\ arena'[o.arena].live
                      /\ o.block <= Len(arena'[o.arena].blocks)
                      /\ o.off + o.size <= arena'[o.arena].blocks[o.block].used
    OBVIOUS
  <2>1. /\ arena[o.arena].live /\ o.block <= Len(arena[o.arena].blocks)
        /\ o.off + o.size <= arena[o.arena].blocks[o.block].used
    BY DEF Inv, HeldIntact
  <2>2. CASE o.arena # cur
    BY <1>11, <1>17, <2>1, <2>2
  <2>3. CASE o.arena = cur
    <3>1. o.block \in 1 .. Len(old)
      BY <1>1, <1>17, <2>1, <2>3
    <3>2. bs[o.block].used >= old[o.block].used /\ o.block <= Len(bs)
      BY <1>1, <1>4, <1>6, <3>1
    <3>3. bs[o.block].used \in Nat /\ old[o.block].used \in Nat
      BY <1>1, <1>4, <1>5, <3>1, <3>2
    <3> QED
      <4>1. arena'[o.arena].blocks = bs /\ arena'[o.arena].live
        BY <1>11, <1>8, <1>16, <2>3
      <4>2. o.off + o.size <= old[o.block].used
        BY <2>1, <2>3
      <4>3. o.off + o.size \in Nat
        BY <1>17
      <4> HIDE DEF old
      <4> QED
        BY <3>2, <3>3, <4>1, <4>2, <4>3
  <2> QED
    BY <2>2, <2>3
<1>19. \A o \in held : o.arena = cur /\ o.block = Len(bs) => o.off + o.size <= new.off
  <2> SUFFICES ASSUME NEW o \in held, o.arena = cur, o.block = Len(bs)
               PROVE  o.off + o.size <= new.off
    OBVIOUS
  <2>1. o.block <= Len(old) /\ o.off + o.size <= old[o.block].used
    BY DEF Inv, HeldIntact
  <2>2. HeadHasRoom(old, sz) /\ Len(bs) = Len(old)
    BY <1>1, <1>4, <2>1
  <2>3. bs[Len(bs)].used - sz = old[Len(old)].used
    BY <1>1, <1>2, <1>4, <1>5, <2>2
  <2> QED
    BY <1>16, <2>1, <2>2, <2>3
<1>20. HeldIntact'
  <2>1. /\ arena'[new.arena].live /\ new.block <= Len(arena'[new.arena].blocks)
        /\ new.off + new.size <= arena'[new.arena].blocks[new.block].used
    <3>1. arena'[new.arena].blocks = bs /\ arena'[new.arena].live
      BY <1>11, <1>8, <1>16
    <3>2. bs[Len(bs)].used \in Nat
      BY <1>4, <1>5, <1>6
    <3>3. new.off + new.size = bs[Len(bs)].used
      BY <1>2, <1>16, <3>2
    <3> QED
      BY <1>4, <1>16, <3>1, <3>2, <3>3
  <2>2. \A o, p \in held : o # p /\ o.arena = p.arena /\ o.block = p.block =>
                           o.off + o.size <= p.off \/ p.off + p.size <= o.off
    BY DEF Inv, HeldIntact
  <2> QED
    BY <1>3, <1>16, <1>18, <1>19, <2>1, <2>2 DEF HeldIntact
<1>21. Single(t)
  <2>1. s.now <= s.most
        /\ (s.most <= BlockUnits =>
              /\ Len(old) <= 1
              /\ Len(old) = 0 => s.now = 0
              /\ Len(old) = 1 => old[1].used = s.now /\ old[1].cap >= BlockUnits)
    BY <1>1 DEF Inv, Single
  <2>2. SUFFICES ASSUME top <= BlockUnits
                 PROVE  /\ Len(bs) = 1
                        /\ bs[1].used = s.now + sz
                        /\ bs[1].cap >= BlockUnits
    <3>1. Len(bs) = 1 => Len(bs) <= 1 /\ Len(bs) # 0
      OBVIOUS
    <3>2. t.now <= t.most
      BY <1>7, <1>8
    <3> QED
      BY <1>8, <3>1, <3>2 DEF Single
  <2>3. s.most <= BlockUnits /\ s.now + sz <= BlockUnits
    BY <1>1, <1>2, <1>7, <2>2
  <2>4. CASE Len(old) = 0
    <3>1. ~HeadHasRoom(old, sz)
      BY <1>1, <2>4 DEF HeadHasRoom
    <3> QED
      BY <1>2, <1>4, <2>1, <2>3, <2>4, <3>1
  <2>5. CASE Len(old) = 1
    <3>1. old[1].used + sz <= old[1].cap /\ old # <<>>
      BY <1>1, <1>2, <1>5, <2>1, <2>3, <2>5
    <3>2. HeadHasRoom(old, sz)
      BY <2>5, <3>1 DEF HeadHasRoom
    <3> QED
      BY <1>4, <2>1, <2>3, <2>5, <3>2
  <2> QED
    <3>1. Len(old) <= 1 /\ Len(old) \in Nat
      BY <1>1, <2>1, <2>3
    <3>2. Len(old) = 0 \/ Len(old) = 1
      <4> HIDE DEF old
      <4> QED
        BY <3>1, ZeroOrOne
    <3> QED
      BY ONLY <2>4, <2>5, <3>2
<1>22. \A a \in Arenas : Single(arena'[a])
  BY <1>11, <1>21 DEF Inv
<1> QED
  BY <1>12, <1>13, <1>14, <1>20, <1>22 DEF Inv

-----------------------------------------------------------------------------
(* The scopes that are left when the one at depth d ends.                  *)
LEMMA Shorter ==
  ASSUME Types, NEW d \in 0 .. Len(frames)
  PROVE  LET f == SubSeq(frames, 1, d) IN
         /\ f \in Seq([kind : {"loop", "user"}, arena : Arenas])
         /\ Len(f) = d
         /\ \A e \in 1 .. d : f[e] = frames[e] /\ e \in 1 .. Len(frames)
<1>1. frames \in Seq([kind : {"loop", "user"}, arena : Arenas]) /\ Len(frames) \in Nat
  BY DEF Types
<1> DEFINE F == [kind : {"loop", "user"}, arena : Arenas]
<1>2. ASSUME NEW f \in Seq(F)
      PROVE  \A m \in 0 .. Len(f) :
               /\ SubSeq(f, 1, m) \in Seq(F) /\ Len(SubSeq(f, 1, m)) = m
               /\ \A e \in 1 .. m : SubSeq(f, 1, m)[e] = f[e] /\ e \in 1 .. Len(f)
  <2> HIDE DEF F
  <2> QED
    OBVIOUS
<1> QED
  BY <1>1, <1>2

(* What is allocated in the scopes that stay open is not in an arena that  *)
(* is reset or released.                                                   *)
LEMMA OthersIntact ==
  ASSUME Inv, NEW d \in 1 .. Len(frames), Forget(d - 1),
         \A a \in Arenas : a # frames[d].arena => arena'[a] = arena[a]
  PROVE  /\ held' \in SUBSET Allocations
         /\ \A o \in held' : /\ o \in held /\ o.depth \in 1 .. d - 1
                              /\ o.arena = frames[o.depth].arena
         /\ HeldIntact'
<1>1. \A o \in held' : o \in held /\ o.depth <= d - 1
  BY DEF Forget
<1>2. \A o \in held : /\ o.arena \in Arenas /\ o.depth \in 1 .. Len(frames)
                      /\ o.arena = frames[o.depth].arena
  BY DEF Inv, Types, Owned, Allocations
<1>3. Len(frames) \in Nat
  BY DEF Inv, Types
<1>4. \A o \in held' : o.depth \in 1 .. d - 1 /\ o.depth # d
  BY <1>1, <1>2, <1>3
<1>5. \A o \in held' : o.arena # frames[d].arena
  BY <1>1, <1>2, <1>4 DEF Inv, Stack
<1>6. \A o \in held' : arena'[o.arena] = arena[o.arena]
  BY <1>1, <1>2, <1>5
<1>7. HeldIntact'
  BY <1>1, <1>6 DEF Inv, HeldIntact
<1> QED
  BY <1>1, <1>2, <1>4, <1>7 DEF Inv, Types

LEMMA EndIterationInv ==
  ASSUME Inv, EndIteration
  PROVE  Inv'
<1>1. PICK d \in Loops :
        Reset(frames[d].arena) /\ frames' = SubSeq(frames, 1, d) /\ Forget(d - 1)
  BY DEF EndIteration
<1> DEFINE a == frames[d].arena
           r == [arena[a] EXCEPT !.blocks = Rewind(@), !.now = 0]
<1>2. d \in 1 .. Len(frames) /\ Len(frames) \in Nat
  BY FrameTypes DEF Loops, Depth, Inv
<1>3. a \in Arenas
  BY <1>2, FrameTypes DEF Inv
<1>4. arena[a] \in Structs /\ Single(arena[a])
  BY <1>3 DEF Inv, Types
<1>5. r \in Structs /\ Single(r) /\ r.live = arena[a].live /\ r.prev = arena[a].prev
  BY <1>4, RewoundIs
<1>6. arena' = [arena EXCEPT ![a] = r] /\ cur' = a
  BY <1>1, <1>3 DEF Reset, Inv, Types
<1> HIDE DEF r
<1>7. arena'[a] = r /\ \A b \in Arenas : b # a => arena'[b] = arena[b]
  BY <1>3, <1>6 DEF Inv, Types
<1>8. /\ frames' \in Seq([kind : {"loop", "user"}, arena : Arenas]) /\ Len(frames') = d
      /\ \A e \in 1 .. d : frames'[e] = frames[e] /\ e \in 1 .. Len(frames)
  BY <1>1, <1>2, Shorter DEF Inv
<1>9. /\ held' \in SUBSET Allocations
      /\ \A o \in held' : /\ o.depth \in 1 .. d - 1
                           /\ o.arena = frames[o.depth].arena
      /\ HeldIntact'
  BY <1>1, <1>2, <1>7, OthersIntact
<1>10. Types'
  BY <1>3, <1>5, <1>6, <1>8, <1>9 DEF Inv, Types
<1>11. Stack'
  <2>1. CurIsTop'
    BY <1>2, <1>6, <1>8 DEF CurIsTop, Top, Depth
  <2>2. \A b \in Arenas : arena'[b].live = arena[b].live /\ arena'[b].prev = arena[b].prev
    BY <1>5, <1>7
  <2>3. \A e \in 1 .. d : frames[e].arena \in Arenas /\ (e # 1 => e - 1 \in 1 .. d)
    BY <1>2, FrameTypes DEF Inv
  <2> QED
    BY <1>8, <2>1, <2>2, <2>3 DEF Inv, Stack
<1>12. Owned'
  BY <1>2, <1>8, <1>9 DEF Owned
<1>13. \A b \in Arenas : Single(arena'[b])
  BY <1>5, <1>7 DEF Inv
<1> QED
  BY <1>9, <1>10, <1>11, <1>12, <1>13 DEF Inv

(* LoopExit and UserRelease. *)
LEMMA ReleaseInv ==
  ASSUME Inv, Len(frames) > 0, Release(Top.arena),
         frames' = SubSeq(frames, 1, Len(frames) - 1), Forget(Len(frames) - 1)
  PROVE  Inv'
<1> DEFINE n == Len(frames)
           a == frames[n].arena
<1>1. n \in Nat /\ n >= 1 /\ n \in 1 .. n /\ n - 1 \in 0 .. n
  BY FrameTypes DEF Inv
<1>2. a \in Arenas
  BY <1>1, FrameTypes DEF Inv
<1>3. cur = a
  BY <1>1 DEF Inv, Stack, CurIsTop, Top, Depth
<1>4. /\ arena' = [arena EXCEPT ![a] = Fresh]
      /\ cur' = IF n = 1 THEN NoArena ELSE frames[n - 1].arena
  BY <1>1, <1>3 DEF Release, Top, Depth, Inv, Stack
<1>5. arena'[a] = Fresh /\ \A b \in Arenas : b # a => arena'[b] = arena[b]
  BY <1>2, <1>4 DEF Inv, Types
<1>6. /\ frames' \in Seq([kind : {"loop", "user"}, arena : Arenas]) /\ Len(frames') = n - 1
      /\ \A e \in 1 .. n - 1 : frames'[e] = frames[e] /\ e \in 1 .. n
  BY <1>1, Shorter DEF Inv
<1>7. /\ held' \in SUBSET Allocations
      /\ \A o \in held' : /\ o.depth \in 1 .. n - 1
                           /\ o.arena = frames[o.depth].arena
      /\ HeldIntact'
  BY <1>1, <1>5, OthersIntact
<1>8. \A e \in 1 .. n - 1 : /\ frames[e].arena \in Arenas /\ frames[e].arena # a
                            /\ (e # 1 => e - 1 \in 1 .. n - 1)
  <2> SUFFICES ASSUME NEW e \in 1 .. n - 1
               PROVE  /\ frames[e].arena \in Arenas /\ frames[e].arena # a
                      /\ (e # 1 => e - 1 \in 1 .. n - 1)
    OBVIOUS
  <2>1. e \in 1 .. n /\ e # n
    BY <1>1
  <2>2. frames[e].arena # a
    BY <1>1, <2>1 DEF Inv, Stack
  <2> QED
    BY <1>1, <2>1, <2>2, FrameTypes DEF Inv
<1>9. Types'
  <2>1. cur' \in Arenas \cup {NoArena}
    <3>1. n # 1 => n - 1 \in 1 .. n - 1
      BY <1>1, Before
    <3> QED
      BY <1>4, <3>1, <1>8
  <2> QED
    BY <1>4, <1>6, <1>7, <2>1, FreshIs DEF Inv, Types
<1>10. Stack'
  <2>1. CurIsTop'
    <3>1. CASE n = 1
      <4>1. frames' = <<>>
        BY <1>6, <3>1
      <4> QED
        BY <1>4, <3>1, <4>1 DEF CurIsTop
    <3>2. CASE n # 1
      <4>1. n - 1 \in 1 .. n - 1 /\ n - 1 # 0
        BY <1>1, <3>2, Before
      <4>2. frames'[n - 1] = frames[n - 1] /\ frames' # <<>>
        BY <1>6, <4>1
      <4> QED
        BY <1>4, <1>6, <3>2, <4>2 DEF CurIsTop, Top, Depth
    <3> QED
      BY <3>1, <3>2
  <2>2. \A e \in 1 .. n - 1 : arena'[frames[e].arena] = arena[frames[e].arena]
    BY <1>5, <1>8
  <2> QED
    BY <1>6, <1>8, <2>1, <2>2 DEF Inv, Stack
<1>11. Owned'
  BY <1>6, <1>7 DEF Owned
<1>12. \A b \in Arenas : Single(arena'[b])
  BY <1>5, FreshIs DEF Inv
<1> QED
  BY <1>7, <1>9, <1>10, <1>11, <1>12 DEF Inv

-----------------------------------------------------------------------------
LEMMA NextInv == Inv /\ [Next]_vars => Inv'
<1> SUFFICES ASSUME Inv, [Next]_vars PROVE Inv'
  OBVIOUS
<1>1. CASE Scope("loop") \/ Scope("user")
  BY <1>1, ScopeInv
<1>2. CASE \E n \in Asks : Alloc(n)
  BY <1>2, AllocInv
<1>3. CASE EndIteration
  BY <1>3, EndIterationInv
<1>4. CASE LoopExit \/ UserRelease
  BY <1>4, ReleaseInv DEF LoopExit, UserRelease, Depth
<1>5. CASE UNCHANGED vars
  BY <1>5 DEF vars, Inv, Types, Stack, CurIsTop, Top, Depth, Owned, HeldIntact
<1> QED
  BY <1>1, <1>2, <1>3, <1>4, <1>5 DEF Next

LEMMA InvHolds == Spec => []Inv
BY InitInv, NextInv, PTL DEF Spec

(* Types, and no block is used beyond its capacity (vader_alloc). *)
THEOREM TypesHold == Spec => []TypeOK
<1>1. ASSUME Inv PROVE TypeOK
  <2>1. /\ arena \in [Arenas -> Structs] /\ cur \in Arenas \cup {NoArena}
        /\ frames \in Seq([kind : {"loop", "user"}, arena : Arenas])
    BY <1>1 DEF Inv, Types
  <2>2. \A a \in Arenas : \A i \in 1 .. Len(arena[a].blocks) :
          arena[a].blocks[i] \in Blocks
    BY <2>1, StructIs, SeqElements
  <2>3. \A b \in Blocks : b.cap \in Nat /\ b.used \in 0 .. b.cap
    BY DEF Blocks
  <2>4. \A a \in Arenas : /\ arena[a].live \in BOOLEAN
                          /\ arena[a].prev \in Arenas \cup {NoArena}
                          /\ arena[a].most \in Nat /\ arena[a].now \in Nat
    BY <2>1, StructIs
  <2>5. DOMAIN arena = Arenas
    BY <2>1
  <2> QED
    BY <2>1, <2>2, <2>3, <2>4, <2>5 DEF TypeOK
<1> QED
  BY <1>1, InvHolds, PTL

(* However scopes are nested, forgotten, reset and released, g_cur is the  *)
(* arena of the innermost open one.                                        *)
THEOREM InnermostIsCurrent == Spec => []CurIsTop
<1>1. Inv => CurIsTop
  BY DEF Inv, Stack
<1> QED
  BY <1>1, InvHolds, PTL

(* No two allocations that are still in use share a byte, and none lies in *)
(* what a reset or a release gave back.                                    *)
THEOREM NothingOverwritten == Spec => []HeldIntact
<1>1. Inv => HeldIntact
  BY DEF Inv
<1> QED
  BY <1>1, InvHolds, PTL

(* A loop whose iterations fit in a block asks malloc for one block.       *)
THEOREM LoopKeepsOneBlock == Spec => []OneBlockIsEnough
<1>1. Inv => OneBlockIsEnough
  BY DEF Inv, Single, OneBlockIsEnough
<1> QED
  BY <1>1, InvHolds, PTL
=============================================================================
