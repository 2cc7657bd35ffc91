---------------------------- MODULE VolumeProofs ----------------------------
(***************************************************************************)
(* What the SD card is left with. First the log: wherever the power fails, *)
(* wherever the card is pulled, whichever transfer fails, no cluster gets  *)
(* two owners, every file's chain covers its size, and every fault costs   *)
(* one cluster at most. Then SdFormatter: a card that it has reported as   *)
(* formatted mounts, and has every part of the volume in its place: for    *)
(* cards of every size that the sketch can measure.                        *)
(*                                                                         *)
(* The first proof follows a call along the machine of Fat. Of a card only *)
(* its view counts, of which there are two: what lasts, and what the       *)
(* library sees, with the block in the cache. Moving blocks keeps the one  *)
(* and brings the other up to it (Moves); every change of an entry of the  *)
(* FAT or of the directory keeps what is seen sound and makes it grow, so  *)
(* that the old view and the new are both sound (Run, Safe). The loops of  *)
(* the code are recursive functions; what holds after i turns of one is    *)
(* proved for all i by Every.                                              *)
(***************************************************************************)
EXTENDS Log, Format, TLAPS, FiniteSetTheorems, WellFoundedInduction

-----------------------------------------------------------------------------
(* Blocks and the cache *)
\* What a block of the FAT and of the root directory holds. Of the second FAT and
\* of the data nothing needs to be known: no property reads them.
FatBlocks == {FatBlock(1, c) : c \in Cluster}
Meta == FatBlocks \cup DirBlocks
Entry == [name : Names \cup {"free", "deleted"}, first : {0} \cup Cluster, size : Nat,
          dir : {FALSE}, times : {{}}]
Links == {0, EOC} \cup Cluster
IsBlock(b, data) ==
    /\ b \in FatBlocks => data \in [{c \in Cluster : FatBlock(1, c) = b} -> Links]
    /\ b \in DirBlocks => data \in [1 .. EntriesPerBlock -> Entry]
IsDisk(d) == d = [b \in DOMAIN d |-> d[b]] /\ Meta \subseteq DOMAIN d /\ \A b \in Meta : IsBlock(b, d[b])

\* All that the properties see of a card: the entries of the FAT and of the directory.
View(d) == [fat |-> [c \in Cluster |-> FatOf(d, c)], ent |-> [p \in Places |-> EntryAt(d, p)]]

\* The cache: a block of the FAT is marked as such, and what is not dirty is what
\* the card holds.
CacheOK(d, c) ==
    /\ c = [block |-> c.block, data |-> c.data, dirty |-> c.dirty, fat |-> c.fat]
    /\ c.dirty \in BOOLEAN /\ c.fat \in BOOLEAN /\ (c.fat <=> c.block \in FatBlocks)
    /\ IsBlock(c.block, c.data)
    /\ c.block \in Meta /\ ~c.dirty => c.data = d[c.block]

Shape(m) == m = [disk |-> m.disk, cache |-> m.cache, alloc |-> m.alloc, file |-> m.file, dir |-> m.dir,
                 ok |-> m.ok, val |-> m.val, n |-> m.n, bad |-> m.bad, took |-> m.took]
Mach(m) ==
    /\ Shape(m) /\ m.ok \in BOOLEAN /\ m.n \in Nat
    /\ IsDisk(m.disk) /\ CacheOK(m.disk, m.cache)

\* What would outlast a power failure, and what the library sees: the block in the
\* cache covers the one on the card.
Lasting(m) == View(m.disk)
Latest(m) == View([m.disk EXCEPT ![m.cache.block] = m.cache.data])

\* What a transfer of blocks leaves alone; that a call whose transfers all fail
\* and leave no trace changes nothing that lasts; that a failure has a cause.
Others(m, w) == w.alloc = m.alloc /\ w.file = m.file /\ w.dir = m.dir /\ w.bad = m.bad /\ w.took = m.took
Course(m, w) ==
    /\ w.n \in Nat /\ m.n <= w.n
    /\ (\A k \in m.n .. w.n - 1 : k \in m.bad \ m.took) => Lasting(w) = Lasting(m)
Blamed(m, w) == m.ok /\ ~w.ok => \E k \in m.n .. w.n - 1 : k \in m.bad

\* Blocks move between card and cache: what the library sees stays, and what lasts
\* stays or catches up with it.
Moves(m, w) ==
    /\ Mach(w) /\ Others(m, w) /\ Latest(w) = Latest(m) /\ Lasting(w) \in {Lasting(m), Latest(m)}
    /\ Course(m, w) /\ Blamed(m, w) /\ (w.ok => m.ok)

\* A transfer does all of what it is for, or fails.
LEMMA TransferShape ==
    ASSUME NEW m, Shape(m), NEW done, Shape(done), m.n \in Nat, done.n = m.n,
           NEW w, w = Transfer(m, done)
    PROVE  /\ Shape(w)
           /\ ~m.ok => w = m
           /\ m.ok /\ m.n \notin m.bad => w = [done EXCEPT !.n = m.n + 1]
           /\ m.ok /\ m.n \in m.bad =>
                /\ w.ok = FALSE /\ ~w.ok /\ w.n = m.n + 1 /\ Others(m, w) /\ w.cache = m.cache /\ w.val = m.val
                /\ w.disk = IF m.n \in m.took THEN done.disk ELSE m.disk
BY DEF Transfer, Shape, Others

\* A block is written, or not, or in spite of a reported failure.
Wrote(m, b, data, w) ==
    /\ Shape(w) /\ Others(m, w) /\ w.cache = m.cache /\ w.val = m.val /\ w.n \in Nat /\ w.ok \in BOOLEAN
    /\ w.disk \in {m.disk, [m.disk EXCEPT ![b] = data]}
    /\ ~m.ok => w = m
    /\ m.ok => w.n = m.n + 1 /\ (w.ok <=> m.n \notin m.bad)
    /\ w.ok => w.disk = [m.disk EXCEPT ![b] = data]
    /\ m.ok /\ m.n \in m.bad \ m.took => w.disk = m.disk

LEMMA WriteShape ==
    ASSUME NEW m, Mach(m), NEW b, NEW data, NEW w, w = WriteBlock(m, b, data)
    PROVE  Wrote(m, b, data, w)
<1> DEFINE done == [m EXCEPT !.disk[b] = data]
<1>1. Shape(done) /\ done.n = m.n /\ done.disk = [m.disk EXCEPT ![b] = data] /\ done.ok = m.ok /\ Others(m, done)
      /\ done.cache = m.cache /\ done.val = m.val
  BY DEF Mach, Shape, Others
<1>2. w = Transfer(m, done)
  BY DEF WriteBlock
<1>3. Shape(m) /\ m.n \in Nat /\ m.ok \in BOOLEAN
  BY DEF Mach
<1> HIDE DEF done
<1>4. /\ Shape(w)
      /\ ~m.ok => w = m
      /\ m.ok /\ m.n \notin m.bad => w = [done EXCEPT !.n = m.n + 1]
      /\ m.ok /\ m.n \in m.bad =>
           /\ w.ok = FALSE /\ ~w.ok /\ w.n = m.n + 1 /\ Others(m, w) /\ w.cache = m.cache /\ w.val = m.val
           /\ w.disk = IF m.n \in m.took THEN done.disk ELSE m.disk
  BY <1>1, <1>2, <1>3, TransferShape
<1>5. CASE ~m.ok
  BY <1>4, <1>3, <1>5 DEF Others, Wrote
<1>6. CASE m.ok /\ m.n \in m.bad
  <2>1. w.disk = IF m.n \in m.took THEN done.disk ELSE m.disk
    BY <1>4, <1>6
  <2>2. w.ok = FALSE /\ w.n = m.n + 1 /\ Others(m, w) /\ w.cache = m.cache /\ w.val = m.val /\ Shape(w)
    BY <1>4, <1>6
  <2>3. w.ok \in BOOLEAN /\ ~w.ok
    BY <2>2
  <2>4. w.n \in Nat
    BY <2>2, <1>3
  <2>5. w.disk \in {m.disk, [m.disk EXCEPT ![b] = data]}
    BY <1>1, <2>1
  <2>6. m.n \in m.bad \ m.took => w.disk = m.disk
    BY <2>1
  <2> QED
    BY <2>2, <2>3, <2>4, <2>5, <2>6, <1>6 DEF Wrote
<1>7. CASE m.ok /\ m.n \notin m.bad
  <2>1. w = [done EXCEPT !.n = m.n + 1]
    BY <1>4, <1>7
  <2>2. w.n = m.n + 1 /\ w.disk = done.disk /\ w.cache = done.cache /\ w.val = done.val /\ w.ok = done.ok /\ Others(done, w)
    BY <2>1, <1>1 DEF Shape, Others
  <2>3. w.ok = m.ok /\ w.ok \in BOOLEAN /\ w.ok
    BY <1>1, <1>3, <1>7, <2>2
  <2>4. w.n \in Nat /\ w.n = m.n + 1
    BY <2>2, <1>3
  <2>5. Others(m, w) /\ w.cache = m.cache /\ w.val = m.val /\ w.disk = [m.disk EXCEPT ![b] = data]
    BY <1>1, <2>2 DEF Others
  <2> QED
    BY <1>4, <1>7, <2>3, <2>4, <2>5 DEF Wrote
<1> QED
  BY <1>5, <1>6, <1>7

LEMMA MovesSelf == ASSUME NEW m, Mach(m) PROVE Moves(m, m)
BY DEF Moves, Mach, Others, Course, Blamed

\* Moves can be chained.
LEMMA MovesTwice ==
    ASSUME NEW m, NEW w, NEW v, Mach(m), Moves(m, w), Moves(w, v)
    PROVE  Moves(m, v)
<1>1. /\ m.n \in Nat /\ w.n \in Nat /\ v.n \in Nat /\ m.n <= w.n /\ w.n <= v.n
      /\ w.bad = m.bad /\ w.took = m.took /\ m.ok \in BOOLEAN /\ w.ok \in BOOLEAN
  BY DEF Moves, Mach, Course, Others
<1>2. Course(m, v)
  <2>1. ASSUME \A k \in m.n .. v.n - 1 : k \in m.bad \ m.took PROVE Lasting(v) = Lasting(m)
    <3>1. Lasting(w) = Lasting(m)
      BY <1>1, <2>1 DEF Moves, Course
    <3>2. Lasting(v) = Lasting(w)
      BY <1>1, <2>1 DEF Moves, Course
    <3> QED
      BY <3>1, <3>2
  <2> QED
    BY <1>1, <2>1 DEF Course
<1>3. Blamed(m, v)
  <2>1. SUFFICES ASSUME m.ok, ~v.ok PROVE \E k \in m.n .. v.n - 1 : k \in m.bad
    BY DEF Blamed
  <2>2. CASE w.ok
    <3>1. PICK k \in w.n .. v.n - 1 : k \in w.bad
      BY <2>1, <2>2 DEF Moves, Blamed
    <3> QED
      BY <1>1, <3>1
  <2>3. CASE ~w.ok
    <3>1. PICK k \in m.n .. w.n - 1 : k \in m.bad
      BY <2>1, <2>3 DEF Moves, Blamed
    <3> QED
      BY <1>1, <3>1
  <2> QED
    BY <2>2, <2>3
<1>4. Others(m, v) /\ Mach(v) /\ Latest(v) = Latest(m) /\ Lasting(v) \in {Lasting(m), Latest(m)} /\ (v.ok => m.ok)
  BY DEF Moves, Others
<1> QED
  BY <1>2, <1>3, <1>4 DEF Moves

-----------------------------------------------------------------------------

\* The kinds of blocks are distinct.
LEMMA Blocks ==
    /\ \A c \in Cluster : FatBlock(1, c) \in FatBlocks
    /\ \A i \in 1 .. RootBlocks : DirBlock(i) \in DirBlocks
    /\ \A p \in Places : p[1] \in DirBlocks /\ p[2] \in 1 .. EntriesPerBlock /\ p = <<p[1], p[2]>>
    /\ FatBlocks \cap DirBlocks = {}
    /\ NoBlock \notin Meta /\ BootBlock \notin Meta
    /\ \A x : <<"fat", 2, x>> \notin Meta
    /\ \A c, i : DataBlock(c, i) \notin Meta
<1>1. \A b \in FatBlocks : b[1] = "fat" /\ b[2] = 1
  BY DEF FatBlocks, FatBlock
<1>2. \A b \in DirBlocks : b[1] = "dir"
  BY DEF DirBlocks, DirBlock
<1>3. NoBlock[1] = "none" /\ BootBlock[1] = "boot"
  BY DEF NoBlock, BootBlock
<1>4. \A x : <<"fat", 2, x>>[1] = "fat" /\ <<"fat", 2, x>>[2] = 2
  OBVIOUS
<1>5. \A c, i : DataBlock(c, i)[1] = "data"
  BY DEF DataBlock
<1>6. \A p \in Places : p[1] \in DirBlocks /\ p[2] \in 1 .. EntriesPerBlock /\ p = <<p[1], p[2]>>
  BY DEF Places
<1>7. FatBlocks \cap DirBlocks = {}
  BY <1>1, <1>2
<1>8. NoBlock \notin Meta /\ BootBlock \notin Meta
  BY <1>1, <1>2, <1>3 DEF Meta
<1>9. \A x : <<"fat", 2, x>> \notin Meta
  BY <1>1, <1>2, <1>4 DEF Meta
<1>10. \A c, i : DataBlock(c, i) \notin Meta
  BY <1>1, <1>2, <1>5 DEF Meta
<1>11. /\ \A c \in Cluster : FatBlock(1, c) \in FatBlocks
       /\ \A i \in 1 .. RootBlocks : DirBlock(i) \in DirBlocks
  BY DEF FatBlocks, DirBlocks
<1> QED
  BY <1>6, <1>7, <1>8, <1>9, <1>10, <1>11

\* Only the first FAT and the directory show.
LEMMA SameView ==
    ASSUME NEW d, NEW e, \A b \in Meta : d[b] = e[b]
    PROVE  View(d) = View(e)
<1>1. \A c \in Cluster : FatOf(d, c) = FatOf(e, c)
  BY Blocks DEF FatOf, Meta
<1>2. \A p \in Places : EntryAt(d, p) = EntryAt(e, p)
  BY Blocks DEF EntryAt, Meta
<1> QED
  BY <1>1, <1>2 DEF View

\* A view with one block replaced.
LEMMA Overlay ==
    ASSUME NEW d, IsDisk(d), NEW b, NEW data, IsBlock(b, data)
    PROVE  /\ IsDisk([d EXCEPT ![b] = data])
           /\ b \notin Meta => View([d EXCEPT ![b] = data]) = View(d)
           /\ b \in Meta => [d EXCEPT ![b] = data][b] = data
           /\ d[b] = data => View([d EXCEPT ![b] = data]) = View(d)
<1> DEFINE e == [d EXCEPT ![b] = data]
<1>1. d = [x \in DOMAIN d |-> d[x]] /\ Meta \subseteq DOMAIN d /\ \A x \in Meta : IsBlock(x, d[x])
  BY DEF IsDisk
<1>2. e = [x \in DOMAIN d |-> IF x = b THEN data ELSE d[x]] /\ DOMAIN e = DOMAIN d
  BY <1>1
<1>3. \A x \in Meta : e[x] = IF x = b THEN data ELSE d[x]
  BY <1>1, <1>2
<1> HIDE DEF e
<1>4. e = [x \in DOMAIN e |-> e[x]]
  BY <1>2
<1>5. IsDisk(e)
  BY <1>1, <1>2, <1>3, <1>4 DEF IsDisk
<1>6. b \notin Meta => View(e) = View(d)
  BY <1>3, SameView
<1>7. d[b] = data => View(e) = View(d)
  BY <1>3, SameView
<1> QED
  BY <1>3, <1>5, <1>6, <1>7 DEF e

\* What is written as the cache has it, or does not show.
Harmless(m, b, data) ==
    /\ IsBlock(b, data)
    /\ b = m.cache.block => data = m.cache.data
    /\ b \in Meta => b = m.cache.block

\* Such a block may be written at any time.
LEMMA WriteMoves ==
    ASSUME NEW m, Mach(m), NEW b, NEW data, Harmless(m, b, data), NEW w, w = WriteBlock(m, b, data)
    PROVE  /\ Moves(m, w) /\ w.cache = m.cache /\ w.val = m.val
           /\ w.ok => w.disk = [m.disk EXCEPT ![b] = data]
<1>1. /\ Shape(w) /\ Others(m, w) /\ w.cache = m.cache /\ w.val = m.val /\ w.n \in Nat /\ w.ok \in BOOLEAN
      /\ w.disk \in {m.disk, [m.disk EXCEPT ![b] = data]}
      /\ ~m.ok => w = m
      /\ m.ok => w.n = m.n + 1 /\ (w.ok <=> m.n \notin m.bad)
      /\ w.ok => w.disk = [m.disk EXCEPT ![b] = data]
      /\ m.ok /\ m.n \in m.bad \ m.took => w.disk = m.disk
  <2>1. Wrote(m, b, data, w)
    BY WriteShape
  <2> QED
    BY <2>1 DEF Wrote
<1>2. IsDisk(m.disk) /\ CacheOK(m.disk, m.cache) /\ m.n \in Nat /\ m.ok \in BOOLEAN
  BY DEF Mach
<1> DEFINE e == [m.disk EXCEPT ![b] = data]
<1>3. /\ IsDisk(e) /\ (b \notin Meta => View(e) = View(m.disk))
      /\ \A x \in Meta : e[x] = IF x = b THEN data ELSE m.disk[x]
  <2>1. IsDisk(e) /\ (b \notin Meta => View(e) = View(m.disk))
    BY <1>2, Overlay DEF Harmless
  <2>2. m.disk = [x \in DOMAIN m.disk |-> m.disk[x]] /\ Meta \subseteq DOMAIN m.disk
    BY <1>2 DEF IsDisk
  <2>3. e = [x \in DOMAIN m.disk |-> IF x = b THEN data ELSE m.disk[x]]
    BY <2>2
  <2> QED
    BY <2>1, <2>2, <2>3
<1>4. View([e EXCEPT ![m.cache.block] = m.cache.data]) = Latest(m)
  <2>1. /\ IsDisk(e) /\ IsDisk(m.disk)
        /\ e = [x \in DOMAIN e |-> e[x]] /\ Meta \subseteq DOMAIN e
        /\ m.disk = [x \in DOMAIN m.disk |-> m.disk[x]] /\ Meta \subseteq DOMAIN m.disk
    BY <1>2, <1>3 DEF IsDisk
  <2>2. \A x \in Meta : [e EXCEPT ![m.cache.block] = m.cache.data][x]
                          = IF x = m.cache.block THEN m.cache.data ELSE e[x]
    BY <2>1
  <2>3. \A x \in Meta : [m.disk EXCEPT ![m.cache.block] = m.cache.data][x]
                          = IF x = m.cache.block THEN m.cache.data ELSE m.disk[x]
    BY <2>1
  <2>4. \A x \in Meta : [e EXCEPT ![m.cache.block] = m.cache.data][x]
                          = [m.disk EXCEPT ![m.cache.block] = m.cache.data][x]
    BY <1>3, <2>2, <2>3 DEF Harmless
  <2> QED
    BY <2>4, SameView DEF Latest
<1>5. View(e) \in {Lasting(m), Latest(m)}
  BY <1>3 DEF Lasting, Latest, Harmless
<1> HIDE DEF e
<1>6. w.disk \in {m.disk, e} /\ IsDisk(w.disk)
  BY <1>1, <1>2, <1>3 DEF e
<1>7. Latest(w) = Latest(m) /\ Lasting(w) \in {Lasting(m), Latest(m)}
  BY <1>1, <1>4, <1>5, <1>6 DEF Latest, Lasting
<1>8. CacheOK(w.disk, w.cache)
  <2>1. m.cache.block \in Meta /\ ~m.cache.dirty => m.cache.data = w.disk[m.cache.block]
    BY <1>2, <1>3, <1>6 DEF CacheOK, Harmless
  <2> QED
    BY <1>1, <1>2, <2>1 DEF CacheOK
<1>9. Mach(w)
  BY <1>1, <1>6, <1>8 DEF Mach
<1>10. Course(m, w)
  <2>1. CASE ~m.ok
    BY <1>1, <1>2, <2>1 DEF Course
  <2>2. CASE m.ok
    <3>1. ASSUME \A k \in m.n .. w.n - 1 : k \in m.bad \ m.took PROVE Lasting(w) = Lasting(m)
      BY <1>1, <1>2, <2>2, <3>1 DEF Lasting
    <3> QED
      BY <1>1, <1>2, <2>2, <3>1 DEF Course
  <2> QED
    BY <2>1, <2>2
<1>11. Blamed(m, w) /\ (w.ok => m.ok)
  BY <1>1, <1>2 DEF Blamed
<1> QED
  BY <1>1, <1>7, <1>9, <1>10, <1>11 DEF Moves

\* cacheSync: the block of the cache, and its copy in the second FAT
LEMMA SyncMoves ==
    ASSUME NEW m, Mach(m), NEW w, w = CacheSync(m)
    PROVE  /\ Moves(m, w) /\ w.val = m.val /\ w.cache.block = m.cache.block /\ w.cache.data = m.cache.data
           /\ w.ok => ~w.cache.dirty /\ Lasting(w) = Latest(m)
<1>0. m.ok \in BOOLEAN /\ m.cache.dirty \in BOOLEAN /\ IsDisk(m.disk) /\ CacheOK(m.disk, m.cache)
  BY DEF Mach, CacheOK
<1>1. CASE ~m.ok \/ ~m.cache.dirty
  <2>1. w = m
    BY <1>1 DEF CacheSync
  <2>2. ~m.cache.dirty => Lasting(m) = Latest(m)
    <3>1. ~m.cache.dirty => m.cache.block \notin Meta \/ m.disk[m.cache.block] = m.cache.data
      BY <1>0 DEF CacheOK
    <3>2. IsBlock(m.cache.block, m.cache.data)
      BY <1>0 DEF CacheOK
    <3> QED
      BY <1>0, <3>1, <3>2, Overlay DEF Lasting, Latest
  <2> QED
    BY <1>0, <1>1, <2>1, <2>2, MovesSelf
<1>2. CASE m.ok /\ m.cache.dirty
  <2> DEFINE w1 == WriteBlock(m, m.cache.block, m.cache.data)
             w2 == SecondFat(w1)
  <2>1. w = Cleaned(w2)
    BY <1>2 DEF CacheSync
  <2>2. /\ Moves(m, w1) /\ w1.cache = m.cache /\ w1.val = m.val
        /\ w1.ok => w1.disk = [m.disk EXCEPT ![m.cache.block] = m.cache.data]
    <3>1. Harmless(m, m.cache.block, m.cache.data)
      BY <1>0 DEF CacheOK, Harmless
    <3> QED
      BY <3>1, WriteMoves
  <2> HIDE DEF w1
  <2>3. /\ Moves(w1, w2) /\ w2.cache = w1.cache /\ w2.val = w1.val
        /\ w2.ok => Lasting(w2) = Lasting(w1) /\ w1.ok /\ (w2.cache.block \in Meta => w2.disk[w2.cache.block] = w1.disk[w2.cache.block])
    <3>1. CASE ~w1.cache.fat
      <4>1. w2 = w1
        BY <3>1 DEF SecondFat
      <4> QED
        BY <2>2, <4>1, MovesSelf DEF Moves
    <3>2. CASE w1.cache.fat
      <4> DEFINE b == <<"fat", 2, w1.cache.block[3]>>
      <4>1. w2 = WriteBlock(w1, b, w1.cache.data)
        BY <3>2 DEF SecondFat
      <4>2. b \notin Meta /\ IsBlock(b, w1.cache.data) /\ Mach(w1)
        <5>1. b \notin Meta
          BY Blocks
        <5> HIDE DEF b
        <5> QED
          BY <2>2, <5>1 DEF IsBlock, Meta, Moves
      <4> HIDE DEF b
      <4>3. /\ Moves(w1, w2) /\ w2.cache = w1.cache /\ w2.val = w1.val
            /\ w2.ok => w2.disk = [w1.disk EXCEPT ![b] = w1.cache.data]
        <5>1. Harmless(w1, b, w1.cache.data)
          BY <4>2 DEF Harmless
        <5> QED
          BY <4>1, <4>2, <5>1, WriteMoves
      <4>4. w2.ok => Lasting(w2) = Lasting(w1)
        <5>1. IsDisk(w1.disk)
          BY <4>2 DEF Mach
        <5> QED
          BY <4>2, <4>3, <5>1, Overlay DEF Lasting
      <4>5. w2.ok /\ w2.cache.block \in Meta => w2.disk[w2.cache.block] = w1.disk[w2.cache.block]
        <5>1. Meta \subseteq DOMAIN w1.disk
          BY <4>2 DEF Mach, IsDisk
        <5> QED
          BY <4>2, <4>3, <5>1
      <4> QED
        BY <4>3, <4>4, <4>5 DEF Moves
    <3> QED
      BY <3>1, <3>2
  <2> HIDE DEF w2
  <2>4. Moves(m, w2) /\ w2.cache = m.cache /\ w2.val = m.val
    BY <2>2, <2>3, MovesTwice
  <2>5. w2.ok => Lasting(w2) = Latest(m) /\ (w2.cache.block \in Meta => w2.cache.data = w2.disk[w2.cache.block])
    <3>1. ASSUME w2.ok PROVE w1.ok /\ w1.disk = [m.disk EXCEPT ![m.cache.block] = m.cache.data]
      BY <2>2, <2>3, <3>1
    <3>2. ASSUME w2.ok PROVE Lasting(w2) = Latest(m)
      BY <2>3, <3>1, <3>2 DEF Lasting, Latest
    <3>3. ASSUME w2.ok, w2.cache.block \in Meta PROVE w2.cache.data = w2.disk[w2.cache.block]
      <4>1. IsBlock(m.cache.block, m.cache.data)
        BY <1>0 DEF CacheOK
      <4>2. w1.disk[m.cache.block] = m.cache.data
        BY <1>0, <2>4, <3>1, <3>3, <4>1, Overlay
      <4> QED
        BY <2>3, <2>4, <3>3, <4>2
    <3> QED
      BY <3>2, <3>3
  <2>6. CASE ~w2.ok
    BY <2>1, <2>4, <2>6 DEF Cleaned, Moves
  <2>7. CASE w2.ok
    <3>0. Shape(w2) /\ w2.ok \in BOOLEAN /\ w2.n \in Nat /\ IsDisk(w2.disk) /\ CacheOK(w2.disk, w2.cache)
      BY <2>4 DEF Moves, Mach
    <3>1. w = [w2 EXCEPT !.cache.dirty = FALSE]
      BY <2>1, <2>7 DEF Cleaned
    <3>2. /\ Shape(w) /\ w.disk = w2.disk /\ w.n = w2.n /\ w.ok = w2.ok /\ Others(w2, w) /\ w.val = w2.val
          /\ w.cache = [w2.cache EXCEPT !.dirty = FALSE]
      BY <3>0, <3>1 DEF Shape, Others
    <3>3. /\ w.cache = [block |-> w.cache.block, data |-> w.cache.data, dirty |-> w.cache.dirty, fat |-> w.cache.fat]
          /\ w.cache.block = m.cache.block /\ w.cache.data = m.cache.data /\ ~w.cache.dirty
          /\ w.cache.dirty = FALSE /\ w.cache.fat = m.cache.fat
      BY <2>4, <3>0, <3>2 DEF CacheOK
    <3>4. CacheOK(w.disk, w.cache)
      BY <2>4, <2>5, <2>7, <3>0, <3>2, <3>3 DEF CacheOK
    <3>5. Mach(w)
      BY <3>0, <3>2, <3>4 DEF Mach
    <3>6. Latest(w) = Latest(w2) /\ Lasting(w) = Lasting(w2)
      BY <2>4, <3>2, <3>3 DEF Latest, Lasting
    <3>7. Moves(m, w)
      BY <2>4, <3>2, <3>5, <3>6 DEF Moves, Others, Course, Blamed
    <3> QED
      BY <2>4, <2>5, <2>7, <3>2, <3>3, <3>6, <3>7
  <2> QED
    BY <2>6, <2>7, <2>4
<1> QED
  BY <1>0, <1>1, <1>2

\* A block that is read into the cache in place of one that is written.
Fetched(m, b, w) ==
    /\ Moves(m, w) /\ w.val = m.val
    /\ w.ok => w.cache.block = b

LEMMA CacheFilled ==
    ASSUME NEW m, Mach(m), Lasting(m) = Latest(m), NEW c, CacheOK(m.disk, c),
           c.block \in Meta => c.data = m.disk[c.block],
           NEW j \in {m.n, m.n + 1}, j = m.n \/ m.n \notin m.bad,
           NEW w, w = [m EXCEPT !.cache = c, !.n = j]
    PROVE  Fetched(m, c.block, w)
<1>1. /\ Shape(m) /\ m.n \in Nat /\ m.ok \in BOOLEAN /\ IsDisk(m.disk)
  BY DEF Mach
<1>2. /\ Shape(w) /\ w.disk = m.disk /\ w.cache = c /\ w.n = j /\ w.ok = m.ok /\ Others(m, w) /\ w.val = m.val
  BY <1>1 DEF Shape, Others
<1>3. Mach(w)
  BY <1>1, <1>2 DEF Mach
<1>4. Lasting(w) = Lasting(m) /\ Latest(w) = Latest(m)
  <2>1. IsBlock(c.block, c.data)
    BY DEF CacheOK
  <2>2. View([m.disk EXCEPT ![c.block] = c.data]) = View(m.disk)
    <3>1. PICK d, b, t : d = m.disk /\ b = c.block /\ t = c.data
      OBVIOUS
    <3>2. IsDisk(d) /\ IsBlock(b, t) /\ (b \notin Meta \/ d[b] = t)
      BY <1>1, <2>1, <3>1
    <3>3. View([d EXCEPT ![b] = t]) = View(d)
      BY <3>2, Overlay
    <3> QED
      BY <3>1, <3>3
  <2>3. Lasting(w) = View(m.disk) /\ Latest(w) = View([m.disk EXCEPT ![c.block] = c.data])
    <3>1. w.disk = m.disk /\ w.cache = c
      BY <1>2
    <3> QED
      BY <3>1, Zenon DEF Lasting, Latest
  <2>4. Lasting(m) = View(m.disk)
    BY Zenon DEF Lasting
  <2> QED
    BY <2>2, <2>3, <2>4, Zenon
<1>5. Course(m, w) /\ Blamed(m, w) /\ (w.ok => m.ok)
  BY <1>1, <1>2, <1>4 DEF Course, Blamed
<1>6. Moves(m, w)
  BY <1>2, <1>3, <1>4, <1>5 DEF Moves
<1> QED
  BY <1>2, <1>6 DEF Fetched

\* A block is read when nothing in the cache waits to be written.
LEMMA ReadMoves ==
    ASSUME NEW m, Mach(m), Lasting(m) = Latest(m), NEW b, NEW fat \in BOOLEAN, fat <=> b \in FatBlocks, NEW dirty \in BOOLEAN,
           NEW w, w = ReadBlock(m, b, dirty, fat)
    PROVE  Fetched(m, b, w)
<1> DEFINE c == [block |-> b, dirty |-> dirty, fat |-> fat, data |-> IF b = BootBlock THEN <<>> ELSE m.disk[b]]
           done == [m EXCEPT !.cache = c]
<1>1. Shape(m) /\ m.n \in Nat /\ m.ok \in BOOLEAN /\ IsDisk(m.disk)
  BY DEF Mach
<1>2. w = Transfer(m, done)
  BY DEF ReadBlock
<1>3. c.block = b /\ c = [block |-> c.block, data |-> c.data, dirty |-> c.dirty, fat |-> c.fat]
      /\ c.dirty \in BOOLEAN /\ c.fat \in BOOLEAN /\ (c.fat <=> c.block \in FatBlocks) /\ (b # BootBlock => c.data = m.disk[b])
  OBVIOUS
<1> HIDE DEF c
<1>4. CacheOK(m.disk, c) /\ (c.block \in Meta => c.data = m.disk[c.block])
  <2>1. IsBlock(b, c.data)
    <3>1. CASE b \in Meta
      BY <1>1, <1>3, <3>1, Blocks DEF IsDisk
    <3>2. CASE b \notin Meta
      BY <3>2 DEF IsBlock, Meta
    <3> QED
      BY <3>1, <3>2
  <2>2. b \in Meta => c.data = m.disk[b]
    BY <1>3, Blocks
  <2> QED
    BY <1>3, <2>1, <2>2 DEF CacheOK
<1>5. Shape(done) /\ done.n = m.n /\ done.disk = m.disk
  BY <1>1 DEF Shape
<1>6. CASE ~m.ok
  <2>1. w = m
    BY <1>2, <1>6 DEF Transfer
  <2> QED
    BY <1>6, <2>1, MovesSelf DEF Fetched
<1>7. CASE m.ok /\ m.n \notin m.bad
  <2>1. w = [m EXCEPT !.cache = c, !.n = m.n + 1]
    <3>1. w = [done EXCEPT !.n = m.n + 1]
      BY <1>1, <1>2, <1>5, <1>7 DEF Transfer
    <3> QED
      BY <1>1, <3>1 DEF Shape
  <2> HIDE DEF done
  <2> QED
    BY <1>3, <1>4, <1>7, <2>1, CacheFilled
<1>8. CASE m.ok /\ m.n \in m.bad
  <2>1. /\ w.disk = m.disk /\ w.cache = m.cache /\ w.ok = FALSE /\ ~w.ok /\ w.n = m.n + 1 /\ w.val = m.val /\ Others(m, w) /\ Shape(w)
    <3>1. w = [m EXCEPT !.n = @ + 1, !.ok = FALSE, !.disk = IF m.n \in m.took THEN done.disk ELSE @]
      BY <1>2, <1>8 DEF Transfer
    <3>2. w = [m EXCEPT !.n = @ + 1, !.ok = FALSE, !.disk = m.disk]
      BY <1>1, <1>5, <3>1
    <3>3. w.ok = FALSE /\ ~w.ok
      BY <1>1, <3>2 DEF Shape
    <3> QED
      BY <1>1, <3>2, <3>3 DEF Shape, Others
  <2>2. Mach(w)
    <3>1. CacheOK(m.disk, m.cache)
      BY DEF Mach
    <3>2. w.n \in Nat /\ w.ok \in BOOLEAN
      <4>1. w.n \in Nat
        BY <1>1, <2>1
      <4>2. w.ok \in BOOLEAN
        BY <2>1
      <4> QED
        BY <4>1, <4>2
    <3> QED
      BY <1>1, <2>1, <3>1, <3>2 DEF Mach
  <2>3. Lasting(w) = Lasting(m) /\ Latest(w) = Latest(m)
    BY <2>1 DEF Lasting, Latest
  <2>4. Course(m, w)
    BY <1>1, <2>1, <2>3 DEF Course
  <2>5. Blamed(m, w) /\ (w.ok => m.ok)
    BY <1>1, <1>8, <2>1 DEF Blamed
  <2> QED
    BY <2>1, <2>2, <2>3, <2>4, <2>5 DEF Fetched, Moves
<1> QED
  BY <1>1, <1>6, <1>7, <1>8

IsCache(c) == c = [block |-> c.block, data |-> c.data, dirty |-> c.dirty, fat |-> c.fat]

\* A block that is in the cache already is marked as dirty or as a block of the FAT.
Marked(c, x, y, e) == IsCache(e) /\ e.block = c.block /\ e.data = c.data /\ e.dirty = x /\ e.fat = y

LEMMA CacheMarked ==
    ASSUME NEW c, IsCache(c), NEW x, NEW y, NEW e, e = [c EXCEPT !.dirty = x, !.fat = y]
    PROVE  Marked(c, x, y, e)
BY DEF IsCache, Marked

\* cacheFetch: written back, read, marked; whatever fails.
LEMMA FetchMoves ==
    ASSUME NEW m, Mach(m), NEW b, NEW fat \in BOOLEAN, fat <=> b \in FatBlocks, NEW mode, mode = "reserve" => b \notin Meta,
           NEW w, w = CacheFetch(m, b, mode, fat)
    PROVE  Fetched(m, b, w) /\ (w.ok /\ mode # "read" => w.cache.dirty)
<1>1. /\ Shape(m) /\ m.n \in Nat /\ m.ok \in BOOLEAN /\ IsDisk(m.disk) /\ CacheOK(m.disk, m.cache)
  BY DEF Mach
<1>2. CASE ~m.ok
  <2>1. w = m
    BY <1>2 DEF CacheFetch
  <2> QED
    BY <1>2, <2>1, MovesSelf DEF Fetched
<1>3. CASE m.ok /\ m.cache.block = b
  <2>1. w = [m EXCEPT !.cache.dirty = @ \/ mode # "read", !.cache.fat = @ \/ fat]
    BY <1>3 DEF CacheFetch
  <2>0. PICK dirt \in BOOLEAN, isFat \in BOOLEAN : dirt = (m.cache.dirty \/ mode # "read") /\ isFat = (m.cache.fat \/ fat)
    OBVIOUS
  <2>c. PICK c : c = [m.cache EXCEPT !.dirty = dirt, !.fat = isFat]
    OBVIOUS
  <2>2. /\ Shape(w) /\ w.disk = m.disk /\ w.cache = c /\ w.n = m.n /\ w.ok = m.ok /\ Others(m, w) /\ w.val = m.val
    <3>1. w = [m EXCEPT !.cache = [@ EXCEPT !.dirty = m.cache.dirty \/ mode # "read", !.fat = m.cache.fat \/ fat]]
      BY <2>1
    <3>2. w = [m EXCEPT !.cache = c]
      BY <2>0, <2>1, <2>c
    <3> QED
      BY <1>1, <3>2 DEF Shape, Others
  <2>3. m.cache = [block |-> m.cache.block, data |-> m.cache.data, dirty |-> m.cache.dirty, fat |-> m.cache.fat]
        /\ m.cache.dirty \in BOOLEAN /\ m.cache.fat \in BOOLEAN /\ (m.cache.fat <=> b \in FatBlocks)
    BY <1>1, <1>3 DEF CacheOK
  <2>12. IsCache(c) /\ c.block = m.cache.block /\ c.data = m.cache.data /\ c.dirty = dirt /\ c.fat = isFat
    <3>1. IsCache(m.cache)
      BY <2>3 DEF IsCache
    <3>2. Marked(m.cache, dirt, isFat, c)
      BY <2>c, <3>1, CacheMarked
    <3> QED
      BY <3>2 DEF Marked
  <2>4. c.block = b /\ c.data = m.cache.data
    BY <1>3, <2>12
  <2>10. c.dirty = dirt /\ c.fat = isFat
    BY <2>12
  <2>11. c.dirty \in BOOLEAN /\ c.fat \in BOOLEAN /\ (c.dirty <=> m.cache.dirty \/ mode # "read") /\ (c.fat <=> b \in FatBlocks)
    <3> QED
      BY <2>0, <2>3, <2>10
  <2>5. CacheOK(m.disk, c)
    BY <1>1, <1>3, <2>3, <2>4, <2>11, <2>12 DEF CacheOK, IsCache
  <2>6. Lasting(w) = Lasting(m) /\ Latest(w) = Latest(m)
    BY <1>3, <2>2, <2>4 DEF Lasting, Latest
  <2>7. Mach(w)
    BY <1>1, <2>2, <2>5 DEF Mach
  <2>8. Course(m, w) /\ Blamed(m, w) /\ (w.ok => m.ok)
    BY <1>1, <2>2, <2>6 DEF Course, Blamed
  <2>9. w.cache.block = b /\ (mode # "read" => w.cache.dirty)
    BY <2>2, <2>4, <2>11
  <2> QED
    BY <2>2, <2>6, <2>7, <2>8, <2>9 DEF Fetched, Moves
<1>4. CASE m.ok /\ m.cache.block # b
  <2> DEFINE s == CacheSync(m)
  <2>1. w = CacheLoad(s, b, mode, fat)
    BY <1>4 DEF CacheFetch
  <2>2. /\ Moves(m, s) /\ s.val = m.val /\ (s.ok => Lasting(s) = Latest(s)) /\ Mach(s) /\ s.ok \in BOOLEAN
    <3>1. Moves(m, s) /\ s.val = m.val /\ (s.ok => Lasting(s) = Latest(m))
      BY SyncMoves
    <3> HIDE DEF s
    <3> QED
      BY <3>1 DEF Moves, Mach
  <2> HIDE DEF s
  <2>3. CASE ~s.ok
    <3>1. w = s
      BY <2>1, <2>3 DEF CacheLoad, ReadBlock, Transfer
    <3> QED
      BY <2>2, <2>3, <3>1 DEF Fetched
  <2>4. CASE s.ok /\ mode = "reserve"
    <3> DEFINE c == [block |-> b, dirty |-> TRUE, fat |-> FALSE, data |-> [i \in 1 .. BlockSize |-> 0]]
    <3>1. w = [s EXCEPT !.cache = c]
      BY <2>1, <2>4 DEF CacheLoad
    <3>2. c.block = b /\ c.dirty = TRUE /\ c.fat = FALSE /\ c.dirty \in BOOLEAN /\ c.fat \in BOOLEAN /\ ~c.fat /\ c = [block |-> c.block, data |-> c.data, dirty |-> c.dirty, fat |-> c.fat]
      OBVIOUS
    <3> HIDE DEF c
    <3>3. w = [s EXCEPT !.cache = c, !.n = s.n]
      <4>1. Shape(s)
        BY <2>2 DEF Mach
      <4> QED
        BY <3>1, <4>1 DEF Shape
    <3>4. CacheOK(s.disk, c) /\ c.block \notin Meta
      <4>1. b \notin Meta
        BY <2>4
      <4> QED
        <5>1. b \notin FatBlocks /\ b \notin DirBlocks
          BY <4>1 DEF Meta
        <5>2. IsBlock(c.block, c.data)
          BY <3>2, <5>1 DEF IsBlock
        <5>3. c.fat <=> c.block \in FatBlocks
          BY <3>2, <5>1
        <5> QED
          <6>1. c.block \notin Meta
            BY <3>2, <4>1
          <6>2. CacheOK(s.disk, c)
            BY <3>2, <5>2, <5>3, <6>1 DEF CacheOK
          <6> QED
            BY <6>1, <6>2
    <3>5. Fetched(s, c.block, w)
      BY <2>2, <2>4, <3>3, <3>4, CacheFilled
    <3>6. w.cache = c
      BY <2>2, <3>1 DEF Mach, Shape
    <3> QED
      BY <2>2, <3>2, <3>5, <3>6, MovesTwice DEF Fetched
  <2>5. CASE s.ok /\ mode # "reserve"
    <3>1. w = ReadBlock(s, b, mode # "read", fat)
      BY <2>1, <2>5 DEF CacheLoad
    <3>2. Fetched(s, b, w)
      BY <2>2, <2>5, <3>1, ReadMoves
    <3>3. w.ok /\ mode # "read" => w.cache.dirty
      <4>1. SUFFICES ASSUME w.ok, mode # "read" PROVE w.cache.dirty
        OBVIOUS
      <4>2. Shape(s) /\ s.ok \in BOOLEAN
        BY <2>2 DEF Mach
      <4> DEFINE c == [block |-> b, dirty |-> TRUE, fat |-> fat, data |-> IF b = BootBlock THEN <<>> ELSE s.disk[b]]
      <4>3. w = Transfer(s, [s EXCEPT !.cache = c])
        BY <3>1, <4>1 DEF ReadBlock
      <4>4. c.dirty = TRUE
        OBVIOUS
      <4> HIDE DEF c
      <4>5. CASE s.n \in s.bad
        BY <2>5, <4>1, <4>2, <4>3, <4>5 DEF Transfer, Shape
      <4>6. CASE s.n \notin s.bad
        BY <2>5, <4>2, <4>3, <4>4, <4>6 DEF Transfer, Shape
      <4> QED
        BY <4>5, <4>6
    <3> QED
      BY <2>2, <3>2, <3>3, MovesTwice DEF Fetched
  <2> QED
    BY <2>2, <2>3, <2>4, <2>5
<1> QED
  BY <1>1, <1>2, <1>3, <1>4

-----------------------------------------------------------------------------
\* What the cache holds shows.
LEMMA CachedLink ==
    ASSUME NEW m, Mach(m), NEW c \in Cluster, m.cache.block = FatBlock(1, c)
    PROVE  m.cache.data[c] = Latest(m).fat[c] /\ m.cache.data[c] \in Links
<1>0. m.cache.block \in FatBlocks
  BY Blocks
<1>1. /\ IsDisk(m.disk) /\ IsBlock(m.cache.block, m.cache.data) /\ m.cache.block \in Meta /\ m.cache.block \in FatBlocks
  <2>1. IsDisk(m.disk) /\ CacheOK(m.disk, m.cache)
    BY DEF Mach
  <2>2. IsBlock(m.cache.block, m.cache.data)
    BY <2>1 DEF CacheOK
  <2> QED
    BY <1>0, <2>1, <2>2 DEF Meta
<1>2. [m.disk EXCEPT ![m.cache.block] = m.cache.data][m.cache.block] = m.cache.data
  <2>1. m.cache.block \in DOMAIN m.disk
    BY <1>1 DEF IsDisk
  <2> QED
    BY <2>1
<1>3. Latest(m).fat[c] = m.cache.data[c]
  <2> DEFINE e == [m.disk EXCEPT ![m.cache.block] = m.cache.data]
  <2>1. Latest(m) = View(e) /\ e[FatBlock(1, c)] = m.cache.data
    BY <1>2 DEF Latest
  <2> HIDE DEF e
  <2>2. View(e).fat[c] = FatOf(e, c)
    BY DEF View
  <2> QED
    BY <2>1, <2>2 DEF FatOf
<1>4. m.cache.data[c] \in Links
  BY <1>1 DEF IsBlock
<1> QED
  BY <1>3, <1>4

\* So does an entry of the directory.
LEMMA CachedEntry ==
    ASSUME NEW m, Mach(m), m.cache.block \in DirBlocks, NEW k \in 1 .. EntriesPerBlock
    PROVE  m.cache.data[k] = Latest(m).ent[<<m.cache.block, k>>] /\ m.cache.data[k] \in Entry
           /\ <<m.cache.block, k>> \in Places
<1>1. /\ IsDisk(m.disk) /\ IsBlock(m.cache.block, m.cache.data) /\ m.cache.block \in Meta
  BY Blocks DEF Mach, CacheOK, Meta
<1>2. [m.disk EXCEPT ![m.cache.block] = m.cache.data][m.cache.block] = m.cache.data
  <2>1. PICK d, b, t : d = m.disk /\ b = m.cache.block /\ t = m.cache.data
    OBVIOUS
  <2>2. IsDisk(d) /\ IsBlock(b, t) /\ b \in Meta
    BY <1>1, <2>1
  <2>3. [d EXCEPT ![b] = t][b] = t
    BY <2>2, Overlay
  <2> QED
    BY <2>1, <2>3
<1>3. <<m.cache.block, k>> \in Places
  BY DEF Places
<1>4. Latest(m).ent[<<m.cache.block, k>>] = m.cache.data[k]
  BY <1>2, <1>3 DEF Latest, View, EntryAt
<1>5. m.cache.data[k] \in Entry
  BY <1>1 DEF IsBlock
<1> QED
  BY <1>3, <1>4, <1>5

Changed(m, i, v, w) ==
    /\ Mach(w) /\ Others(m, w) /\ w.val = m.val /\ w.ok = m.ok /\ Lasting(w) = Lasting(m) /\ w.n = m.n /\ w.disk = m.disk
    /\ w.cache.block = m.cache.block /\ w.cache.data = [m.cache.data EXCEPT ![i] = v] /\ w.cache.dirty

\* A change in the cached block, which is then to be written.
LEMMA CacheChanged ==
    ASSUME NEW m, Mach(m), m.ok, m.cache.dirty, NEW i, NEW v, NEW w, w = SetCached(m, i, v),
           IsBlock(m.cache.block, [m.cache.data EXCEPT ![i] = v])
    PROVE  Changed(m, i, v, w)
<1>1. /\ Shape(m) /\ m.n \in Nat /\ m.ok \in BOOLEAN /\ IsDisk(m.disk) /\ CacheOK(m.disk, m.cache)
  BY DEF Mach
<1>2. w = [m EXCEPT !.cache.data[i] = v]
  BY DEF SetCached
<1>3. PICK e : e = [m.cache EXCEPT !.data = [m.cache.data EXCEPT ![i] = v]]
  OBVIOUS
<1>4. w = [m EXCEPT !.cache = e]
  BY <1>2, <1>3
<1>5. IsCache(m.cache) /\ m.cache.dirty \in BOOLEAN /\ m.cache.fat \in BOOLEAN /\ (m.cache.fat <=> m.cache.block \in FatBlocks)
  BY <1>1 DEF CacheOK, IsCache
<1>6. IsCache(e) /\ e.block = m.cache.block /\ e.data = [m.cache.data EXCEPT ![i] = v] /\ e.dirty = m.cache.dirty /\ e.fat = m.cache.fat
  BY <1>3, <1>5 DEF IsCache
<1>7. Shape(w) /\ w.cache = e /\ Others(m, w) /\ w.val = m.val /\ w.ok = m.ok /\ w.n = m.n /\ w.disk = m.disk
  BY <1>1, <1>4 DEF Shape, Others
<1>8. CacheOK(w.disk, w.cache)
  BY <1>1, <1>5, <1>6, <1>7 DEF CacheOK, IsCache
<1>9. Mach(w)
  BY <1>1, <1>7, <1>8 DEF Mach
<1>10. Lasting(w) = Lasting(m)
  BY <1>7 DEF Lasting
<1>11. w.cache.dirty
  BY <1>6, <1>7
<1> QED
  BY <1>6, <1>7, <1>9, <1>10, <1>11 DEF Changed

\* The change shows.
LEMMA LinkShows ==
    ASSUME NEW d, IsDisk(d), NEW c \in Cluster, NEW v \in Links, NEW b, b = FatBlock(1, c), NEW old, IsBlock(b, old),
           NEW new, new = [old EXCEPT ![c] = v], NEW x0, x0 = View([d EXCEPT ![b] = old]),
           NEW y0, y0 = View([d EXCEPT ![b] = new])
    PROVE  IsBlock(b, new) /\ y0 = [x0 EXCEPT !.fat[c] = v]
<1> DEFINE S == {x \in Cluster : FatBlock(1, x) = b}
<1>1. /\ old \in [S -> Links] /\ c \in S /\ b \in Meta /\ b \notin DirBlocks
  BY Blocks DEF IsBlock, Meta
<1>2. new \in [S -> Links] /\ \A x \in S : new[x] = IF x = c THEN v ELSE old[x]
  BY <1>1
<1>3. IsBlock(b, new)
  BY <1>1, <1>2 DEF IsBlock
<1>4. d = [x \in DOMAIN d |-> d[x]] /\ Meta \subseteq DOMAIN d
  BY DEF IsDisk
<1> DEFINE d1 == [d EXCEPT ![b] = old]
           d2 == [d EXCEPT ![b] = new]
<1>5. \A x \in Meta : d1[x] = (IF x = b THEN old ELSE d[x]) /\ d2[x] = (IF x = b THEN new ELSE d[x])
  BY <1>4
<1> HIDE DEF S, d1, d2
<1>6. \A x \in Cluster : FatOf(d2, x) = IF x = c THEN v ELSE FatOf(d1, x)
  <2> TAKE x \in Cluster
  <2>1. FatBlock(1, x) \in Meta
    BY Blocks DEF Meta
  <2>2. CASE FatBlock(1, x) = b
    <3>1. x \in S
      BY <2>2 DEF S
    <3> QED
      BY <1>2, <1>5, <2>1, <2>2, <3>1 DEF FatOf
  <2>3. CASE FatBlock(1, x) # b
    <3>1. x # c
      BY <2>3
    <3> QED
      BY <1>5, <2>1, <2>3, <3>1 DEF FatOf
  <2> QED
    BY <2>2, <2>3
<1>7. \A p \in Places : EntryAt(d2, p) = EntryAt(d1, p)
  <2> TAKE p \in Places
  <2>1. p[1] \in Meta /\ p[1] # b
    BY <1>1, Blocks DEF Meta
  <2> QED
    BY <1>5, <2>1 DEF EntryAt
<1>8. View(d2) = [View(d1) EXCEPT !.fat[c] = v]
  <2> DEFINE f1 == [x \in Cluster |-> FatOf(d1, x)]
             f2 == [x \in Cluster |-> FatOf(d2, x)]
             e1 == [p \in Places |-> EntryAt(d1, p)]
             e2 == [p \in Places |-> EntryAt(d2, p)]
  <2>1. f2 = [f1 EXCEPT ![c] = v]
    BY <1>6
  <2>2. e1 = e2
    BY <1>7
  <2>3. View(d1) = [fat |-> f1, ent |-> e1] /\ View(d2) = [fat |-> f2, ent |-> e2]
    BY DEF View
  <2> HIDE DEF f1, f2, e1, e2
  <2>4. [View(d1) EXCEPT !.fat[c] = v] = [fat |-> [f1 EXCEPT ![c] = v], ent |-> e1]
    BY <2>3
  <2> QED
    BY <2>1, <2>2, <2>3, <2>4
<1> QED
  BY <1>3, <1>8 DEF d1, d2

\* The change of an entry shows in the view, and nowhere else.
EntryShown(b, k, e, new, x, y) == IsBlock(b, new) /\ y = [x EXCEPT !.ent[<<b, k>>] = e]

LEMMA EntryShows ==
    ASSUME NEW d, IsDisk(d), NEW b \in DirBlocks, NEW k \in 1 .. EntriesPerBlock, NEW e \in Entry, NEW old, IsBlock(b, old),
           NEW new, new = [old EXCEPT ![k] = e], NEW x0, x0 = View([d EXCEPT ![b] = old]),
           NEW y0, y0 = View([d EXCEPT ![b] = new])
    PROVE  EntryShown(b, k, e, new, x0, y0)
<1>1. /\ old \in [1 .. EntriesPerBlock -> Entry] /\ b \in Meta /\ b \notin FatBlocks /\ <<b, k>> \in Places
  BY Blocks DEF IsBlock, Meta, Places
<1>2. new \in [1 .. EntriesPerBlock -> Entry] /\ \A x \in 1 .. EntriesPerBlock : new[x] = IF x = k THEN e ELSE old[x]
  BY <1>1
<1>3. IsBlock(b, new)
  BY <1>1, <1>2 DEF IsBlock
<1>4. d = [x \in DOMAIN d |-> d[x]] /\ Meta \subseteq DOMAIN d
  BY DEF IsDisk
<1> DEFINE d1 == [d EXCEPT ![b] = old]
           d2 == [d EXCEPT ![b] = new]
<1>5. \A x \in Meta : d1[x] = (IF x = b THEN old ELSE d[x]) /\ d2[x] = (IF x = b THEN new ELSE d[x])
  BY <1>4
<1> HIDE DEF d1, d2
<1>6. \A x \in Cluster : FatOf(d2, x) = FatOf(d1, x)
  <2> TAKE x \in Cluster
  <2>1. FatBlock(1, x) \in Meta /\ FatBlock(1, x) # b
    BY <1>1, Blocks DEF Meta
  <2> QED
    BY <1>5, <2>1 DEF FatOf
<1>7. \A p \in Places : EntryAt(d2, p) = IF p = <<b, k>> THEN e ELSE EntryAt(d1, p)
  <2> TAKE p \in Places
  <2>1. p[1] \in Meta /\ p[2] \in 1 .. EntriesPerBlock /\ p = <<p[1], p[2]>>
    BY Blocks DEF Meta
  <2>2. CASE p[1] = b
    <3>1. p = <<b, k>> <=> p[2] = k
      BY <2>1, <2>2
    <3> QED
      BY <1>2, <1>5, <2>1, <2>2, <3>1 DEF EntryAt
  <2>3. CASE p[1] # b
    BY <1>5, <2>1, <2>3 DEF EntryAt
  <2> QED
    BY <2>2, <2>3
<1>8. View(d2) = [View(d1) EXCEPT !.ent[<<b, k>>] = e]
  <2> DEFINE f1 == [x \in Cluster |-> FatOf(d1, x)]
             f2 == [x \in Cluster |-> FatOf(d2, x)]
             e1 == [p \in Places |-> EntryAt(d1, p)]
             e2 == [p \in Places |-> EntryAt(d2, p)]
  <2>1. e2 = [e1 EXCEPT ![<<b, k>>] = e]
    BY <1>1, <1>7
  <2>2. f1 = f2
    BY <1>6
  <2>3. View(d1) = [fat |-> f1, ent |-> e1] /\ View(d2) = [fat |-> f2, ent |-> e2]
    BY DEF View
  <2> HIDE DEF f1, f2, e1, e2
  <2>4. [View(d1) EXCEPT !.ent[<<b, k>>] = e] = [fat |-> f1, ent |-> [e1 EXCEPT ![<<b, k>>] = e]]
    BY <2>3
  <2> QED
    BY <2>1, <2>2, <2>3, <2>4
<1> QED
  BY <1>3, <1>8 DEF d1, d2, EntryShown

LEMMA FatBlocksOnly == \A c \in Cluster : FatBlock(1, c) \in FatBlocks
BY Blocks

\* What a lookup in the FAT returns.
LEMMA FatGets ==
    ASSUME NEW m, Mach(m), NEW c, NEW w, w = FatGet(m, c)
    PROVE  /\ Mach(w) /\ (c \in Cluster => Moves(m, w))
           /\ Others(m, w) /\ Latest(w) = Latest(m)
           /\ w.ok => c \in Cluster /\ m.ok /\ w.val = Latest(m).fat[c]
           /\ ~w.ok => w.val = m.val
<1>1. /\ Shape(m) /\ m.n \in Nat /\ m.ok \in BOOLEAN
  BY DEF Mach
<1>2. CASE ~m.ok \/ c \notin Cluster
  <2>1. w = [m EXCEPT !.ok = FALSE]
    BY <1>2 DEF FatGet, Fail
  <2>2. Shape(w) /\ w.ok = FALSE /\ w.n = m.n /\ w.disk = m.disk /\ w.cache = m.cache /\ w.val = m.val /\ Others(m, w)
    BY <1>1, <2>1 DEF Shape, Others
  <2>3. Mach(w)
    BY <2>2 DEF Mach
  <2>4. Latest(w) = Latest(m)
    BY <2>2 DEF Latest
  <2>5. c \in Cluster => w = m
    BY <1>1, <1>2, <2>1 DEF Shape
  <2>6. ~w.ok
    BY <2>2
  <2>7. c \in Cluster => Moves(m, w)
    BY <2>5, MovesSelf
  <2> QED
    BY <2>2, <2>3, <2>4, <2>6, <2>7
<1>3. CASE m.ok /\ c \in Cluster
  <2> DEFINE w1 == CacheFetch(m, FatBlock(1, c), "read", TRUE)
  <2>1. w = ValueAt(w1, c)
    BY <1>3 DEF FatGet
  <2>2. Fetched(m, FatBlock(1, c), w1)
    BY <1>3, FatBlocksOnly, FetchMoves
  <2> HIDE DEF w1
  <2>3. Moves(m, w1) /\ w1.val = m.val /\ (w1.ok => w1.cache.block = FatBlock(1, c))
    BY <2>2 DEF Fetched
  <2>4. Mach(w1) /\ Others(m, w1) /\ Latest(w1) = Latest(m) /\ Shape(w1)
    BY <2>3 DEF Moves, Mach
  <2>5. CASE ~w1.ok
    <3>1. w = w1
      BY <2>1, <2>5 DEF ValueAt
    <3> QED
      BY <1>3, <2>3, <2>4, <2>5, <3>1
  <2>6. CASE w1.ok
    <3>1. w = [w1 EXCEPT !.val = w1.cache.data[c]]
      BY <2>1, <2>6 DEF ValueAt
    <3>2. /\ Shape(w) /\ w.disk = w1.disk /\ w.cache = w1.cache /\ w.n = w1.n /\ w.ok = w1.ok /\ Others(w1, w)
          /\ w.val = w1.cache.data[c]
      BY <2>4, <3>1 DEF Shape, Others
    <3>3. w.val = Latest(m).fat[c]
      <4>1. w1.cache.data[c] = Latest(w1).fat[c]
        BY <1>3, <2>3, <2>4, <2>6, CachedLink
      <4> QED
        BY <2>4, <3>2, <4>1
    <3>4. Mach(w)
      BY <2>4, <3>2 DEF Mach
    <3>5. Latest(w) = Latest(w1) /\ Lasting(w) = Lasting(w1)
      BY <3>2 DEF Latest, Lasting
    <3>6. Moves(m, w)
      BY <2>3, <3>2, <3>4, <3>5 DEF Moves, Others, Course, Blamed
    <3>7. w.ok /\ Others(m, w)
      BY <2>6, <3>2, <3>6 DEF Moves
    <3> QED
      BY <1>3, <2>4, <3>3, <3>4, <3>5, <3>6, <3>7
  <2> QED
    BY <2>5, <2>6
<1> QED
  BY <1>1, <1>2, <1>3

\* A change of what the card will hold.
Puts(m, w, l) ==
    /\ Mach(w) /\ Others(m, w) /\ w.val = m.val /\ Lasting(w) \in {Lasting(m), Latest(m)}
    /\ Course(m, w) /\ Blamed(m, w) /\ (w.ok => m.ok)
    /\ Latest(w) = IF w.ok THEN l ELSE Latest(m)

\* fatPut changes one entry of the FAT, as the library sees it.
LEMMA FatPuts ==
    ASSUME NEW m, Mach(m), NEW c \in Cluster, NEW v \in Links, NEW w, w = FatPut(m, c, v)
    PROVE  Puts(m, w, [Latest(m) EXCEPT !.fat[c] = v])
<1>1. /\ Shape(m) /\ m.n \in Nat /\ m.ok \in BOOLEAN
  BY DEF Mach
<1> DEFINE l == [Latest(m) EXCEPT !.fat[c] = v]
<1> HIDE DEF l
<1>2. CASE ~m.ok
  <2>1. w = [m EXCEPT !.ok = FALSE]
    BY <1>2 DEF FatPut, Fail
  <2>2. w = m
    BY <1>1, <1>2, <2>1 DEF Shape
  <2>3. Moves(m, w)
    BY <2>2, MovesSelf
  <2>4. Puts(m, w, l)
    BY <1>2, <2>2, <2>3 DEF Puts, Moves
  <2> QED
    BY <2>4 DEF l
<1>3. CASE m.ok
  <2> DEFINE w1 == CacheFetch(m, FatBlock(1, c), "write", TRUE)
  <2>1. w = SetCached(w1, c, v)
    BY <1>3 DEF FatPut
  <2>2. Fetched(m, FatBlock(1, c), w1) /\ (w1.ok => w1.cache.dirty)
    <3>1. PICK b, mode : b = FatBlock(1, c) /\ mode = "write"
      OBVIOUS
    <3>2. b \in FatBlocks /\ mode # "read" /\ mode # "reserve" /\ TRUE \in BOOLEAN /\ (TRUE <=> b \in FatBlocks)
      BY <3>1, FatBlocksOnly
    <3>3. w1 = CacheFetch(m, b, mode, TRUE)
      BY <3>1
    <3>4. Fetched(m, b, w1) /\ (w1.ok /\ mode # "read" => w1.cache.dirty)
      BY <3>2, <3>3, FetchMoves
    <3> QED
      BY <3>1, <3>2, <3>4
  <2> HIDE DEF w1
  <2>3. Moves(m, w1) /\ w1.val = m.val /\ (w1.ok => w1.cache.block = FatBlock(1, c) /\ w1.cache.dirty)
    BY <2>2 DEF Fetched
  <2>4. Mach(w1) /\ Others(m, w1) /\ Latest(w1) = Latest(m) /\ Shape(w1)
    BY <2>3 DEF Moves, Mach
  <2>5. CASE ~w1.ok
    <3>1. w = w1
      BY <2>1, <2>5 DEF SetCached
    <3>2. Puts(m, w, l)
      BY <2>3, <2>5, <3>1 DEF Moves, Puts
    <3> QED
      BY <3>2 DEF l
  <2>6. CASE w1.ok
    <3>1. IsDisk(w1.disk) /\ IsBlock(w1.cache.block, w1.cache.data)
      BY <2>4 DEF Mach, CacheOK
    <3>2. PICK new : new = [w1.cache.data EXCEPT ![c] = v]
      OBVIOUS
    <3>3. PICK y : y = View([w1.disk EXCEPT ![w1.cache.block] = new])
      OBVIOUS
    <3>4. IsBlock(w1.cache.block, new) /\ y = [Latest(w1) EXCEPT !.fat[c] = v]
      BY <2>3, <2>6, <3>1, <3>2, <3>3, LinkShows DEF Latest
    <3>5. Changed(w1, c, v, w)
      BY <2>1, <2>3, <2>4, <2>6, <3>2, <3>4, CacheChanged
    <3>6. Latest(w) = y
      BY <3>2, <3>3, <3>5 DEF Changed, Latest
    <3>8. Latest(w) = l
      BY <2>4, <3>4, <3>6 DEF l
    <3>9. Puts(m, w, l)
      BY <2>3, <2>6, <3>5, <3>8 DEF Changed, Puts, Moves, Others, Course, Blamed
    <3> QED
      BY <3>9 DEF l
  <2> QED
    BY <2>5, <2>6
<1> QED
  BY <1>1, <1>2, <1>3

-----------------------------------------------------------------------------
(* Numbers *)
LEMMA SizeOfCluster == ClusterSize \in Nat \ {0} /\ BlockSize \in Nat /\ BlockSize > 1 /\ ClusterSize > 1
<1>1. BlocksPerCluster \in Nat /\ BlocksPerCluster >= 1 /\ BlockSize \in Nat /\ BlockSize > 1
  BY FatAssumption, LogAssumption
<1>2. BlockSize * BlocksPerCluster \in Nat /\ BlockSize * BlocksPerCluster >= BlockSize
  BY <1>1
<1> QED
  BY <1>1, <1>2 DEF ClusterSize

LEMMA DivMod ==
    ASSUME NEW a \in Int, NEW w \in Nat \ {0}
    PROVE  a \div w \in Int /\ a % w \in 0 .. w - 1 /\ a = w * (a \div w) + (a % w)
OBVIOUS

\* The last of x bytes lies in one of k + 1 clusters if they have room for all.
LEMMA Room ==
    ASSUME NEW x \in Nat, x > 0, NEW k \in Nat, NEW w \in Nat \ {0}
    PROVE  (x - 1) \div w \in Nat /\ (((x - 1) \div w <= k) <=> x <= (k + 1) * w)
<1>0. PICK y \in Int : y = x - 1
  OBVIOUS
<1> DEFINE q == y \div w
           r == y % w
<1>1. q \in Int /\ r \in 0 .. w - 1 /\ x - 1 = w * q + r
  BY <1>0, DivMod
<1>5. (x - 1) \div w = q
  BY <1>0
<1> HIDE DEF q, r
<1>2. q >= 0
  <2>1. ASSUME q <= -1 PROVE FALSE
    <3>1. w * q <= w * (-1)
      BY <1>1, <2>1
    <3> QED
      BY <1>1, <3>1
  <2> QED
    BY <1>1, <2>1
<1>3. ASSUME q <= k PROVE x <= (k + 1) * w
  <2>1. w * q <= w * k /\ (k + 1) * w = w * k + w
    BY <1>1, <1>3
  <2> QED
    BY <1>1, <2>1
<1>4. ASSUME q >= k + 1 PROVE x > (k + 1) * w
  <2>1. w * q >= w * (k + 1) /\ (k + 1) * w = w * (k + 1)
    BY <1>1, <1>4
  <2> QED
    BY <1>1, <2>1
<1> QED
  BY <1>1, <1>2, <1>3, <1>4, <1>5

LEMMA LeastOf ==
    ASSUME NEW S \in SUBSET Nat, S # {}
    PROVE  \E x \in S : \A y \in S : x <= y
<1>1. PICK R : R = OpToRel(<, Nat)
  OBVIOUS
<1>2. R = {ss \in Nat \X Nat : ss[1] < ss[2]}
  BY <1>1, Zenon DEF OpToRel
<1>3. IsWellFoundedOn(R, Nat)
  BY <1>1, NatLessThanWellFounded
<1>4. PICK x \in S : \A y \in S : ~ (<<y, x>> \in R)
  BY <1>3, WFMin
<1>5. \A y \in S : x <= y
  <2> TAKE y \in S
  <2>1. x \in Nat /\ y \in Nat /\ ~ (<<y, x>> \in {ss \in Nat \X Nat : ss[1] < ss[2]})
    BY <1>2, <1>4
  <2>2. ~ (y < x)
    BY <2>1
  <2> QED
    BY <2>1, <2>2
<1> QED
  BY <1>5

\* What holds of 0, and of n + 1 if of n, holds of all.
LEMMA Every ==
    ASSUME NEW S, 0 \in S, \A n \in Nat : n \in S => n + 1 \in S
    PROVE  \A n \in Nat : n \in S
<1>1. SUFFICES ASSUME Nat \ S # {} PROVE FALSE
  OBVIOUS
<1>2. PICK x \in Nat \ S : \A y \in Nat \ S : x <= y
  BY <1>1, LeastOf
<1>3. x # 0 /\ x \in Nat
  BY <1>2
<1>4. x - 1 \in Nat /\ ~ (x <= x - 1)
  BY <1>3
<1>5. x - 1 \in S
  BY <1>2, <1>4
<1>6. (x - 1) + 1 \in S
  BY <1>4, <1>5
<1> QED
  BY <1>2, <1>3, <1>6

-----------------------------------------------------------------------------
(* Views of a card *)
IsView(v) == v = [fat |-> v.fat, ent |-> v.ent] /\ v.fat \in [Cluster -> Links] /\ v.ent \in [Places -> Entry]

\* The end of a chain, a free entry and a link are told apart.
LEMMA LinkKinds == EOC \notin Cluster /\ 0 \notin Cluster /\ EOC # 0 /\ IsEOC(EOC) /\ \A c \in Cluster : c \in Nat /\ ~IsEOC(c)
BY FatAssumption DEF Cluster, EOC, IsEOC

\* The view of a card has the right type.
LEMMA ViewOfDisk == ASSUME NEW d, IsDisk(d) PROVE IsView(View(d))
<1>1. \A c \in Cluster : FatOf(d, c) \in Links
  <2> TAKE c \in Cluster
  <2>1. FatBlock(1, c) \in FatBlocks /\ FatBlock(1, c) \in Meta
    BY Blocks DEF Meta
  <2>2. d[FatBlock(1, c)] \in [{x \in Cluster : FatBlock(1, x) = FatBlock(1, c)} -> Links]
    BY <2>1 DEF IsDisk, IsBlock
  <2> QED
    BY <2>2 DEF FatOf
<1>2. \A p \in Places : EntryAt(d, p) \in Entry
  <2> TAKE p \in Places
  <2>1. p[1] \in DirBlocks /\ p[1] \in Meta /\ p[2] \in 1 .. EntriesPerBlock
    BY Blocks DEF Meta
  <2>2. d[p[1]] \in [1 .. EntriesPerBlock -> Entry]
    BY <2>1 DEF IsDisk, IsBlock
  <2> QED
    BY <2>1, <2>2 DEF EntryAt
<1> DEFINE f == [c \in Cluster |-> FatOf(d, c)]
           e == [p \in Places |-> EntryAt(d, p)]
<1>3. f \in [Cluster -> Links] /\ e \in [Places -> Entry]
  BY <1>1, <1>2
<1>4. View(d) = [fat |-> f, ent |-> e]
  BY DEF View
<1> HIDE DEF f, e
<1> QED
  BY <1>3, <1>4 DEF IsView

LEMMA ViewsOf == ASSUME NEW m, Mach(m) PROVE IsView(Lasting(m)) /\ IsView(Latest(m))
<1>1. IsDisk(m.disk) /\ IsBlock(m.cache.block, m.cache.data)
  BY DEF Mach, CacheOK
<1>2. IsDisk([m.disk EXCEPT ![m.cache.block] = m.cache.data])
  BY <1>1, Overlay
<1> QED
  BY <1>1, <1>2, ViewOfDisk DEF Lasting, Latest

-----------------------------------------------------------------------------
(* Walks along a chain *)
\* A path of n links through the FAT leads from a to c.
Path(fat, a, c, n, g) ==
    g \in [0 .. n -> Cluster] /\ g[0] = a /\ g[n] = c /\ \A i \in 0 .. n - 1 : fat[g[i]] = g[i + 1]
Walk(fat, a, c, n) == n \in Nat /\ \E g : Path(fat, a, c, n, g)
Steps(v, w) == \A c \in Cluster : v[c] \in Cluster => w[c] = v[c]

LEMMA WalkEnds == ASSUME NEW fat, NEW a, NEW c, NEW n, Walk(fat, a, c, n) PROVE a \in Cluster /\ c \in Cluster /\ n \in Nat
BY DEF Walk, Path

LEMMA WalkZero == ASSUME NEW fat, NEW a \in Cluster PROVE Walk(fat, a, a, 0)
<1>1. Path(fat, a, a, 0, [i \in 0 .. 0 |-> a])
  BY DEF Path
<1> QED
  BY <1>1 DEF Walk

\* Walks can be extended, cut short, and lead to one place only.
LEMMA WalkStep ==
    ASSUME NEW fat, NEW a, NEW c, NEW n, Walk(fat, a, c, n), NEW e \in Cluster, fat[c] = e
    PROVE  Walk(fat, a, e, n + 1)
<1>1. PICK g : Path(fat, a, c, n, g)
  BY DEF Walk
<1>2. n \in Nat
  BY DEF Walk
<1>3. PICK h : h = [i \in 0 .. n + 1 |-> IF i = n + 1 THEN e ELSE g[i]]
  OBVIOUS
<1>4. h \in [0 .. n + 1 -> Cluster] /\ h[0] = a /\ h[n + 1] = e
  BY <1>1, <1>2, <1>3 DEF Path
<1>5. \A i \in 0 .. (n + 1) - 1 : fat[h[i]] = h[i + 1]
  <2> TAKE i \in 0 .. (n + 1) - 1
  <2>1. CASE i = n
    <3>1. h[i] = c /\ h[i + 1] = e
      BY <1>1, <1>2, <1>3, <2>1 DEF Path
    <3> QED
      BY <3>1
  <2>2. CASE i # n
    <3>1. i \in 0 .. n - 1 /\ h[i] = g[i] /\ h[i + 1] = g[i + 1]
      BY <1>2, <1>3, <2>2
    <3> QED
      BY <1>1, <3>1 DEF Path
  <2> QED
    BY <2>1, <2>2
<1>6. Path(fat, a, e, n + 1, h)
  BY <1>4, <1>5 DEF Path
<1> QED
  BY <1>2, <1>6 DEF Walk

LEMMA WalkPrefix ==
    ASSUME NEW fat, NEW a, NEW c, NEW n, Walk(fat, a, c, n), NEW k \in 0 .. n
    PROVE  \E e \in Cluster : Walk(fat, a, e, k) /\ (k < n => fat[e] \in Cluster /\ Walk(fat, a, fat[e], k + 1))
<1>1. PICK g : Path(fat, a, c, n, g)
  BY DEF Walk
<1>2. n \in Nat
  BY DEF Walk
<1>3. ASSUME NEW j \in 0 .. n PROVE g[j] \in Cluster /\ Walk(fat, a, g[j], j)
  <2>1. PICK h : h = [i \in 0 .. j |-> g[i]]
    OBVIOUS
  <2>2. \A i \in 0 .. j : i \in 0 .. n /\ h[i] = g[i]
    BY <1>2, <2>1
  <2>3. h \in [0 .. j -> Cluster] /\ h[0] = a /\ h[j] = g[j]
    BY <1>1, <1>2, <2>1, <2>2 DEF Path
  <2>4. \A i \in 0 .. j - 1 : fat[h[i]] = h[i + 1]
    <3> TAKE i \in 0 .. j - 1
    <3>1. i \in 0 .. n - 1 /\ h[i] = g[i] /\ h[i + 1] = g[i + 1]
      BY <1>2, <2>1
    <3> QED
      BY <1>1, <3>1 DEF Path
  <2>5. Path(fat, a, g[j], j, h)
    BY <2>3, <2>4 DEF Path
  <2>6. j \in Nat
    BY <1>2
  <2>7. g[j] \in Cluster
    BY <2>3, <2>6
  <2> QED
    BY <2>5, <2>6, <2>7 DEF Walk
<1>4. g[k] \in Cluster /\ Walk(fat, a, g[k], k)
  BY <1>3
<1>5. ASSUME k < n PROVE fat[g[k]] = g[k + 1] /\ g[k + 1] \in Cluster /\ Walk(fat, a, g[k + 1], k + 1)
  <2>1. k \in 0 .. n - 1 /\ k + 1 \in 0 .. n
    BY <1>2, <1>5
  <2>2. fat[g[k]] = g[k + 1]
    BY <1>1, <2>1 DEF Path
  <2> QED
    BY <1>3, <2>1, <2>2
<1> QED
  BY <1>4, <1>5

LEMMA WalkOnce ==
    ASSUME NEW fat, NEW a, NEW c, NEW e, NEW n, Walk(fat, a, c, n), Walk(fat, a, e, n)
    PROVE  c = e
<1>1. PICK g : Path(fat, a, c, n, g)
  BY DEF Walk
<1>2. PICK h : Path(fat, a, e, n, h)
  BY DEF Walk
<1>3. n \in Nat
  BY DEF Walk
<1> DEFINE S == {i \in Nat : i <= n => g[i] = h[i]}
<1>4. 0 \in S
  BY <1>1, <1>2 DEF Path
<1>5. ASSUME NEW i \in Nat, i \in S PROVE i + 1 \in S
  <2>1. CASE i + 1 <= n
    <3>1. i \in 0 .. n - 1 /\ g[i] = h[i]
      BY <1>3, <1>5, <2>1
    <3>2. g[i + 1] = fat[g[i]] /\ h[i + 1] = fat[h[i]]
      BY <1>1, <1>2, <3>1 DEF Path
    <3> QED
      BY <3>1, <3>2
  <2>2. CASE ~(i + 1 <= n)
    BY <2>2
  <2> QED
    BY <2>1, <2>2
<1> HIDE DEF S
<1>6. n \in S
  BY <1>3, <1>4, <1>5, Every
<1> QED
  BY <1>1, <1>2, <1>3, <1>6 DEF S, Path

\* A walk stays when links are only added.
LEMMA WalkKept ==
    ASSUME NEW fat, NEW new, Steps(fat, new), NEW a, NEW c, NEW n, Walk(fat, a, c, n)
    PROVE  Walk(new, a, c, n)
<1>1. PICK g : Path(fat, a, c, n, g)
  BY DEF Walk
<1>2. n \in Nat
  BY DEF Walk
<1>3. ASSUME NEW i \in 0 .. n - 1 PROVE new[g[i]] = g[i + 1]
  <2>1. i \in 0 .. n /\ i + 1 \in 0 .. n
    BY <1>2
  <2>2. g[i] \in Cluster /\ g[i + 1] \in Cluster /\ fat[g[i]] = g[i + 1]
    BY <1>1, <2>1 DEF Path
  <2> QED
    BY <2>2 DEF Steps
<1>4. Path(new, a, c, n, g)
  BY <1>1, <1>3 DEF Path
<1> QED
  BY <1>2, <1>4 DEF Walk

\* The last link of a walk.
LEMMA WalkBack ==
    ASSUME NEW fat, NEW a, NEW c, NEW n, Walk(fat, a, c, n), n # 0
    PROVE  \E e \in Cluster : Walk(fat, a, e, n - 1) /\ fat[e] = c
<1>1. n \in Nat /\ n - 1 \in 0 .. n /\ n - 1 < n /\ (n - 1) + 1 = n
  BY DEF Walk
<1>2. PICK e \in Cluster : Walk(fat, a, e, n - 1) /\ fat[e] \in Cluster /\ Walk(fat, a, fat[e], (n - 1) + 1)
  BY <1>1, WalkPrefix
<1>3. fat[e] = c
  BY <1>1, <1>2, WalkOnce
<1> QED
  BY <1>2, <1>3

-----------------------------------------------------------------------------
(* Sound cards *)
\* A chain is long enough for size bytes; a is a first cluster, that of p if any:
\* nobody links to it, and no other entry names it.
Files(v) == {p \in Places : v.ent[p].name \in Names}
Long(fat, a, size) == size > 0 => \E c \in Cluster : Walk(fat, a, c, (size - 1) \div ClusterSize)
IsFirst(v, p, a) ==
    a # 0 => /\ v.fat[a] # 0
             /\ \A c \in Cluster : v.fat[c] # a
             /\ \A q \in Files(v) \ {p} : v.ent[q].first # a

\* Links lead to clusters in use, no two to the same one.
Linked(v) ==
    /\ \A c \in Cluster : v.fat[c] \in Cluster => v.fat[v.fat[c]] # 0
    /\ \A b, c \in Cluster : v.fat[b] \in Cluster /\ v.fat[b] = v.fat[c] => b = c

\* A sound card: two chains never meet, and each is as long as its file needs.
Sound(v) ==
    /\ Linked(v)
    /\ \A p \in Files(v) : IsFirst(v, p, v.ent[p].first) /\ Long(v.fat, v.ent[p].first, v.ent[p].size)

\* What every call of the log keeps: clusters are not freed, links and first
\* clusters not changed.
Grows(v, w) ==
    /\ \A c \in Cluster : v.fat[c] # 0 => w.fat[c] # 0
    /\ Steps(v.fat, w.fat)
    /\ \A p \in Files(v) : p \in Files(w) /\ (v.ent[p].first # 0 => w.ent[p].first = v.ent[p].first)

\* The clusters in use, and those that are on the chain of some entry
Used(v) == {c \in Cluster : v.fat[c] # 0}
Reach(v, a) == {c \in Cluster : \E n : Walk(v.fat, a, c, n)}
Owned(v) == UNION {Reach(v, v.ent[p].first) : p \in Files(v)}

LEMMA GrowsSelf == ASSUME NEW v PROVE Grows(v, v)
BY DEF Grows, Steps

\* Growth can be chained.
LEMMA GrowsTwice ==
    ASSUME NEW u, NEW v, NEW w, Grows(u, v), Grows(v, w)
    PROVE  Grows(u, w)
<1>1. Steps(u.fat, w.fat)
  <2>1. SUFFICES ASSUME NEW c \in Cluster, u.fat[c] \in Cluster PROVE w.fat[c] = u.fat[c]
    BY DEF Steps
  <2>2. v.fat[c] = u.fat[c]
    BY <2>1 DEF Grows, Steps
  <2>3. w.fat[c] = v.fat[c]
    BY <2>1, <2>2 DEF Grows, Steps
  <2> QED
    BY <2>2, <2>3
<1>2. \A c \in Cluster : u.fat[c] # 0 => w.fat[c] # 0
  BY DEF Grows
<1>3. ASSUME NEW p \in Files(u) PROVE p \in Files(w) /\ (u.ent[p].first # 0 => w.ent[p].first = u.ent[p].first)
  BY <1>3 DEF Grows
<1> QED
  BY <1>1, <1>2, <1>3 DEF Grows

\* A cluster that is owned stays owned.
LEMMA GrowsOwned ==
    ASSUME NEW v, NEW w, Grows(v, w)
    PROVE  Used(v) \subseteq Used(w) /\ Owned(v) \subseteq Owned(w) /\ \A a : Reach(v, a) \subseteq Reach(w, a)
<1>1. Used(v) \subseteq Used(w)
  BY DEF Used, Grows
<1>2. \A a : Reach(v, a) \subseteq Reach(w, a)
  BY WalkKept DEF Reach, Grows
<1>3. ASSUME NEW c \in Owned(v) PROVE c \in Owned(w)
  <2>1. PICK p \in Files(v) : c \in Reach(v, v.ent[p].first)
    BY DEF Owned
  <2>2. p \in Files(w) /\ (v.ent[p].first # 0 => w.ent[p].first = v.ent[p].first)
    BY <2>1 DEF Grows
  <2>3. v.ent[p].first # 0
    BY <2>1, WalkEnds, LinkKinds DEF Reach
  <2>4. c \in Reach(w, w.ent[p].first)
    BY <1>2, <2>1, <2>2, <2>3
  <2> QED
    BY <2>2, <2>4 DEF Owned
<1> QED
  BY <1>1, <1>2, <1>3

\* On a sound card, a chain runs through clusters in use.
LEMMA WalkUsed ==
    ASSUME NEW v, Linked(v), NEW a, a \in Cluster => v.fat[a] # 0, NEW c, NEW n, Walk(v.fat, a, c, n)
    PROVE  v.fat[c] # 0 /\ c \in Cluster
<1>1. CASE n = 0
  <2>1. a \in Cluster /\ Walk(v.fat, a, a, 0)
    BY WalkEnds, WalkZero
  <2>2. a = c
    BY <1>1, <2>1, WalkOnce
  <2> QED
    BY <2>1, <2>2
<1>2. CASE n # 0
  <2>1. PICK e \in Cluster : v.fat[e] = c
    BY <1>2, WalkBack
  <2>2. c \in Cluster
    BY WalkEnds
  <2> QED
    BY <2>1, <2>2 DEF Linked
<1> QED
  BY <1>1, <1>2

-----------------------------------------------------------------------------
(* What the library changes *)
LEMMA LinkPut ==
    ASSUME NEW v, IsView(v), NEW c \in Cluster, NEW x \in Links, NEW l, l = [v EXCEPT !.fat[c] = x]
    PROVE  /\ IsView(l) /\ l.ent = v.ent /\ Files(l) = Files(v)
           /\ \A y \in Cluster : l.fat[y] = IF y = c THEN x ELSE v.fat[y]
<1>1. v = [fat |-> v.fat, ent |-> v.ent] /\ v.fat \in [Cluster -> Links] /\ v.ent \in [Places -> Entry]
  BY DEF IsView
<1>2. PICK f : f = [v.fat EXCEPT ![c] = x]
  OBVIOUS
<1>3. l = [fat |-> f, ent |-> v.ent]
  BY <1>1, <1>2
<1>4. l.fat = f /\ l.ent = v.ent /\ l = [fat |-> l.fat, ent |-> l.ent]
  <2>1. l.fat = f
    BY <1>3
  <2>2. l.ent = v.ent
    BY <1>3
  <2> QED
    BY <1>3, <2>1, <2>2
<1>5. f \in [Cluster -> Links] /\ \A y \in Cluster : f[y] = IF y = c THEN x ELSE v.fat[y]
  BY <1>1, <1>2
<1>6. Files(l) = Files(v)
  BY <1>4 DEF Files
<1> QED
  BY <1>1, <1>4, <1>5, <1>6 DEF IsView

\* A free cluster becomes a chain of its own.
IsAllotted(v, b, l) ==
    /\ IsView(l) /\ Sound(l) /\ Grows(v, l) /\ Used(l) = Used(v) \cup {b} /\ Files(l) = Files(v) /\ l.ent = v.ent
    /\ l.fat[b] = EOC /\ \A c \in Cluster \ {b} : l.fat[c] = v.fat[c]
    /\ \A p : IsFirst(l, p, b)
    /\ \A p, a : IsFirst(v, p, a) /\ a \in {0} \cup Cluster => IsFirst(l, p, a)

LEMMA Allotting ==
    ASSUME NEW v, IsView(v), Sound(v), NEW b \in Cluster, v.fat[b] = 0, NEW l, l = [v EXCEPT !.fat[b] = EOC]
    PROVE  IsAllotted(v, b, l)
<1>1. /\ IsView(l) /\ l.ent = v.ent /\ Files(l) = Files(v)
      /\ \A y \in Cluster : l.fat[y] = IF y = b THEN EOC ELSE v.fat[y]
  BY LinkPut DEF Links
<1>2. v.fat \in [Cluster -> Links] /\ l.fat \in [Cluster -> Links]
  BY <1>1 DEF IsView
<1>3. Steps(v.fat, l.fat)
  BY <1>1, LinkKinds DEF Steps
<1>4. Grows(v, l)
  BY <1>1, <1>3, LinkKinds DEF Grows
<1>5. Linked(l)
  BY <1>1, LinkKinds DEF Linked, Sound
<1>6. Used(l) = Used(v) \cup {b}
  BY <1>1, LinkKinds DEF Used
<1>7. ASSUME NEW c \in Cluster PROVE v.fat[c] # b
  BY <1>7 DEF Sound, Linked
<1>8. ASSUME NEW q \in Files(v) PROVE v.ent[q].first # b
  <2>1. v.ent[q].first = b => v.fat[b] # 0
    BY LinkKinds DEF Sound, IsFirst
  <2> QED
    BY <2>1
<1>9. ASSUME NEW p PROVE IsFirst(l, p, b)
  BY <1>1, <1>7, <1>8, LinkKinds DEF IsFirst
<1>10. ASSUME NEW p, NEW a, IsFirst(v, p, a), a \in {0} \cup Cluster PROVE IsFirst(l, p, a)
  BY <1>1, <1>10, LinkKinds DEF IsFirst
<1>11. ASSUME NEW p \in Files(l) PROVE IsFirst(l, p, l.ent[p].first) /\ Long(l.fat, l.ent[p].first, l.ent[p].size)
  <2>1. IsFirst(v, p, v.ent[p].first) /\ Long(v.fat, v.ent[p].first, v.ent[p].size)
    BY <1>1, <1>11 DEF Sound
  <2>2. Long(l.fat, v.ent[p].first, v.ent[p].size)
    BY <1>3, <2>1, WalkKept DEF Long
  <2>3. v.ent[p].first \in {0} \cup Cluster
    BY <1>1, <1>11 DEF IsView, Files, Entry
  <2> QED
    BY <1>1, <1>10, <2>1, <2>2, <2>3
<1> QED
  BY <1>1, <1>4, <1>5, <1>6, <1>9, <1>10, <1>11 DEF Sound, IsAllotted

\* A chain gets one cluster longer.
IsAppended(v, b, c, l) ==
    /\ IsView(l) /\ Sound(l) /\ Grows(v, l) /\ Used(l) = Used(v) /\ Files(l) = Files(v) /\ l.ent = v.ent
    /\ l.fat[c] = b
    /\ \A p, a : IsFirst(v, p, a) /\ a \in ({0} \cup Cluster) \ {b} => IsFirst(l, p, a)

\* A cluster that nobody links to is linked to the end of a chain.
LEMMA Appended ==
    ASSUME NEW v, IsView(v), Sound(v), NEW b \in Cluster, v.fat[b] # 0, \A p : IsFirst(v, p, b),
           NEW c \in Cluster, c # b, v.fat[c] = EOC, NEW l, l = [v EXCEPT !.fat[c] = b]
    PROVE  IsAppended(v, b, c, l)
<1>1. /\ IsView(l) /\ l.ent = v.ent /\ Files(l) = Files(v)
      /\ \A y \in Cluster : l.fat[y] = IF y = c THEN b ELSE v.fat[y]
  BY LinkPut DEF Links
<1>3. Steps(v.fat, l.fat)
  BY <1>1, LinkKinds DEF Steps
<1>2. b # 0 /\ c # 0 /\ EOC # 0
  BY LinkKinds
<1>4. Grows(v, l)
  BY <1>1, <1>2, <1>3 DEF Grows
<1>7. \A x \in Cluster : v.fat[x] # b
  BY <1>2 DEF IsFirst
<1>5. Linked(l)
  BY <1>1, <1>2, <1>7, LinkKinds DEF Linked, Sound
<1>6. Used(l) = Used(v)
  BY <1>1, <1>2 DEF Used
<1>8. ASSUME NEW q \in Files(v) PROVE v.ent[q].first # b
  <2>1. PICK p : p # q
    OBVIOUS
  <2>2. IsFirst(v, p, b)
    OBVIOUS
  <2> QED
    BY <1>2, <2>1, <2>2 DEF IsFirst
<1>10. ASSUME NEW p, NEW a, IsFirst(v, p, a), a \in ({0} \cup Cluster) \ {b} PROVE IsFirst(l, p, a)
  BY <1>1, <1>2, <1>10, LinkKinds DEF IsFirst
<1>11. ASSUME NEW p \in Files(l) PROVE IsFirst(l, p, l.ent[p].first) /\ Long(l.fat, l.ent[p].first, l.ent[p].size)
  <2>1. IsFirst(v, p, v.ent[p].first) /\ Long(v.fat, v.ent[p].first, v.ent[p].size)
    BY <1>1, <1>11 DEF Sound
  <2>2. Long(l.fat, v.ent[p].first, v.ent[p].size)
    BY <1>3, <2>1, WalkKept DEF Long
  <2>3. v.ent[p].first \in {0} \cup Cluster
    BY <1>1, <1>11 DEF IsView, Files, Entry
  <2> QED
    BY <1>1, <1>8, <1>10, <1>11, <2>1, <2>2, <2>3
<1> QED
  BY <1>1, <1>4, <1>5, <1>6, <1>10, <1>11 DEF Sound, IsAppended

\* An entry that keeps the card sound.
Fits(v, p, e) ==
    /\ e \in Entry /\ e.name \in Names /\ (p \in Files(v) => v.ent[p].first \in {0, e.first})
    /\ IsFirst(v, p, e.first) /\ Long(v.fat, e.first, e.size)
EntryIn(v, p, e, l) ==
    /\ IsView(l) /\ Sound(l) /\ Grows(v, l) /\ l.fat = v.fat /\ p \in Files(l) /\ l.ent[p] = e
    /\ Reach(v, e.first) \subseteq Owned(l)

LEMMA EntryFits ==
    ASSUME NEW v, IsView(v), Sound(v), NEW p \in Places, NEW e, Fits(v, p, e), NEW l, l = [v EXCEPT !.ent[p] = e]
    PROVE  EntryIn(v, p, e, l)
<1>0. /\ e \in Entry /\ e.name \in Names /\ (p \in Files(v) => v.ent[p].first \in {0, e.first})
      /\ IsFirst(v, p, e.first) /\ Long(v.fat, e.first, e.size)
  BY DEF Fits
<1>1. v = [fat |-> v.fat, ent |-> v.ent] /\ v.fat \in [Cluster -> Links] /\ v.ent \in [Places -> Entry]
  BY DEF IsView
<1>2. PICK f : f = [v.ent EXCEPT ![p] = e]
  OBVIOUS
<1>3. l = [fat |-> v.fat, ent |-> f]
  BY <1>1, <1>2
<1>4. l.fat = v.fat /\ l.ent = f /\ l = [fat |-> l.fat, ent |-> l.ent]
  <2>1. l.fat = v.fat
    BY <1>3
  <2>2. l.ent = f
    BY <1>3
  <2> QED
    BY <1>3, <2>1, <2>2
<1>5. f \in [Places -> Entry] /\ \A q \in Places : f[q] = IF q = p THEN e ELSE v.ent[q]
  BY <1>0, <1>1, <1>2
<1>6. IsView(l)
  BY <1>1, <1>4, <1>5 DEF IsView
<1>7. Files(l) = Files(v) \cup {p} /\ Files(v) \subseteq Places
  BY <1>0, <1>4, <1>5 DEF Files
<1>8. Grows(v, l)
  <2>1. Steps(v.fat, l.fat)
    BY <1>4 DEF Steps
  <2>2. ASSUME NEW q \in Files(v) PROVE q \in Files(l) /\ (v.ent[q].first # 0 => l.ent[q].first = v.ent[q].first)
    BY <1>0, <1>4, <1>5, <1>7, <2>2
  <2> QED
    BY <1>4, <2>1, <2>2 DEF Grows
<1>9. ASSUME NEW q \in Files(l) PROVE IsFirst(l, q, l.ent[q].first) /\ Long(l.fat, l.ent[q].first, l.ent[q].size)
  <2>1. CASE q = p
    <3>1. l.ent[q] = e
      BY <1>4, <1>5, <2>1
    <3>2. ASSUME NEW r \in Files(l) \ {p} PROVE r \in Files(v) \ {p} /\ l.ent[r] = v.ent[r]
      BY <1>4, <1>5, <1>7
    <3>3. IsFirst(l, p, e.first)
      BY <1>0, <1>4, <3>2 DEF IsFirst
    <3> QED
      BY <1>0, <1>4, <2>1, <3>1, <3>3
  <2>2. CASE q # p
    <3>1. q \in Files(v) /\ l.ent[q] = v.ent[q]
      BY <1>4, <1>5, <1>7, <2>2
    <3>2. IsFirst(v, q, v.ent[q].first) /\ Long(v.fat, v.ent[q].first, v.ent[q].size)
      BY <3>1 DEF Sound
    <3>3. ASSUME v.ent[q].first # 0 PROVE IsFirst(l, q, v.ent[q].first)
      <4>1. e.first # v.ent[q].first
        <5>1. e.first # 0 => e.first # v.ent[q].first
          BY <1>0, <2>2, <3>1 DEF IsFirst
        <5> QED
          BY <3>3, <5>1
      <4>2. ASSUME NEW r \in Files(l) \ {q} PROVE l.ent[r].first # v.ent[q].first
        <5>1. CASE r = p
          BY <1>4, <1>5, <4>1, <5>1
        <5>2. CASE r # p
          <6>1. r \in Files(v) \ {q} /\ l.ent[r] = v.ent[r]
            BY <1>4, <1>5, <1>7, <4>2, <5>2
          <6> QED
            BY <3>2, <3>3, <6>1 DEF IsFirst
        <5> QED
          BY <5>1, <5>2
      <4> QED
        BY <1>4, <3>2, <3>3, <4>2 DEF IsFirst
    <3>4. IsFirst(l, q, v.ent[q].first)
      BY <3>3 DEF IsFirst
    <3> QED
      BY <1>4, <3>1, <3>2, <3>4
  <2> QED
    BY <2>1, <2>2
<1>10. Linked(l)
  BY <1>4 DEF Linked, Sound
<1>11. p \in Files(l) /\ l.ent[p] = e
  BY <1>4, <1>5, <1>7
<1>12. Reach(v, e.first) \subseteq Owned(l)
  <2>1. Reach(v, e.first) = Reach(l, l.ent[p].first)
    BY <1>4, <1>11 DEF Reach
  <2> QED
    BY <1>11, <2>1 DEF Owned
<1> QED
  BY <1>4, <1>6, <1>8, <1>9, <1>10, <1>11, <1>12 DEF Sound, EntryIn

-----------------------------------------------------------------------------
(* Machines with a sound card *)
\* Wherever the power fails: what lasts is sound, and the library sees a sound card
\* that has grown from it.
Safe(m) == Mach(m) /\ Sound(Lasting(m)) /\ Sound(Latest(m)) /\ Grows(Lasting(m), Latest(m))

\* What every operation keeps on its way, its own next steps excepted.
Run(m, w) ==
    /\ Safe(w) /\ w.bad = m.bad /\ w.took = m.took /\ Course(m, w)
    /\ Grows(Latest(m), Latest(w)) /\ Grows(Lasting(m), Lasting(w))

LEMMA RunSelf == ASSUME NEW m, Safe(m) PROVE Run(m, m)
BY GrowsSelf DEF Run, Safe, Mach, Course

LEMMA CourseTwice ==
    ASSUME NEW m, NEW w, NEW v, m.n \in Nat, Course(m, w), Course(w, v), w.bad = m.bad, w.took = m.took
    PROVE  Course(m, v)
<1>1. /\ m.n \in Nat /\ w.n \in Nat /\ v.n \in Nat /\ m.n <= w.n /\ w.n <= v.n
  BY DEF Course
<1>2. ASSUME \A k \in m.n .. v.n - 1 : k \in m.bad \ m.took PROVE Lasting(v) = Lasting(m)
  <2>1. Lasting(w) = Lasting(m)
    BY <1>1, <1>2 DEF Course
  <2>2. Lasting(v) = Lasting(w)
    BY <1>1, <1>2 DEF Course
  <2> QED
    BY <2>1, <2>2
<1> QED
  BY <1>1, <1>2 DEF Course

\* Runs can be chained.
LEMMA RunTwice == ASSUME NEW m, NEW w, NEW v, Safe(m), Run(m, w), Run(w, v) PROVE Run(m, v)
<1>1. Course(m, v)
  BY CourseTwice DEF Run, Safe, Mach
<1>2. Grows(Latest(m), Latest(v)) /\ Grows(Lasting(m), Lasting(v))
  BY GrowsTwice DEF Run
<1> QED
  BY <1>1, <1>2 DEF Run

\* Moving blocks is a run, and so is one change that keeps the card sound.
LEMMA MovesRun == ASSUME NEW m, NEW w, Safe(m), Moves(m, w) PROVE Run(m, w) /\ Latest(w) = Latest(m)
<1>1. Mach(w) /\ Others(m, w) /\ Latest(w) = Latest(m) /\ Lasting(w) \in {Lasting(m), Latest(m)} /\ Course(m, w)
  BY DEF Moves
<1>2. Sound(Lasting(w)) /\ Grows(Lasting(w), Latest(w)) /\ Grows(Lasting(m), Lasting(w)) /\ Grows(Latest(m), Latest(w))
  BY <1>1, GrowsSelf DEF Safe
<1> QED
  BY <1>1, <1>2 DEF Run, Safe, Others

LEMMA PutsRun ==
    ASSUME NEW m, NEW w, Safe(m), NEW l, Puts(m, w, l), w.ok => Sound(l) /\ Grows(Latest(m), l)
    PROVE  Run(m, w)
<1>1. Mach(w) /\ Others(m, w) /\ Lasting(w) \in {Lasting(m), Latest(m)} /\ Course(m, w) /\ Latest(w) = IF w.ok THEN l ELSE Latest(m)
  BY DEF Puts
<1>2. Grows(Latest(m), Latest(w)) /\ Sound(Latest(w))
  BY <1>1, GrowsSelf DEF Safe
<1>3. Sound(Lasting(w)) /\ Grows(Lasting(m), Lasting(w)) /\ Grows(Lasting(w), Latest(m))
  BY <1>1, GrowsSelf DEF Safe
<1>4. Grows(Lasting(w), Latest(w))
  BY <1>2, <1>3, GrowsTwice
<1> QED
  BY <1>1, <1>2, <1>3, <1>4 DEF Run, Safe, Others

\* Blocks move without a change of what the card will hold.
LEMMA Moving == ASSUME NEW m, NEW w, Moves(m, w) PROVE Mach(w) /\ Latest(w) = Latest(m) /\ Others(m, w) /\ w.ok \in BOOLEAN
BY DEF Moves, Mach

-----------------------------------------------------------------------------
(* The search for a free cluster *)
Looking(m, s) ==
    /\ s = [m |-> s.m, bgn |-> s.bgn, end |-> s.end, found |-> s.found]
    /\ Moves(m, s.m) /\ s.bgn = s.end /\ s.end \in 2 .. ClusterCount + 2 /\ s.found \in BOOLEAN
    /\ s.found => s.m.ok /\ s.end \in Cluster /\ Latest(m).fat[s.end] = 0

LEMMA IsLooking ==
    ASSUME NEW m, NEW g, Moves(m, g), NEW e \in 2 .. ClusterCount + 2, NEW x \in BOOLEAN,
           x => g.ok /\ e \in Cluster /\ Latest(m).fat[e] = 0,
           NEW w, w = [m |-> g, bgn |-> e, end |-> e, found |-> x]
    PROVE  Looking(m, w)
<1>1. w.m = g /\ w.bgn = e /\ w.end = e /\ (w.found <=> x) /\ w.found = x
  OBVIOUS
<1>2. w = [m |-> w.m, bgn |-> w.bgn, end |-> w.end, found |-> w.found]
  BY <1>1
<1>3. w.found \in BOOLEAN
  BY <1>1
<1> QED
  BY <1>1, <1>2, <1>3 DEF Looking

LEMMA LookedOne ==
    ASSUME NEW m, Mach(m), NEW s, s = [m |-> s.m, bgn |-> s.bgn, end |-> s.end, found |-> s.found],
           Moves(m, s.m), s.bgn = s.end, s.end \in Cluster, s.found = FALSE,
           NEW g, g = FatGet(s.m, s.end), NEW w, w = Looked(s, g, 1)
    PROVE  Looking(m, w)
<1>1. Mach(s.m) /\ Latest(s.m) = Latest(m)
  BY Moving
<1>2. Moves(s.m, g) /\ (g.ok => g.val = Latest(m).fat[s.end]) /\ g.ok \in BOOLEAN
  BY <1>1, FatGets, Moving
<1>3. Moves(m, g)
  BY <1>2, MovesTwice
<1>4. s.end \in 2 .. ClusterCount + 1 /\ ClusterCount \in Nat
  BY FatAssumption DEF Cluster
<1>5. CASE ~g.ok
  <2>1. w = [s EXCEPT !.m = g]
    BY <1>5 DEF Looked
  <2>2. w = [m |-> g, bgn |-> s.bgn, end |-> s.end, found |-> FALSE]
    BY <2>1
  <2>3. s.end \in 2 .. ClusterCount + 2 /\ w = [m |-> g, bgn |-> s.end, end |-> s.end, found |-> FALSE]
    BY <1>4, <2>2
  <2> QED
    BY <1>3, <2>3, IsLooking
<1>6. CASE g.ok /\ g.val # 0
  <2>1. w = [s EXCEPT !.m = g, !.bgn = s.end + 1, !.end = s.end + 1]
    BY <1>6 DEF Looked
  <2>2. w = [m |-> g, bgn |-> s.end + 1, end |-> s.end + 1, found |-> FALSE]
    BY <2>1
  <2>3. s.end + 1 \in 2 .. ClusterCount + 2
    BY <1>4
  <2> QED
    BY <1>3, <2>2, <2>3, IsLooking
<1>7. CASE g.ok /\ g.val = 0
  <2>0. s.end - s.bgn + 1 = 1
    BY <1>4
  <2>1. w = [s EXCEPT !.m = g, !.found = TRUE]
    BY <1>7, <2>0 DEF Looked
  <2>2. w = [m |-> g, bgn |-> s.bgn, end |-> s.end, found |-> TRUE]
    BY <2>1
  <2>3. s.end \in 2 .. ClusterCount + 2 /\ w = [m |-> g, bgn |-> s.end, end |-> s.end, found |-> TRUE]
    BY <1>4, <2>2
  <2> QED
    BY <1>2, <1>3, <1>7, <2>3, IsLooking
<1> QED
  BY <1>2, <1>5, <1>6, <1>7

LEMMA LookedOn ==
    ASSUME NEW m, Mach(m), NEW s, Looking(m, s), NEW w, w = LookOn(s, 1)
    PROVE  Looking(m, w)
<1>0. /\ s = [m |-> s.m, bgn |-> s.bgn, end |-> s.end, found |-> s.found]
      /\ Moves(m, s.m) /\ s.bgn = s.end /\ s.end \in 2 .. ClusterCount + 2 /\ s.found \in BOOLEAN
  BY DEF Looking
<1>4. ClusterCount \in Nat /\ ClusterCount >= 1
  BY FatAssumption
<1>1. CASE s.found \/ ~s.m.ok
  BY <1>1 DEF LookOn
<1>2. CASE ~s.found /\ s.m.ok /\ s.end > ClusterCount + 1
  <2>0. PICK t : t = [s EXCEPT !.bgn = 2, !.end = 2]
    OBVIOUS
  <2>1. w = Looked(t, FatGet(s.m, 2), 1)
    BY <1>2, <2>0 DEF LookOn
  <2>2. t = [m |-> s.m, bgn |-> 2, end |-> 2, found |-> FALSE]
    <3>1. s.found = FALSE
      BY <1>0, <1>2
    <3>2. t = [m |-> s.m, bgn |-> 2, end |-> 2, found |-> s.found]
      <4>1. PICK x1, b1, e1, f1 : x1 = s.m /\ b1 = s.bgn /\ e1 = s.end /\ f1 = s.found
        OBVIOUS
      <4>2. s = [m |-> x1, bgn |-> b1, end |-> e1, found |-> f1]
        BY <1>0, <4>1
      <4>3. t = [m |-> x1, bgn |-> 2, end |-> 2, found |-> f1]
        BY <2>0, <4>2
      <4> QED
        BY <4>1, <4>3
    <3> QED
      BY <3>1, <3>2
  <2>3. /\ t.m = s.m /\ t.bgn = 2 /\ t.end = 2 /\ t.found = FALSE
    BY <2>2
  <2>4. t = [m |-> t.m, bgn |-> t.bgn, end |-> t.end, found |-> t.found]
    BY <2>2, <2>3
  <2>5. t.end \in Cluster
    BY <1>4, <2>3 DEF Cluster
  <2> QED
    BY <1>0, <2>1, <2>3, <2>4, <2>5, LookedOne
<1>3. CASE ~s.found /\ s.m.ok /\ ~(s.end > ClusterCount + 1)
  <2>1. w = Looked(s, FatGet(s.m, s.end), 1)
    BY <1>3 DEF LookOn
  <2>2. s.end \in Cluster /\ s.found = FALSE
    BY <1>0, <1>3, <1>4 DEF Cluster
  <2> QED
    BY <1>0, <2>1, <2>2, LookedOne
<1> QED
  BY <1>1, <1>2, <1>3

\* allocContiguous for one cluster finds one that is free, or fails.
LEMMA FreeFound ==
    ASSUME NEW m, Mach(m), NEW start \in 2 .. ClusterCount + 2, NEW s, s = FindFree(m, 1, start)
    PROVE  Looking(m, s)
<1> DEFINE K == ClusterCount
           a == [m |-> m, bgn |-> start, end |-> start, found |-> FALSE]
           Loop(k, f) == f = [n \in 0 .. k |-> IF n = 0 THEN a ELSE LookOn(f[n - 1], 1)]
           Good == {k \in Nat : \E f : Loop(k, f)}
           look[n \in 0 .. K] == IF n = 0 THEN a ELSE LookOn(look[n - 1], 1)
           S == {k \in Nat : k <= K => Looking(m, look[k])}
<1>0. K \in Nat
  BY FatAssumption
<1>1. s = look[K]
  BY DEF FindFree
<1>2. 0 \in Good
  <2>1. PICK f : f = [n \in 0 .. 0 |-> a]
    OBVIOUS
  <2>2. Loop(0, f)
    BY <2>1
  <2> QED
    BY <2>2
<1>3. ASSUME NEW k \in Nat, k \in Good PROVE k + 1 \in Good
  <2>1. PICK f : Loop(k, f)
    BY <1>3
  <2>2. PICK h : h = [n \in 0 .. k + 1 |-> IF n = k + 1 THEN LookOn(f[k], 1) ELSE f[n]]
    OBVIOUS
  <2>3. \A n \in 0 .. k + 1 : h[n] = IF n = 0 THEN a ELSE LookOn(h[n - 1], 1)
    <3> HIDE DEF a
    <3> QED
      BY <2>1, <2>2
  <2>4. Loop(k + 1, h)
    BY <2>2, <2>3
  <2> QED
    BY <2>4
<1>4. K \in Good
  <2> HIDE DEF Good
  <2> QED
    BY <1>0, <1>2, <1>3, Every
<1>5. Loop(K, look)
  BY <1>4
<1>6. Looking(m, a)
  BY MovesSelf, IsLooking
<1> HIDE DEF a, look
<1>7. 0 \in S
  BY <1>0, <1>5, <1>6
<1>8. ASSUME NEW k \in Nat, k \in S PROVE k + 1 \in S
  <2>1. ASSUME k + 1 <= K PROVE Looking(m, look[k + 1])
    <3>1. k + 1 \in 0 .. K /\ k + 1 # 0 /\ (k + 1) - 1 = k /\ k <= K
      BY <1>0, <2>1
    <3>2. look[k + 1] = LookOn(look[k], 1)
      BY <1>5, <3>1
    <3>3. Looking(m, look[k])
      BY <1>8, <3>1
    <3> QED
      BY <3>2, <3>3, LookedOn
  <2> QED
    BY <2>1
<1> HIDE DEF S
<1>9. K \in S
  BY <1>0, <1>7, <1>8, Every
<1> QED
  BY <1>0, <1>1, <1>9 DEF S

-----------------------------------------------------------------------------
(* The open file *)
\* The open file: a file of the root directory, opened to append. Its first cluster
\* may be missing from the entry still; its chain is as long as its size needs, and
\* its position in the cluster cur has to do with.
IsFile(f) == f = [open |-> f.open, dir |-> f.dir, block |-> f.block, index |-> f.index, first |-> f.first, size |-> f.size,
                  cur |-> f.cur, pos |-> f.pos, dirty |-> f.dirty, write |-> f.write, append |-> f.append]
Place(f) == <<f.block, f.index>>
Reached(f, v, x) == \E k \in Nat : Walk(v.fat, f.first, f.cur, k) /\ (k + 1) * ClusterSize >= x
FileOK(f, v) ==
    /\ IsFile(f) /\ f.open = TRUE /\ f.dir = FALSE /\ f.write = TRUE /\ f.append = TRUE
    /\ f.block \in DirBlocks /\ f.index \in 1 .. EntriesPerBlock /\ Place(f) \in Files(v)
    /\ v.ent[Place(f)].first \in {0, f.first}
    /\ f.first \in {0} \cup Cluster /\ IsFirst(v, Place(f), f.first)
    /\ f.size \in Nat /\ Long(v.fat, f.first, f.size)
    /\ f.pos \in {0, f.size} /\ f.cur \in {0} \cup Cluster
    /\ f.cur = 0 => f.pos = 0
    /\ f.cur # 0 => Reached(f, v, f.pos)
    /\ f.dirty \in BOOLEAN /\ (~f.dirty => v.ent[Place(f)].first = f.first)
Alloc(m) == m.alloc \in 2 .. ClusterCount + 2

\* A cluster in use that no entry owns would be lost if the power failed now
\* (Loose) or is lost although the file is closed properly (Lost).
Loose(m) == Used(Latest(m)) \ Owned(Lasting(m))
Lost(m) == Used(Latest(m)) \ (Owned(Latest(m)) \cup Reach(Latest(m), m.file.first))

\* One of the transfers between m and w has failed.
Hit(m, w) == \E k \in m.n .. w.n - 1 : k \in m.bad

\* The file stays a good one while the card grows.
LEMMA LongKept == ASSUME NEW f, NEW g, Steps(f, g), NEW a, NEW x, Long(f, a, x) PROVE Long(g, a, x)
BY WalkKept DEF Long

LEMMA ReachedKept ==
    ASSUME NEW f, NEW v, NEW l, Steps(v.fat, l.fat), NEW x, Reached(f, v, x)
    PROVE  Reached(f, l, x)
BY WalkKept DEF Reached

LEMMA FileKept ==
    ASSUME NEW f, NEW v, NEW l, FileOK(f, v), Grows(v, l), l.ent = v.ent, IsFirst(l, Place(f), f.first)
    PROVE  FileOK(f, l)
<1>1. Steps(v.fat, l.fat) /\ Files(l) = Files(v)
  BY DEF Grows, Files
<1>2. Long(l.fat, f.first, f.size)
  BY <1>1, LongKept DEF FileOK
<1>3. f.cur # 0 => Reached(f, l, f.pos)
  BY <1>1, ReachedKept DEF FileOK
<1> QED
  BY <1>1, <1>2, <1>3 DEF FileOK

LEMMA CurUsed ==
    ASSUME NEW f, NEW v, Sound(v), FileOK(f, v), f.cur # 0
    PROVE  f.cur \in Cluster /\ v.fat[f.cur] # 0 /\ f.first # 0 /\ f.first \in Cluster
<1>1. PICK k \in Nat : Walk(v.fat, f.first, f.cur, k)
  BY DEF FileOK, Reached
<1>2. f.first \in Cluster /\ f.first # 0
  BY <1>1, WalkEnds, LinkKinds
<1>3. v.fat[f.first] # 0
  BY <1>2 DEF FileOK, IsFirst
<1> QED
  BY <1>1, <1>2, <1>3, WalkUsed DEF Sound

\* What a call did with the clusters: it lost none but by a failed transfer.
Costs(m, w) ==
    /\ \E b \in Cluster : Loose(w) \subseteq Loose(m) \cup {b} /\ Lost(w) \subseteq Lost(m) \cup {b}
    /\ Hit(m, w) \/ Lost(w) \subseteq Lost(m)
NoCost(m, w) == Loose(w) \subseteq Loose(m) /\ Lost(w) \subseteq Lost(m)

\* What is not newly in use is not newly loose.
LEMMA LooseBound ==
    ASSUME NEW m, NEW w, Run(m, w), NEW N, Used(Latest(w)) \subseteq Used(Latest(m)) \cup N
    PROVE  Loose(w) \subseteq Loose(m) \cup N
<1>1. Owned(Lasting(m)) \subseteq Owned(Lasting(w))
  BY GrowsOwned DEF Run
<1> QED
  BY <1>1 DEF Loose

LEMMA LostBound ==
    ASSUME NEW m, NEW w, Run(m, w), NEW N, Used(Latest(w)) \subseteq Used(Latest(m)) \cup N,
           Reach(Latest(m), m.file.first) \subseteq Reach(Latest(w), w.file.first) \cup Owned(Latest(w))
    PROVE  Lost(w) \subseteq Lost(m) \cup N
<1>1. Owned(Latest(m)) \subseteq Owned(Latest(w))
  BY GrowsOwned DEF Run
<1> QED
  BY <1>1 DEF Lost

LEMMA NoCostSelf == ASSUME NEW m, NEW w, Latest(w) = Latest(m), w.file.first = m.file.first, Run(m, w) PROVE NoCost(m, w)
<1>1. Used(Latest(w)) \subseteq Used(Latest(m)) \cup {}
  OBVIOUS
<1>2. Loose(w) \subseteq Loose(m) \cup {}
  BY <1>1, LooseBound
<1>3. Lost(w) = Lost(m)
  BY DEF Lost
<1> QED
  BY <1>2, <1>3 DEF NoCost

\* Moving blocks costs nothing, and the file stays good.
LEMMA MovesFile ==
    ASSUME NEW m, NEW w, Safe(m), FileOK(m.file, Latest(m)), Alloc(m), Moves(m, w)
    PROVE  Run(m, w) /\ Safe(w) /\ FileOK(w.file, Latest(w)) /\ Alloc(w) /\ NoCost(m, w) /\ Latest(w) = Latest(m) /\ w.file = m.file
<1>1. Run(m, w) /\ Latest(w) = Latest(m)
  BY MovesRun
<1>2. w.file = m.file /\ w.alloc = m.alloc
  BY DEF Moves, Others
<1>3. Safe(w) /\ NoCost(m, w)
  BY <1>1, <1>2, NoCostSelf DEF Run
<1> QED
  BY <1>1, <1>2, <1>3 DEF Alloc

\* A call that only sets members of the machine.
Same(m, w) == w.disk = m.disk /\ w.cache = m.cache /\ w.n = m.n /\ w.bad = m.bad /\ w.took = m.took /\ Shape(w) /\ w.ok \in BOOLEAN

LEMMA SameRuns == ASSUME NEW m, NEW w, Safe(m), Same(m, w) PROVE Run(m, w) /\ Safe(w) /\ Latest(w) = Latest(m) /\ Lasting(w) = Lasting(m)
<1>1. Latest(w) = Latest(m) /\ Lasting(w) = Lasting(m)
  BY DEF Same, Latest, Lasting
<1>2. Mach(w)
  BY DEF Same, Safe, Mach
<1>3. Safe(w)
  BY <1>1, <1>2 DEF Safe
<1>4. Course(m, w)
  BY <1>1 DEF Same, Safe, Mach, Course
<1> QED
  BY <1>1, <1>3, <1>4, GrowsSelf DEF Run, Same

LEMMA Failing ==
    ASSUME NEW m, Mach(m), NEW w, w = Fail(m)
    PROVE  Same(m, w) /\ ~w.ok /\ Others(m, w) /\ w.val = m.val
<1>1. Shape(m)
  BY DEF Mach
<1>2. w = [m EXCEPT !.ok = FALSE]
  BY DEF Fail
<1>3. w.ok = FALSE
  BY <1>1, <1>2 DEF Shape
<1> QED
  BY <1>1, <1>2, <1>3 DEF Same, Shape, Others

\* Link for one cluster: the cluster becomes a chain, then the end of the file's.
LEMMA LinkOne ==
    ASSUME NEW s, s.end \in Nat, s.found, NEW cur
    PROVE  Link(s, 1, cur) =
             Allotted(IF cur # 0 THEN FatPut(FatPut(s.m, s.end, EOC), cur, s.bgn) ELSE FatPut(s.m, s.end, EOC), s, 1, cur)
<1> DEFINE a == s.m
           x == FatPut(s.m, s.end, EOC)
           link[i \in 0 .. 1] == IF i = 0 THEN s.m ELSE FatPut(link[i - 1], s.end - i + 1, IF i = 1 THEN EOC ELSE s.end - i + 2)
<1>1. \E f : f = [i \in 0 .. 1 |-> IF i = 0 THEN s.m ELSE FatPut(f[i - 1], s.end - i + 1, IF i = 1 THEN EOC ELSE s.end - i + 2)]
  <2>1. PICK f : f = [i \in 0 .. 1 |-> IF i = 0 THEN a ELSE x]
    OBVIOUS
  <2>2. f[0] = a /\ f[1] = x
    BY <2>1
  <2>3. s.end - 1 + 1 = s.end
    OBVIOUS
  <2>4. \A i \in 0 .. 1 : f[i] = IF i = 0 THEN s.m ELSE FatPut(f[i - 1], s.end - i + 1, IF i = 1 THEN EOC ELSE s.end - i + 2)
    BY <2>2, <2>3
  <2> QED
    BY <2>1, <2>4
<1>2. link = [i \in 0 .. 1 |-> IF i = 0 THEN s.m ELSE FatPut(link[i - 1], s.end - i + 1, IF i = 1 THEN EOC ELSE s.end - i + 2)]
  BY <1>1
<1>3. Link(s, 1, cur) = Allotted(IF cur # 0 THEN FatPut(link[1], cur, s.bgn) ELSE link[1], s, 1, cur)
  BY DEF Link
<1> HIDE DEF link
<1>4. link[1] = x
  <2>1. link[0] = s.m /\ s.end - 1 + 1 = s.end
    BY <1>2
  <2> QED
    BY <1>2, <2>1
<1> QED
  BY <1>3, <1>4

-----------------------------------------------------------------------------
(* A cluster for the file *)
LEMMA AddFails ==
    ASSUME NEW m, ~m.ok, NEW s, NEW cur
    PROVE  Noted(GoTo(Allotted(m, s, 1, cur))) = m
BY DEF Noted, GoTo, Allotted

\* The file with one cluster more
Renewed(f, g, c, b, x) ==
    /\ IsFile(g) /\ g.open = f.open /\ g.dir = f.dir /\ g.block = f.block /\ g.index = f.index /\ g.size = f.size
    /\ g.pos = f.pos /\ g.write = f.write /\ g.append = f.append
    /\ g.cur = c /\ g.first = b /\ g.dirty = x

LEMMA FileFields ==
    ASSUME NEW f, IsFile(f), NEW c, NEW b, NEW x, NEW g, g = [f EXCEPT !.cur = c, !.first = b, !.dirty = x]
    PROVE  Renewed(f, g, c, b, x)
BY DEF IsFile, Renewed

Extends(m, s, cur, f, w) ==
    /\ f = [m.file EXCEPT !.cur = s.bgn, !.first = IF m.file.first = 0 THEN s.bgn ELSE m.file.first,
                          !.dirty = m.file.dirty \/ m.file.first = 0]
    /\ w = [m EXCEPT !.val = s.bgn, !.alloc = IF cur = 0 THEN s.bgn + 1 ELSE m.alloc, !.file = f]

\* addCluster notes a first cluster in the file.
LEMMA AddSets ==
    ASSUME NEW m, m.ok, Shape(m), IsFile(m.file), NEW s, NEW cur, NEW w, w = Noted(GoTo(Allotted(m, s, 1, cur)))
    PROVE  \E f : Extends(m, s, cur, f, w)
<1>1. PICK a : a = IF cur = 0 THEN s.bgn + 1 ELSE m.alloc
  OBVIOUS
<1>2. PICK m1 : m1 = [m EXCEPT !.val = s.bgn, !.alloc = a]
  OBVIOUS
<1>3. m1 = Allotted(m, s, 1, cur)
  BY <1>1, <1>2 DEF Allotted
<1>4. m1.ok /\ m1.file = m.file /\ m1.val = s.bgn /\ Shape(m1)
  BY <1>2 DEF Shape
<1>5. PICK f1 : f1 = [m.file EXCEPT !.cur = s.bgn]
  OBVIOUS
<1>6. PICK m2 : m2 = [m1 EXCEPT !.file = f1]
  OBVIOUS
<1>7. m2 = GoTo(m1)
  BY <1>4, <1>5, <1>6 DEF GoTo
<1>8. m2.ok /\ m2.file = f1 /\ m2.val = s.bgn /\ Shape(m2)
  BY <1>4, <1>6 DEF Shape
<1>9. f1.first = m.file.first /\ f1.dirty = m.file.dirty /\ IsFile(f1)
  BY <1>5 DEF IsFile
<1>10. PICK b, x : b = (IF m.file.first = 0 THEN s.bgn ELSE m.file.first) /\ x = (m.file.dirty \/ m.file.first = 0)
  OBVIOUS
<1>11. PICK f2 : f2 = [f1 EXCEPT !.first = b, !.dirty = x]
  OBVIOUS
<1>12. w = [m2 EXCEPT !.file = f2]
  <2>1. w = [m2 EXCEPT !.file.first = IF @ = 0 THEN m2.val ELSE @, !.file.dirty = @ \/ m2.file.first = 0]
    BY <1>3, <1>7, <1>8 DEF Noted
  <2>2. w = [m2 EXCEPT !.file = [m2.file EXCEPT !.first = b, !.dirty = x]]
    BY <1>8, <1>9, <1>10, <2>1
  <2> QED
    BY <1>8, <1>11, <2>2
<1>13. w = [m EXCEPT !.val = s.bgn, !.alloc = a, !.file = f2]
  BY <1>2, <1>6, <1>12 DEF Shape
<1>14. f2 = [m.file EXCEPT !.cur = s.bgn, !.first = b, !.dirty = x]
  BY <1>5, <1>11 DEF IsFile
<1>15. Extends(m, s, cur, f2, w)
  BY <1>1, <1>10, <1>13, <1>14 DEF Extends
<1> QED
  BY <1>15

\* Two steps, the second of which may have failed
LEMMA BlamedTwice ==
    ASSUME NEW m, NEW w, NEW v, m.n \in Nat, Course(m, w), Course(w, v), w.bad = m.bad, Blamed(m, w), Blamed(w, v)
    PROVE  Blamed(m, v)
<1>1. m.n \in Nat /\ w.n \in Nat /\ v.n \in Nat /\ m.n <= w.n /\ w.n <= v.n
  BY DEF Course
<1>2. SUFFICES ASSUME m.ok, ~v.ok PROVE \E k \in m.n .. v.n - 1 : k \in m.bad
  BY DEF Blamed
<1>3. CASE w.ok
  <2>1. PICK k \in w.n .. v.n - 1 : k \in w.bad
    BY <1>2, <1>3 DEF Blamed
  <2> QED
    BY <1>1, <2>1
<1>4. CASE ~w.ok
  <2>1. PICK k \in m.n .. w.n - 1 : k \in m.bad
    BY <1>2, <1>4 DEF Blamed
  <2> QED
    BY <1>1, <2>1
<1> QED
  BY <1>3, <1>4

Added(m, w) ==
    /\ Run(m, w) /\ FileOK(w.file, Latest(w)) /\ Alloc(w) /\ w.file.pos = m.file.pos /\ w.file.size = m.file.size
    /\ Costs(m, w) /\ (w.ok \/ Hit(m, w) \/ NoCost(m, w))
    /\ w.ok => w.file.cur # 0 /\ Reached(w.file, Latest(w), w.file.pos + 1)

LEMMA SomeCluster == 2 \in Cluster
BY FatAssumption DEF Cluster

LEMMA CostsNothing == ASSUME NEW m, NEW w, NoCost(m, w) PROVE Costs(m, w)
BY SomeCluster DEF NoCost, Costs

\* No cluster has been added, for want of one or for a failure.
LEMMA AddedNone ==
    ASSUME NEW m, Safe(m), Alloc(m), FileOK(m.file, Latest(m)), NEW v, Moves(m, v), NEW w, w = Fail(v)
    PROVE  Added(m, w)
<1>1. Run(m, v) /\ Safe(v) /\ FileOK(v.file, Latest(v)) /\ Alloc(v) /\ Latest(v) = Latest(m) /\ v.file = m.file /\ Mach(v)
  BY MovesFile DEF Safe
<1>2. Same(v, w) /\ ~w.ok /\ Others(v, w)
  BY <1>1, Failing
<1>3. Run(v, w) /\ Latest(w) = Latest(v)
  BY <1>1, <1>2, SameRuns
<1>4. Run(m, w) /\ Latest(w) = Latest(m) /\ w.file = m.file /\ w.alloc = v.alloc
  BY <1>1, <1>2, <1>3, RunTwice DEF Others
<1>5. NoCost(m, w)
  BY <1>4, NoCostSelf
<1> QED
  BY <1>1, <1>2, <1>4, <1>5, CostsNothing DEF Added, Alloc

\* One cluster more than the owned ones is in use.
LEMMA AddedOne ==
    ASSUME NEW m, NEW w, Run(m, w), NEW b \in Cluster, Used(Latest(w)) \subseteq Used(Latest(m)) \cup {b},
           Reach(Latest(m), m.file.first) \subseteq Reach(Latest(w), w.file.first),
           Hit(m, w) \/ b \in Reach(Latest(w), w.file.first)
    PROVE  Costs(m, w)
<1>1. Loose(w) \subseteq Loose(m) \cup {b}
  BY LooseBound
<1>2. Lost(w) \subseteq Lost(m) \cup {b}
  BY LostBound
<1>3. b \in Reach(Latest(w), w.file.first) => b \notin Lost(w)
  BY DEF Lost
<1> QED
  BY <1>1, <1>2, <1>3 DEF Costs

\* addCluster: wherever it fails, one cluster is lost at most.
LEMMA AddClusterRuns ==
    ASSUME NEW m, Safe(m), m.ok, Alloc(m), FileOK(m.file, Latest(m)),
           m.file.cur # 0 => Latest(m).fat[m.file.cur] = EOC, m.file.cur = 0 => m.file.first = 0,
           NEW w, w = AddCluster(m)
    PROVE  Added(m, w)
<1> DEFINE f == m.file
           cur == m.file.cur
           v == Latest(m)
<1>1. Mach(m) /\ Sound(v) /\ IsView(v) /\ m.n \in Nat
  BY ViewsOf DEF Safe, Mach
<1>2. cur \in {0} \cup Cluster /\ f.first \in {0} \cup Cluster /\ f.size \in Nat /\ f.pos \in Nat
  BY DEF FileOK
<1>3. PICK start : start = IF cur # 0 THEN cur + 1 ELSE m.alloc
  OBVIOUS
<1>4. start \in 2 .. ClusterCount + 2
  BY <1>2, <1>3, FatAssumption DEF Cluster, Alloc
<1>5. PICK s : s = FindFree(m, 1, start)
  OBVIOUS
<1>6. Looking(m, s)
  BY <1>1, <1>4, <1>5, FreeFound
<1>7. Moves(m, s.m) /\ s.bgn = s.end /\ s.end \in Nat
  BY <1>6, FatAssumption DEF Looking
<1>8. w = Noted(GoTo(Link(s, 1, cur)))
  BY <1>3, <1>5 DEF AddCluster, AllocContiguous
<1>9. CASE ~s.found
  <2>1. w = Fail(s.m)
    <3>1. Link(s, 1, cur) = Fail(s.m)
      BY <1>9 DEF Link
    <3>2. ~Fail(s.m).ok
      BY <1>7, Failing DEF Moves
    <3> QED
      BY <1>8, <3>1, <3>2 DEF Noted, GoTo
  <2> QED
    BY <1>7, <2>1, AddedNone
<1>10. CASE s.found
  <2>1. PICK m0, b : m0 = s.m /\ b = s.bgn
    OBVIOUS
  <2>2. b \in Cluster /\ v.fat[b] = 0 /\ m0.ok
    BY <1>6, <1>10, <2>1 DEF Looking
  <2>3. /\ Run(m, m0) /\ Safe(m0) /\ FileOK(m0.file, Latest(m0)) /\ Alloc(m0) /\ Latest(m0) = v /\ m0.file = f
        /\ Mach(m0) /\ m0.bad = m.bad /\ m0.took = m.took /\ Course(m, m0) /\ Blamed(m, m0)
    BY <1>7, <2>1, MovesFile DEF Safe, Moves, Others
  <2>4. PICK m1 : m1 = FatPut(m0, b, EOC)
    OBVIOUS
  <2>5. PICK l1 : l1 = [v EXCEPT !.fat[b] = EOC]
    OBVIOUS
  <2>6. Puts(m0, m1, l1)
    BY <2>2, <2>3, <2>4, <2>5, FatPuts DEF Links
  <2>7. /\ IsView(l1) /\ Sound(l1) /\ Grows(v, l1) /\ Used(l1) = Used(v) \cup {b} /\ Files(l1) = Files(v) /\ l1.ent = v.ent
        /\ l1.fat[b] = EOC /\ \A c \in Cluster \ {b} : l1.fat[c] = v.fat[c]
        /\ \A p : IsFirst(l1, p, b)
        /\ \A p, a : IsFirst(v, p, a) /\ a \in {0} \cup Cluster => IsFirst(l1, p, a)
    <3>1. IsAllotted(v, b, l1)
      <4> HIDE DEF v
      <4> QED
        BY <1>1, <2>2, <2>5, Allotting
    <3> QED
      BY <3>1 DEF IsAllotted
  <2>8. Run(m0, m1) /\ Run(m, m1)
    BY <2>3, <2>6, <2>7, PutsRun, RunTwice DEF Safe
  <2>9. /\ m1.file = f /\ m1.alloc = m0.alloc /\ Blamed(m0, m1) /\ (Latest(m1) = IF m1.ok THEN l1 ELSE v) /\ Course(m0, m1) /\ m1.bad = m.bad
        /\ Mach(m1) /\ Safe(m1)
    BY <2>3, <2>6, <2>8 DEF Puts, Others, Run, Safe
  <2>10. FileOK(f, l1)
    <3>1. IsFirst(l1, Place(f), f.first)
      BY <2>7 DEF FileOK
    <3> QED
      BY <2>7, <3>1, FileKept
  <2>11. Blamed(m, m1) /\ Course(m, m1)
    BY <1>1, <2>3, <2>8, <2>9, BlamedTwice DEF Run
  <2>12. PICK m2 : m2 = IF cur # 0 THEN FatPut(m1, cur, b) ELSE m1
    OBVIOUS
  <2>13. w = Noted(GoTo(Allotted(m2, s, 1, cur)))
    BY <1>7, <1>8, <1>10, <2>1, <2>4, <2>12, LinkOne
  <2>14. PICK l2 : l2 = IF cur # 0 THEN [l1 EXCEPT !.fat[cur] = b] ELSE l1
    OBVIOUS
  <2>15. /\ IsView(l2) /\ Sound(l2) /\ Grows(l1, l2) /\ Used(l2) = Used(l1) /\ Files(l2) = Files(v) /\ l2.ent = v.ent
         /\ (cur # 0 => l2.fat[cur] = b /\ FileOK(f, l2))
    <3>1. CASE cur = 0
      BY <2>7, <2>14, <3>1, GrowsSelf
    <3>2. CASE cur # 0
      <4>1. cur \in Cluster /\ v.fat[cur] = EOC /\ cur # b /\ l1.fat[cur] = EOC /\ l1.fat[b] # 0
        BY <1>2, <2>2, <2>7, <3>2, LinkKinds
      <4>2. l2 = [l1 EXCEPT !.fat[cur] = b]
        BY <2>14, <3>2
      <4>3. /\ IsView(l2) /\ Sound(l2) /\ Grows(l1, l2) /\ Used(l2) = Used(l1) /\ Files(l2) = Files(l1) /\ l2.ent = l1.ent
            /\ l2.fat[cur] = b
            /\ \A p, a : IsFirst(l1, p, a) /\ a \in ({0} \cup Cluster) \ {b} => IsFirst(l2, p, a)
        <5>1. IsAppended(l1, b, cur, l2)
          <6> HIDE DEF cur, v
          <6> QED
            BY <2>2, <2>7, <4>1, <4>2, Appended
        <5> QED
          BY <5>1 DEF IsAppended
      <4>4. f.first # b
        BY <1>1, <2>2, <3>2, CurUsed DEF FileOK, IsFirst
      <4>5. IsFirst(l2, Place(f), f.first)
        BY <1>2, <2>10, <4>3, <4>4 DEF FileOK
      <4> QED
        BY <2>7, <2>10, <4>3, <4>5, FileKept
    <3> QED
      BY <3>1, <3>2
  <2>16. /\ Run(m1, m2) /\ m2.file = f /\ m2.alloc = m1.alloc /\ Blamed(m1, m2) /\ Course(m1, m2) /\ (m2.ok => m1.ok)
         /\ (Latest(m2) = IF m2.ok THEN l2 ELSE Latest(m1)) /\ m2.ok \in BOOLEAN
    <3>1. CASE cur = 0
      <4>1. m2 = m1 /\ l2 = l1
        BY <2>12, <2>14, <3>1
      <4>2. Run(m1, m1) /\ m1.ok \in BOOLEAN
        BY <2>9, RunSelf DEF Mach
      <4>3. Latest(m1) = IF m1.ok THEN l2 ELSE Latest(m1)
        BY <2>9, <4>1
      <4> QED
        BY <2>9, <4>1, <4>2, <4>3 DEF Run, Blamed
    <3>2. CASE cur # 0
      <4>1. PICK l : l = [Latest(m1) EXCEPT !.fat[cur] = b]
        OBVIOUS
      <4>2. m2 = FatPut(m1, cur, b) /\ cur \in Cluster /\ b \in Links
        BY <1>2, <2>2, <2>12, <3>2 DEF Links
      <4>3. Puts(m1, m2, l)
        <5> HIDE DEF cur
        <5> QED
          BY <2>9, <4>1, <4>2, FatPuts
      <4>4. Mach(m2) /\ (m2.ok => m1.ok) /\ m2.ok \in BOOLEAN /\ Others(m1, m2) /\ Course(m1, m2) /\ Blamed(m1, m2)
            /\ Latest(m2) = IF m2.ok THEN l ELSE Latest(m1)
        BY <4>3 DEF Puts, Mach
      <4>5. m2.ok => Latest(m1) = l1 /\ l = l2
        BY <2>9, <2>14, <3>2, <4>1, <4>4
      <4>6. Run(m1, m2)
        BY <2>9, <2>15, <4>3, <4>5, PutsRun
      <4>7. Latest(m2) = IF m2.ok THEN l2 ELSE Latest(m1)
        BY <4>4, <4>5
      <4>8. m2.file = f /\ m2.alloc = m1.alloc
        BY <2>9, <4>4 DEF Others
      <4> QED
        BY <4>4, <4>6, <4>7, <4>8
    <3> QED
      BY <3>1, <3>2
  <2>17. Run(m, m2) /\ Blamed(m, m2) /\ Course(m, m2) /\ Mach(m2) /\ Safe(m2)
    BY <1>1, <2>8, <2>9, <2>11, <2>16, RunTwice, BlamedTwice DEF Run, Safe
  <2>18. Used(Latest(m2)) \subseteq Used(v) \cup {b}
    BY <2>7, <2>9, <2>15, <2>16
  <2>19. Reach(v, f.first) \subseteq Reach(Latest(m2), f.first)
    BY <2>17, GrowsOwned DEF Run
  <2>20. Alloc(m2)
    BY <2>3, <2>9, <2>16 DEF Alloc
  <2>21. CASE ~m2.ok
    <3>1. w = m2
      BY <2>13, <2>21, AddFails
    <3>2. Hit(m, w)
      BY <2>17, <2>21, <3>1 DEF Blamed, Hit
    <3>3. FileOK(f, Latest(m2))
      BY <2>3, <2>9, <2>10, <2>16, <2>21
    <3>4. Costs(m, w)
      BY <2>2, <2>16, <2>17, <2>18, <2>19, <3>1, <3>2, AddedOne
    <3> QED
      BY <2>16, <2>17, <2>20, <2>21, <3>1, <3>2, <3>3, <3>4 DEF Added
  <2>22. CASE m2.ok
    <3>1. IsFile(f) /\ Shape(m2)
      BY <2>17 DEF FileOK, Mach
    <3>2. PICK g : /\ g = [m2.file EXCEPT !.cur = s.bgn, !.first = IF m2.file.first = 0 THEN s.bgn ELSE m2.file.first,
                                         !.dirty = m2.file.dirty \/ m2.file.first = 0]
                   /\ w = [m2 EXCEPT !.val = s.bgn, !.alloc = IF cur = 0 THEN s.bgn + 1 ELSE m2.alloc, !.file = g]
      <4>1. PICK g : Extends(m2, s, cur, g, w)
        <5> HIDE DEF cur
        <5> QED
          BY <2>13, <2>16, <2>22, <3>1, AddSets
      <4> QED
        BY <4>1 DEF Extends
    <3>3. PICK x \in BOOLEAN : x = (f.dirty \/ f.first = 0)
      OBVIOUS
    <3>4. PICK a1 : a1 = IF f.first = 0 THEN b ELSE f.first
      OBVIOUS
    <3>5. g = [f EXCEPT !.cur = b, !.first = a1, !.dirty = x]
      BY <2>1, <2>16, <3>2, <3>3, <3>4
    <3>6. Renewed(f, g, b, a1, x)
      BY <3>1, <3>5, FileFields
    <3>7. /\ Same(m2, w) /\ w.file = g /\ w.ok /\ w.alloc = IF cur = 0 THEN b + 1 ELSE m2.alloc
      BY <2>1, <2>16, <2>22, <3>1, <3>2 DEF Same, Shape
    <3>8. Run(m2, w) /\ Safe(w) /\ Latest(w) = l2
      BY <2>16, <2>17, <2>22, <3>7, SameRuns
    <3>9. Run(m, w)
      BY <2>17, <3>8, RunTwice
    <3>10. Alloc(w)
      <4>1. b + 1 \in 2 .. ClusterCount + 2
        BY <2>2, FatAssumption DEF Cluster
      <4> QED
        BY <2>20, <3>7, <4>1 DEF Alloc
    <3>11. /\ Walk(l2.fat, a1, b, 0) \/ \E k \in Nat : Walk(l2.fat, a1, b, k + 1) /\ (k + 1) * ClusterSize >= f.pos
           /\ cur = 0 => Walk(l2.fat, a1, b, 0) /\ f.pos = 0
           /\ cur # 0 => \E k \in Nat : Walk(l2.fat, a1, b, k + 1) /\ (k + 1) * ClusterSize >= f.pos
      <4>1. CASE cur = 0
        <5>1. a1 = b /\ f.pos = 0
          BY <3>4, <4>1 DEF FileOK
        <5> QED
          BY <2>2, <4>1, <5>1, WalkZero
      <4>2. CASE cur # 0
        <5>1. a1 = f.first
          BY <1>1, <3>4, <4>2, CurUsed
        <5>2. PICK k \in Nat : Walk(l2.fat, f.first, cur, k) /\ (k + 1) * ClusterSize >= f.pos
          BY <2>15, <4>2 DEF FileOK, Reached
        <5>3. Walk(l2.fat, f.first, b, k + 1)
          BY <2>2, <2>15, <4>2, <5>2, WalkStep
        <5> QED
          BY <4>2, <5>1, <5>2, <5>3
      <4> QED
        BY <4>1, <4>2
    <3>12. Reached(g, l2, f.pos + 1) /\ Reached(g, l2, f.pos)
      <4>1. CASE cur = 0
        <5>1. Walk(l2.fat, a1, b, 0) /\ f.pos = 0
          BY <3>11, <4>1
        <5>2. (0 + 1) * ClusterSize >= f.pos + 1 /\ (0 + 1) * ClusterSize >= f.pos
          BY <5>1, SizeOfCluster
        <5> QED
          BY <3>6, <5>1, <5>2 DEF Reached, Renewed
      <4>2. CASE cur # 0
        <5>1. PICK k \in Nat : Walk(l2.fat, a1, b, k + 1) /\ (k + 1) * ClusterSize >= f.pos
          BY <3>11, <4>2
        <5>2. ((k + 1) + 1) * ClusterSize = (k + 1) * ClusterSize + ClusterSize /\ k + 1 \in Nat /\ (k + 1) * ClusterSize \in Nat
          BY SizeOfCluster
        <5>3. ((k + 1) + 1) * ClusterSize >= f.pos + 1 /\ ((k + 1) + 1) * ClusterSize >= f.pos
          BY <1>2, <5>1, <5>2, SizeOfCluster
        <5> QED
          BY <3>6, <5>1, <5>2, <5>3 DEF Reached, Renewed
      <4> QED
        BY <4>1, <4>2
    <3>13. FileOK(g, l2)
      <4>1. Place(g) = Place(f) /\ Place(f) \in Files(l2) /\ l2.ent = v.ent
        BY <2>15, <3>6 DEF Renewed, Place, FileOK
      <4>2. a1 \in Cluster /\ IsFirst(l2, Place(f), a1) /\ Long(l2.fat, a1, f.size) /\ v.ent[Place(f)].first \in {0, a1}
            /\ (~x => v.ent[Place(f)].first = a1)
        <5>1. CASE cur = 0
          <6>1. a1 = b /\ l2 = l1 /\ f.first = 0 /\ x = TRUE
            BY <2>14, <3>3, <3>4, <5>1
          <6>2. f.size = 0
            <7>1. ~(f.size > 0)
              BY <6>1, WalkEnds, LinkKinds DEF FileOK, Long
            <7> QED
              BY <1>2, <7>1
          <6>3. Long(l2.fat, a1, f.size)
            BY <6>2 DEF Long
          <6>4. v.ent[Place(f)].first = 0
            BY <6>1 DEF FileOK
          <6> QED
            BY <2>2, <2>7, <6>1, <6>3, <6>4
        <5>2. CASE cur # 0
          <6>1. a1 = f.first /\ f.first \in Cluster /\ f.first # 0
            BY <1>1, <3>4, <5>2, CurUsed
          <6>2. f.dirty \in BOOLEAN
            BY DEF FileOK
          <6>3. x = f.dirty
            BY <3>3, <6>1, <6>2
          <6>4. FileOK(f, l2)
            BY <2>15, <5>2
          <6> QED
            BY <4>1, <6>1, <6>3, <6>4 DEF FileOK
        <5> QED
          BY <5>1, <5>2
      <4>3. /\ IsFile(g) /\ g.open = TRUE /\ g.dir = FALSE /\ g.write = TRUE /\ g.append = TRUE /\ g.block \in DirBlocks
            /\ g.index \in 1 .. EntriesPerBlock /\ g.size \in Nat /\ g.pos \in {0, g.size} /\ g.size = f.size /\ g.pos = f.pos
            /\ g.first = a1 /\ g.cur = b
        BY <3>6 DEF Renewed, FileOK
      <4>5. g.dirty \in BOOLEAN /\ (~g.dirty => v.ent[Place(f)].first = a1)
        BY <3>6, <4>2 DEF Renewed
      <4>6. l2.ent[Place(g)].first \in {0, g.first} /\ (~g.dirty => l2.ent[Place(g)].first = g.first)
        BY <4>1, <4>2, <4>3, <4>5
      <4>7. IsFirst(l2, Place(g), g.first) /\ Long(l2.fat, g.first, g.size) /\ Place(g) \in Files(l2)
        BY <4>1, <4>2, <4>3
      <4>8. Reached(g, l2, g.pos)
        BY <3>12, <4>3
      <4>4. b # 0 /\ b \in {0} \cup Cluster /\ a1 \in {0} \cup Cluster
        BY <2>2, <4>2, LinkKinds
      <4> QED
        BY <4>2, <4>3, <4>4, <4>5, <4>6, <4>7, <4>8 DEF FileOK
    <3>14. b \in Reach(Latest(w), g.first)
      <4>1. \E k : Walk(l2.fat, a1, b, k)
        BY <3>11
      <4> QED
        BY <2>2, <3>6, <3>8, <4>1 DEF Reach, Renewed
    <3>15. Reach(v, f.first) \subseteq Reach(Latest(w), g.first)
      <4>1. CASE f.first = 0
        BY <4>1, WalkEnds, LinkKinds DEF Reach
      <4>2. CASE f.first # 0
        <5>1. g.first = f.first
          BY <3>4, <3>6, <4>2 DEF Renewed
        <5> QED
          BY <2>16, <2>19, <2>22, <3>8, <5>1
      <4> QED
        BY <4>1, <4>2
    <3>16. Costs(m, w)
      BY <2>2, <2>16, <2>18, <2>22, <3>7, <3>8, <3>9, <3>14, <3>15, AddedOne
    <3>17. w.file.pos = f.pos /\ w.file.size = f.size /\ w.file.cur # 0
      BY <2>2, <3>6, <3>7, LinkKinds DEF Renewed
    <3> QED
      BY <3>7, <3>8, <3>9, <3>10, <3>12, <3>13, <3>16, <3>17 DEF Added
  <2> QED
    BY <2>16, <2>21, <2>22
<1> QED
  BY <1>9, <1>10

-----------------------------------------------------------------------------
(* The way along the file's chain *)
Following(m, a, i, w) ==
    /\ Moves(m, w) /\ (\E j \in Nat : Walk(Latest(m).fat, a, w.val, j))
    /\ (w.ok => Walk(Latest(m).fat, a, w.val, i))

\* The way along the chain does not leave it.
LEMMA FollowOn ==
    ASSUME NEW m, Mach(m), NEW a, NEW n \in Nat, NEW z, Walk(Latest(m).fat, a, z, n), NEW i \in Nat, i < n,
           NEW w, Following(m, a, i, w), NEW g, g = FatGet(w, w.val)
    PROVE  Following(m, a, i + 1, g)
<1>1. PICK j \in Nat : Walk(Latest(m).fat, a, w.val, j)
  BY DEF Following
<1>2. w.val \in Cluster
  BY <1>1, WalkEnds
<1>3. Moves(m, w) /\ Mach(w) /\ Latest(w) = Latest(m)
  BY Moving DEF Following
<1>4. Moves(w, g) /\ (g.ok => w.ok /\ g.val = Latest(m).fat[w.val]) /\ (~g.ok => g.val = w.val)
  BY <1>2, <1>3, FatGets
<1>5. Moves(m, g)
  BY <1>3, <1>4, MovesTwice
<1>6. CASE ~g.ok
  BY <1>1, <1>4, <1>5, <1>6 DEF Following
<1>7. CASE g.ok
  <2>1. Walk(Latest(m).fat, a, w.val, i)
    BY <1>4, <1>7 DEF Following
  <2>2. PICK e \in Cluster : Walk(Latest(m).fat, a, e, i) /\ Latest(m).fat[e] \in Cluster /\ Walk(Latest(m).fat, a, Latest(m).fat[e], i + 1)
    <3>1. i \in 0 .. n
      OBVIOUS
    <3> QED
      BY <3>1, WalkPrefix
  <2>3. e = w.val
    BY <2>1, <2>2, WalkOnce
  <2>4. Walk(Latest(m).fat, a, g.val, i + 1) /\ i + 1 \in Nat
    BY <1>4, <1>7, <2>2, <2>3
  <2> QED
    BY <1>5, <2>4 DEF Following
<1> QED
  BY <1>6, <1>7

LEMMA Followed ==
    ASSUME NEW m, Mach(m), NEW a, NEW n \in Nat, NEW z, Walk(Latest(m).fat, a, z, n), NEW w, w = Follow(m, a, n)
    PROVE  Following(m, a, n, w)
<1> DEFINE b == [m EXCEPT !.val = a]
           Loop(k, f) == f = [i \in 0 .. k |-> IF i = 0 THEN b ELSE FatGet(f[i - 1], f[i - 1].val)]
           Good == {k \in Nat : \E f : Loop(k, f)}
           go[i \in 0 .. n] == IF i = 0 THEN b ELSE FatGet(go[i - 1], go[i - 1].val)
           S == {k \in Nat : k <= n => Following(m, a, k, go[k])}
<1>1. w = go[n]
  BY DEF Follow
<1>2. 0 \in Good
  <2>1. PICK f : f = [i \in 0 .. 0 |-> b]
    OBVIOUS
  <2>2. Loop(0, f)
    BY <2>1
  <2> QED
    BY <2>2
<1>3. ASSUME NEW k \in Nat, k \in Good PROVE k + 1 \in Good
  <2>1. PICK f : Loop(k, f)
    BY <1>3
  <2>2. PICK h : h = [i \in 0 .. k + 1 |-> IF i = k + 1 THEN FatGet(f[k], f[k].val) ELSE f[i]]
    OBVIOUS
  <2>3. \A i \in 0 .. k + 1 : h[i] = IF i = 0 THEN b ELSE FatGet(h[i - 1], h[i - 1].val)
    <3> HIDE DEF b
    <3> QED
      BY <2>1, <2>2
  <2>4. Loop(k + 1, h)
    BY <2>2, <2>3
  <2> QED
    BY <2>4
<1>4. n \in Good
  <2> HIDE DEF Good
  <2> QED
    BY <1>2, <1>3, Every
<1>5. Loop(n, go)
  BY <1>4
<1>6. Following(m, a, 0, b)
  <2>1. Shape(m) /\ m.n \in Nat /\ m.ok \in BOOLEAN /\ IsDisk(m.disk) /\ CacheOK(m.disk, m.cache)
    BY DEF Mach
  <2>2. /\ b.disk = m.disk /\ b.cache = m.cache /\ b.n = m.n /\ b.ok = m.ok /\ Others(m, b) /\ Shape(b) /\ b.val = a
    BY <2>1 DEF Shape, Others
  <2>3. Mach(b)
    BY <2>1, <2>2 DEF Mach
  <2>4. Latest(b) = Latest(m) /\ Lasting(b) = Lasting(m)
    BY <2>2 DEF Latest, Lasting
  <2>5. Moves(m, b)
    BY <2>1, <2>2, <2>3, <2>4 DEF Moves, Course, Blamed
  <2>6. Walk(Latest(m).fat, a, a, 0)
    BY WalkEnds, WalkZero
  <2> HIDE DEF b
  <2> QED
    BY <2>2, <2>5, <2>6 DEF Following
<1> HIDE DEF b, go
<1>7. 0 \in S
  BY <1>5, <1>6
<1>8. ASSUME NEW k \in Nat, k \in S PROVE k + 1 \in S
  <2>1. ASSUME k + 1 <= n PROVE Following(m, a, k + 1, go[k + 1])
    <3>1. k + 1 \in 0 .. n /\ k + 1 # 0 /\ (k + 1) - 1 = k /\ k < n
      BY <2>1
    <3>2. go[k + 1] = FatGet(go[k], go[k].val)
      BY <1>5, <3>1
    <3>3. Following(m, a, k, go[k])
      BY <1>8, <3>1
    <3> QED
      BY <3>1, <3>2, <3>3, FollowOn
  <2> QED
    BY <2>1
<1> HIDE DEF S
<1>9. n \in S
  BY <1>7, <1>8, Every
<1> QED
  BY <1>1, <1>9 DEF S

-----------------------------------------------------------------------------
(* Members of the file *)
FileIs(m, f, w) == Same(m, w) /\ w.file = f /\ w.alloc = m.alloc /\ w.val = m.val /\ (w.ok <=> m.ok) /\ w.ok = m.ok

\* Only a member of the file is set.
LEMMA SetFile ==
    ASSUME NEW m, Mach(m), NEW f, NEW w, w = [m EXCEPT !.file = f]
    PROVE  FileIs(m, f, w)
BY DEF Mach, Shape, Same, FileIs

\* The file's position is in the cluster it has come to.
MovedTo(f, v, c, p, g) == FileOK(g, v) /\ g.first = f.first /\ g.size = f.size /\ g.pos = p /\ g.cur = c

\* The file with another position
LEMMA FileMoved ==
    ASSUME NEW f, NEW v, FileOK(f, v), NEW c \in Cluster, NEW p \in {0, f.size},
           NEW k \in Nat, Walk(v.fat, f.first, c, k), (k + 1) * ClusterSize >= p,
           NEW g, g = [f EXCEPT !.cur = c, !.pos = p]
    PROVE  MovedTo(f, v, c, p, g)
<1>1. /\ IsFile(g) /\ g.open = f.open /\ g.dir = f.dir /\ g.block = f.block /\ g.index = f.index /\ g.size = f.size
      /\ g.write = f.write /\ g.append = f.append /\ g.dirty = f.dirty /\ g.first = f.first
  BY DEF FileOK, IsFile
<1>2. g.cur = c /\ g.pos = p
  BY DEF FileOK, IsFile
<1>3. Place(g) = Place(f)
  BY <1>1 DEF Place
<1>4. Reached(g, v, g.pos)
  BY <1>1, <1>2 DEF Reached
<1>5. c # 0
  BY LinkKinds
<1> QED
  BY <1>1, <1>2, <1>3, <1>4, <1>5 DEF FileOK, MovedTo

Sought(m, w) ==
    /\ Run(m, w) /\ Safe(w) /\ Alloc(w) /\ FileOK(w.file, Latest(w)) /\ NoCost(m, w) /\ w.file.size = m.file.size /\ w.ok \in BOOLEAN
    /\ w.ok => w.file.pos = w.file.size

\* seekSet to the end of the file, as append does
LEMMA SeekRuns ==
    ASSUME NEW m, Safe(m), m.ok, Alloc(m), FileOK(m.file, Latest(m)), m.file.pos # m.file.size,
           NEW w, w = SeekSet(m, m.file.size)
    PROVE  Sought(m, w)
<1> DEFINE f == m.file
           size == m.file.size
<1>1. /\ f.open = TRUE /\ f.dir = FALSE /\ size \in Nat /\ f.pos = 0 /\ size > 0 /\ ~IsRoot(f) /\ Mach(m)
  BY DEF FileOK, IsRoot, Safe
<1>2. PICK n : n = (size - 1) \div ClusterSize
  OBVIOUS
<1>3. n \in Nat /\ size <= (n + 1) * ClusterSize
  <2>1. n \in Nat
    BY <1>1, <1>2, Room, SizeOfCluster
  <2>2. ((size - 1) \div ClusterSize <= n) <=> size <= (n + 1) * ClusterSize
    <3> HIDE DEF size
    <3> QED
      BY <1>1, <2>1, Room, SizeOfCluster
  <2> QED
    BY <1>2, <2>1, <2>2
<1>4. PICK z \in Cluster : Walk(Latest(m).fat, f.first, z, n)
  BY <1>1, <1>2 DEF FileOK, Long
<1>5. PICK g : g = Follow(m, f.first, n)
  OBVIOUS
<1>6. w = At(g, size)
  <2>1. Restart(f, size)
    BY <1>1 DEF Restart
  <2>2. w = At(Follow(m, f.first, (size - 1) \div ClusterSize - 0), size)
    BY <1>1, <2>1 DEF SeekSet
  <2>3. (size - 1) \div ClusterSize - 0 = n
    BY <1>2, <1>3
  <2> QED
    BY <1>5, <2>2, <2>3
<1>7. Following(m, f.first, n, g)
  <2> HIDE DEF f
  <2> QED
    BY <1>1, <1>3, <1>4, <1>5, Followed
<1>8. /\ Run(m, g) /\ Safe(g) /\ FileOK(g.file, Latest(g)) /\ Alloc(g) /\ NoCost(m, g) /\ Latest(g) = Latest(m) /\ g.file = f
      /\ Mach(g) /\ g.ok \in BOOLEAN
  BY <1>7, MovesFile DEF Following, Safe, Mach
<1>9. PICK j \in Nat : Walk(Latest(m).fat, f.first, g.val, j) /\ (g.ok => j = n)
  BY <1>3, <1>7 DEF Following
<1>10. PICK p : p = IF g.ok THEN size ELSE f.pos
  OBVIOUS
<1>11. p \in {0, f.size} /\ g.val \in Cluster /\ (j + 1) * ClusterSize >= p
  <2>1. (j + 1) * ClusterSize >= 0
    BY SizeOfCluster
  <2> QED
    BY <1>1, <1>3, <1>9, <1>10, <2>1, WalkEnds
<1>12. PICK h : h = [f EXCEPT !.cur = g.val, !.pos = p]
  OBVIOUS
<1>13. FileOK(h, Latest(m)) /\ h.first = f.first /\ h.size = f.size /\ h.pos = p
  <2>1. MovedTo(f, Latest(m), g.val, p, h)
    <3> HIDE DEF f
    <3> QED
      BY <1>8, <1>9, <1>11, <1>12, FileMoved
  <2> QED
    BY <2>1 DEF MovedTo
<1>14. w = [g EXCEPT !.file = h]
  <2>1. w = [g EXCEPT !.file.cur = g.val, !.file.pos = IF g.ok THEN size ELSE @]
    BY <1>6 DEF At
  <2>2. w = [g EXCEPT !.file = [g.file EXCEPT !.cur = g.val, !.pos = p]]
    BY <1>8, <1>10, <2>1
  <2> QED
    BY <1>8, <1>12, <2>2
<1>15. Same(g, w) /\ w.file = h /\ w.alloc = g.alloc /\ w.ok = g.ok
  BY <1>8, <1>14, SetFile DEF FileIs
<1>16. Run(g, w) /\ Safe(w) /\ Latest(w) = Latest(g)
  BY <1>8, <1>15, SameRuns
<1>17. Run(m, w) /\ Latest(w) = Latest(m)
  BY <1>8, <1>16, RunTwice
<1>18. NoCost(m, w)
  BY <1>13, <1>15, <1>17, NoCostSelf
<1>19. FileOK(w.file, Latest(w)) /\ Alloc(w) /\ w.file.size = m.file.size
  BY <1>8, <1>13, <1>15, <1>17 DEF Alloc
<1>20. w.ok => w.file.pos = w.file.size
  BY <1>10, <1>13, <1>15
<1> QED
  BY <1>8, <1>15, <1>16, <1>17, <1>18, <1>19, <1>20 DEF Sought

-----------------------------------------------------------------------------
(* The cluster of the next byte *)
Nexted(m, w) == Added(m, w) /\ (m.file.pos % ClusterSize # 0 => NoCost(m, w))

\* What a part of a call has cost, the call has.
LEMMA HitLater == ASSUME NEW m, NEW g, NEW w, Run(m, g), Run(g, w), m.n \in Nat, Hit(g, w) PROVE Hit(m, w)
<1>1. m.n <= g.n /\ g.n \in Nat /\ w.n \in Nat /\ g.n <= w.n /\ g.bad = m.bad
  BY DEF Run, Course
<1>2. PICK k \in g.n .. w.n - 1 : k \in g.bad
  BY DEF Hit
<1>3. k \in m.n .. w.n - 1
  BY <1>1
<1> QED
  BY <1>1, <1>2, <1>3 DEF Hit

LEMMA HitEarlier == ASSUME NEW m, NEW g, NEW w, Run(m, g), Run(g, w), m.n \in Nat, Hit(m, g) PROVE Hit(m, w)
<1>1. m.n <= g.n /\ g.n \in Nat /\ w.n \in Nat /\ g.n <= w.n /\ g.bad = m.bad
  BY DEF Run, Course
<1>2. PICK k \in m.n .. g.n - 1 : k \in m.bad
  BY DEF Hit
<1>3. k \in m.n .. w.n - 1
  BY <1>1
<1> QED
  BY <1>2, <1>3 DEF Hit

LEMMA CostsLater ==
    ASSUME NEW m, NEW g, NEW w, Run(m, g), Run(g, w), m.n \in Nat, NoCost(m, g)
    PROVE  /\ Costs(g, w) => Costs(m, w)
           /\ NoCost(g, w) => NoCost(m, w)
<1>1. NoCost(g, w) => NoCost(m, w)
  BY DEF NoCost
<1>2. Costs(g, w) => Costs(m, w)
  <2>1. SUFFICES ASSUME Costs(g, w) PROVE Costs(m, w)
    OBVIOUS
  <2>2. Hit(g, w) => Hit(m, w)
    BY HitLater
  <2> QED
    BY <2>1, <2>2 DEF Costs, NoCost
<1> QED
  BY <1>1, <1>2

\* A cluster added after blocks have moved
LEMMA AddedLater ==
    ASSUME NEW m, NEW g, NEW w, Safe(m), Run(m, g), NoCost(m, g), Added(g, w), g.file.pos = m.file.pos, g.file.size = m.file.size
    PROVE  Added(m, w)
<1>1. m.n \in Nat /\ Run(g, w)
  BY DEF Safe, Mach, Added
<1>2. Run(m, w)
  BY <1>1, RunTwice
<1>3. Costs(m, w) /\ (Hit(g, w) => Hit(m, w)) /\ (NoCost(g, w) => NoCost(m, w))
  BY <1>1, CostsLater, HitLater DEF Added
<1> QED
  BY <1>2, <1>3 DEF Added

\* The position moves into a cluster of the chain.
LEMMA Entering ==
    ASSUME NEW m, Safe(m), Alloc(m), FileOK(m.file, Latest(m)), NEW c \in Cluster, NEW k \in Nat,
           Walk(Latest(m).fat, m.file.first, c, k), (k + 1) * ClusterSize >= m.file.pos + 1,
           NEW w, w = [m EXCEPT !.file.cur = c]
    PROVE  Added(m, w) /\ NoCost(m, w)
<1>1. Mach(m) /\ m.file.pos \in {0, m.file.size} /\ m.file.pos \in Nat /\ IsFile(m.file)
  BY DEF Safe, FileOK
<1>2. PICK g : g = [m.file EXCEPT !.cur = c, !.pos = m.file.pos]
  OBVIOUS
<1>3. g = [m.file EXCEPT !.cur = c]
  BY <1>1, <1>2 DEF IsFile
<1>4. (k + 1) * ClusterSize >= m.file.pos
  BY <1>1, SizeOfCluster
<1>5. FileOK(g, Latest(m)) /\ g.first = m.file.first /\ g.size = m.file.size /\ g.pos = m.file.pos /\ g.cur = c
  <2>1. MovedTo(m.file, Latest(m), c, m.file.pos, g)
    BY <1>1, <1>2, <1>4, FileMoved
  <2> QED
    BY <2>1 DEF MovedTo
<1>6. w = [m EXCEPT !.file = g]
  BY <1>3
<1>7. Same(m, w) /\ w.file = g /\ w.alloc = m.alloc
  <2>1. FileIs(m, g, w)
    BY <1>1, <1>6, SetFile
  <2> QED
    BY <2>1 DEF FileIs
<1>8. Run(m, w) /\ Latest(w) = Latest(m)
  BY <1>7, SameRuns
<1>9. NoCost(m, w)
  BY <1>5, <1>7, <1>8, NoCostSelf
<1>10. w.file.cur # 0 /\ Reached(w.file, Latest(w), w.file.pos + 1)
  BY <1>5, <1>7, <1>8, LinkKinds DEF Reached
<1> QED
  BY <1>5, <1>7, <1>8, <1>9, <1>10, CostsNothing DEF Added, Alloc

LEMMA AddedSelf ==
    ASSUME NEW m, NEW w, Safe(m), Alloc(m), FileOK(m.file, Latest(m)), Moves(m, w), ~w.ok
    PROVE  Added(m, w) /\ NoCost(m, w)
<1>1. Run(m, w) /\ Safe(w) /\ FileOK(w.file, Latest(w)) /\ Alloc(w) /\ NoCost(m, w) /\ Latest(w) = Latest(m) /\ w.file = m.file
  BY MovesFile
<1> QED
  BY <1>1, CostsNothing DEF Added

\* The next byte's cluster is found, or added.
LEMMA NextRuns ==
    ASSUME NEW m, Safe(m), m.ok, Alloc(m), FileOK(m.file, Latest(m)), NEW w, w = NextCluster(m)
    PROVE  Nexted(m, w)
<1> DEFINE f == m.file
<1>0. Mach(m) /\ m.ok \in BOOLEAN /\ f.pos \in Nat /\ Sound(Latest(m)) /\ IsView(Latest(m)) /\ m.n \in Nat
  <2>1. f.pos \in Nat
    BY DEF FileOK
  <2> QED
    BY <2>1, ViewsOf DEF Safe, Mach
<1>1. CASE f.pos % ClusterSize # 0
  <2>1. w = m
    BY <1>1 DEF NextCluster
  <2>2. f.cur # 0
    <3>1. 0 % ClusterSize = 0
      BY SizeOfCluster
    <3> QED
      BY <1>1, <3>1 DEF FileOK
  <2>3. PICK k \in Nat : Walk(Latest(m).fat, f.first, f.cur, k) /\ (k + 1) * ClusterSize >= f.pos
    BY <2>2 DEF FileOK, Reached
  <2>4. (k + 1) * ClusterSize # f.pos
    <3>1. (ClusterSize * (k + 1) + 0) % ClusterSize = 0
      BY SizeOfCluster
    <3>2. ClusterSize * (k + 1) + 0 = (k + 1) * ClusterSize
      BY SizeOfCluster
    <3> QED
      BY <1>1, <3>1, <3>2
  <2>5. (k + 1) * ClusterSize >= f.pos + 1
    <3>1. (k + 1) * ClusterSize \in Nat
      BY SizeOfCluster
    <3> QED
      BY <1>0, <2>3, <2>4, <3>1
  <2>6. Reached(f, Latest(m), f.pos + 1)
    BY <2>3, <2>5 DEF Reached
  <2>7. Run(m, m) /\ NoCost(m, m)
    BY RunSelf DEF NoCost
  <2> QED
    BY <2>1, <2>2, <2>6, <2>7, CostsNothing DEF Nexted, Added
<1>2. CASE f.pos % ClusterSize = 0 /\ f.cur # 0
  <2>1. PICK g : g = FatGet(m, f.cur)
    OBVIOUS
  <2>2. w = Extended(g)
    BY <1>2, <2>1 DEF NextCluster
  <2>3. f.cur \in Cluster /\ Latest(m).fat[f.cur] # 0 /\ Latest(m).fat[f.cur] \in Links
    BY <1>0, <1>2, CurUsed DEF IsView
  <2>4. Moves(m, g) /\ (g.ok => g.val = Latest(m).fat[f.cur]) /\ Mach(g)
    BY <1>0, <2>1, <2>3, FatGets
  <2>5. Run(m, g) /\ Safe(g) /\ FileOK(g.file, Latest(g)) /\ Alloc(g) /\ NoCost(m, g) /\ Latest(g) = Latest(m) /\ g.file = f
    BY <2>4, MovesFile
  <2>6. CASE ~g.ok
    <3>1. w = g
      BY <2>2, <2>6 DEF Extended, GoTo
    <3> QED
      BY <1>2, <2>4, <2>6, <3>1, AddedSelf DEF Nexted
  <2>7. CASE g.ok /\ IsEOC(g.val)
    <3>1. w = AddCluster(g)
      BY <2>2, <2>7 DEF Extended
    <3>2. Latest(g).fat[g.file.cur] = EOC
      BY <2>3, <2>4, <2>5, <2>7, LinkKinds DEF Links, IsEOC
    <3>3. Added(g, w)
      BY <1>2, <2>5, <2>7, <3>1, <3>2, AddClusterRuns
    <3> QED
      BY <1>2, <2>5, <3>3, AddedLater DEF Nexted
  <2>8. CASE g.ok /\ ~IsEOC(g.val)
    <3>1. w = [g EXCEPT !.file.cur = g.val]
      BY <2>2, <2>8 DEF Extended, GoTo
    <3>2. g.val \in Cluster /\ Latest(m).fat[f.cur] = g.val
      BY <2>3, <2>4, <2>8, LinkKinds DEF Links
    <3>3. PICK k \in Nat : Walk(Latest(m).fat, f.first, f.cur, k) /\ (k + 1) * ClusterSize >= f.pos
      BY <1>2 DEF FileOK, Reached
    <3>4. Walk(Latest(m).fat, f.first, g.val, k + 1)
      BY <3>2, <3>3, WalkStep
    <3>5. ((k + 1) + 1) * ClusterSize >= f.pos + 1 /\ k + 1 \in Nat
      <4>1. ((k + 1) + 1) * ClusterSize = (k + 1) * ClusterSize + ClusterSize /\ (k + 1) * ClusterSize \in Nat
        BY SizeOfCluster
      <4> QED
        BY <1>0, <3>3, <4>1, SizeOfCluster
    <3>6. Added(g, w)
      BY <2>5, <3>1, <3>2, <3>4, <3>5, Entering
    <3> QED
      BY <1>2, <2>5, <3>6, AddedLater DEF Nexted
  <2> QED
    BY <2>6, <2>7, <2>8
<1>3. CASE f.pos % ClusterSize = 0 /\ f.cur = 0
  <2>1. CASE f.first = 0
    <3>1. w = AddCluster(m)
      BY <1>3, <2>1 DEF NextCluster
    <3>2. Added(m, w)
      BY <1>3, <2>1, <3>1, AddClusterRuns
    <3> QED
      BY <1>3, <3>2 DEF Nexted
  <2>2. CASE f.first # 0
    <3>1. w = [m EXCEPT !.file.cur = f.first]
      BY <1>3, <2>2 DEF NextCluster
    <3>2. f.first \in Cluster /\ f.pos = 0
      BY <1>3, <2>2 DEF FileOK
    <3>3. Walk(Latest(m).fat, f.first, f.first, 0) /\ (0 + 1) * ClusterSize >= f.pos + 1
      BY <3>2, WalkZero, SizeOfCluster
    <3>4. Added(m, w)
      BY <3>1, <3>2, <3>3, Entering
    <3> QED
      BY <1>3, <3>4 DEF Nexted
  <2> QED
    BY <2>1, <2>2
<1> QED
  BY <1>1, <1>2, <1>3

-----------------------------------------------------------------------------
(* A byte *)
LEMMA DataFilled ==
    ASSUME NEW m, Mach(m), m.cache.block \notin Meta, NEW x, NEW w, w = [m EXCEPT !.cache.data = x]
    PROVE  Moves(m, w)
<1>1. /\ Shape(m) /\ m.n \in Nat /\ m.ok \in BOOLEAN /\ IsDisk(m.disk) /\ CacheOK(m.disk, m.cache)
  BY DEF Mach
<1>2. PICK e : e = [m.cache EXCEPT !.data = x]
  OBVIOUS
<1>3. w = [m EXCEPT !.cache = e]
  BY <1>2
<1>4. IsCache(m.cache) /\ m.cache.dirty \in BOOLEAN /\ m.cache.fat \in BOOLEAN /\ (m.cache.fat <=> m.cache.block \in FatBlocks)
  BY <1>1 DEF CacheOK, IsCache
<1>5. IsCache(e) /\ e.block = m.cache.block /\ e.data = x /\ e.dirty = m.cache.dirty /\ e.fat = m.cache.fat
  BY <1>2, <1>4 DEF IsCache
<1>6. Shape(w) /\ w.cache = e /\ Others(m, w) /\ w.val = m.val /\ w.ok = m.ok /\ w.n = m.n /\ w.disk = m.disk
  BY <1>1, <1>3 DEF Shape, Others
<1>7. IsBlock(m.cache.block, x) /\ IsBlock(m.cache.block, m.cache.data)
  BY DEF IsBlock, Meta
<1>8. CacheOK(w.disk, w.cache)
  BY <1>4, <1>5, <1>6, <1>7 DEF CacheOK, IsCache
<1>9. Mach(w)
  BY <1>1, <1>6, <1>8 DEF Mach
<1>10. Lasting(w) = Lasting(m)
  BY <1>6 DEF Lasting
<1>11. Latest(w) = Latest(m)
  <2>1. View([m.disk EXCEPT ![m.cache.block] = x]) = View(m.disk)
    BY <1>1, <1>7, Overlay
  <2>2. View([m.disk EXCEPT ![m.cache.block] = m.cache.data]) = View(m.disk)
    BY <1>1, <1>7, Overlay
  <2> QED
    BY <1>5, <1>6, <2>1, <2>2 DEF Latest
<1> QED
  BY <1>1, <1>6, <1>9, <1>10, <1>11 DEF Moves, Course, Blamed

\* A byte is put into the cached block of data, which may be written.
LEMMA WriteCachedMoves ==
    ASSUME NEW m, Mach(m), m.file.dir = FALSE, NEW n, NEW byte, NEW w, w = WriteCached(m, n, byte)
    PROVE  Moves(m, w)
<1> DEFINE f == m.file
<1>1. CASE ~m.ok
  <2>1. w = m
    BY <1>1 DEF WriteCached
  <2> QED
    BY <2>1, MovesSelf
<1>2. CASE m.ok
  <2>1. PICK mode : mode = IF OffsetOf(f) = 0 /\ f.pos >= f.size THEN "reserve" ELSE "write"
    OBVIOUS
  <2>2. PICK b : b = DataBlock(f.cur, BlockOfCluster(f))
    OBVIOUS
  <2>3. ~IsRoot(f) /\ BlockAt(f) = b
    BY <2>2 DEF IsRoot, BlockAt
  <2>4. PICK x : x = CacheFetch(m, b, mode, FALSE)
    OBVIOUS
  <2>5. w = Full(Filled(x, OffsetOf(f), n, byte), OffsetOf(f) + n)
    BY <1>2, <2>1, <2>3, <2>4 DEF WriteCached
  <2>6. b \notin Meta /\ b \notin FatBlocks
    BY <2>2, Blocks DEF Meta
  <2>7. Fetched(m, b, x)
    <3>1. FALSE \in BOOLEAN /\ (FALSE <=> b \in FatBlocks)
      BY <2>6
    <3> QED
      BY <2>4, <2>6, <3>1, FetchMoves
  <2>8. Moves(m, x) /\ Mach(x) /\ (x.ok => x.cache.block = b)
    BY <2>7, Moving DEF Fetched
  <2>9. PICK y : y = Filled(x, OffsetOf(f), n, byte)
    OBVIOUS
  <2>10. Moves(x, y) /\ Mach(y)
    <3>1. CASE ~x.ok
      BY <2>8, <2>9, <3>1, MovesSelf DEF Filled
    <3>2. CASE x.ok
      <4>1. PICK z : y = [x EXCEPT !.cache.data = z]
        BY <2>9, <3>2 DEF Filled
      <4> QED
        BY <2>6, <2>8, <3>2, <4>1, DataFilled, Moving
    <3> QED
      BY <3>1, <3>2
  <2>11. Moves(y, w)
    <3>1. w = CacheSync(y) \/ w = y
      BY <2>5, <2>9 DEF Full
    <3> QED
      BY <2>10, <3>1, SyncMoves, MovesSelf
  <2> QED
    BY <2>8, <2>10, <2>11, MovesTwice
<1> QED
  BY <1>1, <1>2

\* One byte never goes past the cache.
LEMMA StepOfOne ==
    ASSUME NEW m, m.file.dir = FALSE, m.file.pos \in Nat, NEW byte
    PROVE  WriteStep(m, 1, byte) = Moved(WriteCached(m, 1, byte), 1)
<1>1. ~PastCache(m.file, 1)
  BY SizeOfCluster DEF PastCache
<1>2. OffsetOf(m.file) \in 0 .. BlockSize - 1
  BY SizeOfCluster DEF OffsetOf, IsRoot
<1>3. Lesser(BlockSize - OffsetOf(m.file), 1) = 1
  BY <1>2, SizeOfCluster DEF Lesser
<1>4. Step(m.file, 1) = 1
  BY <1>1, <1>3 DEF Step
<1> QED
  BY <1>1, <1>4 DEF WriteStep, Written

\* A byte goes to a block of data, whose content the view does not show.
LEMMA WriteOne ==
    ASSUME NEW m, m.file.pos \in Nat, NEW byte
    PROVE  WriteAll(m, byte, 1) = Sized(IF ~m.ok THEN m ELSE WriteStep(NextCluster(m), 1, byte))
<1> DEFINE After(w) == IF ~w.ok \/ w.file.pos = m.file.pos + 1 THEN w
                       ELSE WriteStep(NextCluster(w), m.file.pos + 1 - w.file.pos, byte)
           write[i \in 0 .. 1] == IF i = 0 THEN m
                                  ELSE LET w == write[i - 1]
                                       IN  IF ~w.ok \/ w.file.pos = m.file.pos + 1 THEN w
                                           ELSE WriteStep(NextCluster(w), m.file.pos + 1 - w.file.pos, byte)
<1>1. \E f : f = [i \in 0 .. 1 |-> IF i = 0 THEN m ELSE After(f[i - 1])]
  <2> HIDE DEF After
  <2>1. PICK f : f = [i \in 0 .. 1 |-> IF i = 0 THEN m ELSE After(m)]
    OBVIOUS
  <2>2. f[0] = m /\ f[1] = After(m)
    BY <2>1
  <2>4. \A i \in 0 .. 1 : f[i] = IF i = 0 THEN m ELSE After(f[i - 1])
    BY <2>2
  <2> QED
    BY <2>1, <2>4
<1>2. write = [i \in 0 .. 1 |-> IF i = 0 THEN m ELSE After(write[i - 1])]
  BY <1>1
<1>3. WriteAll(m, byte, 1) = Sized(write[1])
  BY DEF WriteAll
<1> HIDE DEF write
<1>4. write[1] = After(m)
  <2> HIDE DEF After
  <2>1. write[0] = m
    BY <1>2
  <2> QED
    BY <1>2, <2>1
<1>5. m.file.pos # m.file.pos + 1 /\ m.file.pos + 1 - m.file.pos = 1
  OBVIOUS
<1>6. After(m) = IF ~m.ok THEN m ELSE WriteStep(NextCluster(m), 1, byte)
  BY <1>5
<1> QED
  BY <1>3, <1>4, <1>6

\* The file is one byte longer, and its chain long enough.
GrownTo(f, v, g) == FileOK(g, v) /\ g.first = f.first /\ g.size = f.size + 1

LEMMA FileGrown ==
    ASSUME NEW f, NEW v, FileOK(f, v), f.cur # 0, Reached(f, v, f.size + 1),
           NEW g, g = [f EXCEPT !.pos = f.size + 1, !.size = f.size + 1, !.dirty = TRUE]
    PROVE  GrownTo(f, v, g)
<1>1. /\ IsFile(g) /\ g.open = f.open /\ g.dir = f.dir /\ g.block = f.block /\ g.index = f.index /\ g.cur = f.cur
      /\ g.write = f.write /\ g.append = f.append /\ g.first = f.first
  BY DEF FileOK, IsFile
<1>2. g.pos = f.size + 1 /\ g.size = f.size + 1 /\ g.dirty = TRUE
  BY DEF FileOK, IsFile
<1>3. Place(g) = Place(f)
  BY <1>1 DEF Place
<1>4. Reached(g, v, g.pos)
  BY <1>1, <1>2 DEF Reached
<1>5. f.size \in Nat
  BY DEF FileOK
<1>6. Long(v.fat, f.first, f.size + 1)
  <2>1. PICK k \in Nat : Walk(v.fat, f.first, f.cur, k) /\ (k + 1) * ClusterSize >= f.size + 1
    BY DEF Reached
  <2>2. PICK x \in Nat : x = f.size + 1 /\ x > 0
    BY <1>5
  <2>3. (x - 1) \div ClusterSize \in Nat /\ (x - 1) \div ClusterSize <= k
    BY <2>1, <2>2, Room, SizeOfCluster
  <2>4. (x - 1) \div ClusterSize \in 0 .. k
    BY <2>3
  <2>5. \E e \in Cluster : Walk(v.fat, f.first, e, (x - 1) \div ClusterSize)
    BY <2>1, <2>4, WalkPrefix
  <2> QED
    BY <2>2, <2>5 DEF Long
<1> QED
  BY <1>1, <1>2, <1>3, <1>4, <1>5, <1>6 DEF FileOK, GrownTo

Sizes(y, x, g, w) == g = [y.file EXCEPT !.pos = x + 1, !.size = x + 1, !.dirty = TRUE] /\ w = [y EXCEPT !.file = g]

\* The size is set, the file to be synced.
LEMMA SizedSets ==
    ASSUME NEW y, y.ok, Shape(y), IsFile(y.file), NEW x \in Nat, y.file.pos = x, y.file.size = x,
           NEW w, w = Sized(Moved(y, 1))
    PROVE  \E g : Sizes(y, x, g, w)
<1>1. PICK z : z = [y EXCEPT !.file.pos = y.file.pos + 1]
  OBVIOUS
<1>2. Moved(y, 1) = z
  BY <1>1 DEF Moved
<1>3. PICK h : h = [y.file EXCEPT !.pos = x + 1]
  OBVIOUS
<1>4. z = [y EXCEPT !.file = h]
  BY <1>1, <1>3
<1>5. z.ok /\ z.file = h /\ Shape(z)
  BY <1>4 DEF Shape
<1>6. h.pos = x + 1 /\ h.size = x /\ IsFile(h)
  BY <1>3 DEF IsFile
<1>7. z.file.pos > z.file.size
  BY <1>5, <1>6
<1>8. w = [z EXCEPT !.file.size = z.file.pos, !.file.dirty = TRUE]
  BY <1>2, <1>5, <1>7 DEF Sized
<1>9. PICK g : g = [h EXCEPT !.size = x + 1, !.dirty = TRUE]
  OBVIOUS
<1>10. w = [z EXCEPT !.file = g]
  BY <1>5, <1>6, <1>8, <1>9
<1>11. w = [y EXCEPT !.file = g]
  BY <1>4, <1>10 DEF Shape
<1>12. g = [y.file EXCEPT !.pos = x + 1, !.size = x + 1, !.dirty = TRUE]
  BY <1>3, <1>9 DEF IsFile
<1> QED
  BY <1>11, <1>12 DEF Sizes

\* A byte: if the file is amid a cluster it costs nothing, and no byte costs more
\* than one cluster.
OneByte(m, w) ==
    /\ Run(m, w) /\ Safe(w) /\ Alloc(w) /\ FileOK(w.file, Latest(w)) /\ Costs(m, w)
    /\ w.file.size \in {m.file.size, m.file.size + 1}
    /\ Hit(m, w) \/ NoCost(m, w) \/ w.file.size = m.file.size + 1
    /\ m.file.size % ClusterSize # 0 => NoCost(m, w)

LEMMA WriteRuns ==
    ASSUME NEW m, Safe(m), m.ok, Alloc(m), FileOK(m.file, Latest(m)), NEW byte, NEW w, w = Write(m, byte, 1)
    PROVE  OneByte(m, w)
<1>1. Mach(m) /\ m.n \in Nat /\ m.ok \in BOOLEAN
  BY DEF Safe, Mach
<1>2. PICK t : t = AtEnd(m)
  OBVIOUS
<1>3. Sought(m, t)
  <2>1. CASE m.file.pos = m.file.size
    <3>1. t = m
      BY <1>2, <2>1 DEF AtEnd
    <3>2. Run(m, m) /\ NoCost(m, m)
      BY RunSelf DEF NoCost
    <3> QED
      BY <1>1, <2>1, <3>1, <3>2 DEF Sought
  <2>2. CASE m.file.pos # m.file.size
    <3>1. t = SeekSet(m, m.file.size)
      BY <1>2, <2>2 DEF AtEnd, FileOK
    <3> QED
      BY <2>2, <3>1, SeekRuns
  <2> QED
    BY <2>1, <2>2
<1>4. /\ Run(m, t) /\ Safe(t) /\ Alloc(t) /\ FileOK(t.file, Latest(t)) /\ NoCost(m, t) /\ t.file.size = m.file.size /\ t.ok \in BOOLEAN
      /\ (t.ok => t.file.pos = t.file.size)
  BY <1>3 DEF Sought
<1>5. t.file.size \in Nat /\ t.file.pos \in Nat /\ Mach(t)
  BY <1>4 DEF FileOK, Safe
<1>6. w = WriteAll(t, byte, 1)
  BY <1>2 DEF Write, FileOK
<1>7. w = Sized(IF ~t.ok THEN t ELSE WriteStep(NextCluster(t), 1, byte))
  BY <1>5, <1>6, WriteOne
<1>8. CASE ~t.ok
  <2>1. w = t
    BY <1>7, <1>8 DEF Sized
  <2> QED
    BY <1>4, <2>1, CostsNothing DEF OneByte
<1>9. CASE t.ok
  <2>1. PICK x : x = NextCluster(t)
    OBVIOUS
  <2>2. Nexted(t, x)
    BY <1>4, <1>9, <2>1, NextRuns
  <2>3. /\ Run(t, x) /\ Safe(x) /\ Mach(x) /\ FileOK(x.file, Latest(x)) /\ Alloc(x) /\ x.file.pos = t.file.pos /\ x.file.size = t.file.size
        /\ Costs(t, x) /\ (x.ok \/ Hit(t, x) \/ NoCost(t, x))
        /\ (x.ok => x.file.cur # 0 /\ Reached(x.file, Latest(x), x.file.pos + 1))
        /\ (t.file.pos % ClusterSize # 0 => NoCost(t, x))
    BY <2>2 DEF Nexted, Added, Run, Safe
  <2>4. x.file.dir = FALSE
    BY <2>3 DEF FileOK
  <2>5. PICK y : y = WriteCached(x, 1, byte)
    OBVIOUS
  <2>6. w = Sized(Moved(y, 1))
    BY <1>5, <1>7, <1>9, <2>1, <2>3, <2>4, <2>5, StepOfOne
  <2>7. Moves(x, y)
    BY <2>3, <2>4, <2>5, WriteCachedMoves
  <2>8. Run(x, y) /\ Safe(y) /\ FileOK(y.file, Latest(y)) /\ Alloc(y) /\ NoCost(x, y) /\ Latest(y) = Latest(x) /\ y.file = x.file
    BY <2>3, <2>7, MovesFile
  <2>9. Run(m, x) /\ Run(m, y)
    BY <1>4, <2>3, <2>8, RunTwice
  <2>10. Costs(m, y) /\ (m.file.size % ClusterSize # 0 => NoCost(m, y))
    <3>1. Costs(m, x) /\ (m.file.size % ClusterSize # 0 => NoCost(m, x))
      BY <1>1, <1>4, <1>9, <2>3, CostsLater
    <3>2. Costs(m, y)
      <4>1. Hit(m, x) => Hit(m, y)
        BY <1>1, <2>8, <2>9, HitEarlier
      <4> QED
        BY <2>8, <3>1, <4>1 DEF Costs, NoCost
    <3>3. NoCost(m, x) => NoCost(m, y)
      BY <2>8 DEF NoCost
    <3> QED
      BY <3>1, <3>2, <3>3
  <2>11. CASE ~y.ok
    <3>1. w = y
      BY <2>6, <2>11 DEF Sized, Moved
    <3>2. Hit(m, y) \/ NoCost(m, y)
      <4>1. CASE x.ok
        <5>1. Hit(x, y)
          BY <2>7, <2>11, <4>1 DEF Moves, Blamed, Hit
        <5> QED
          BY <1>1, <2>8, <2>9, <5>1, HitLater
      <4>2. CASE ~x.ok
        <5>1. Hit(t, x) \/ NoCost(t, x)
          BY <2>3, <4>2
        <5>2. CASE Hit(t, x)
          <6>1. Hit(m, x)
            BY <1>1, <1>4, <2>3, <5>2, HitLater
          <6> QED
            BY <1>1, <2>8, <2>9, <6>1, HitEarlier
        <5>3. CASE NoCost(t, x)
          BY <1>4, <2>8, <5>3 DEF NoCost
        <5> QED
          BY <5>1, <5>2, <5>3
      <4> QED
        BY <4>1, <4>2
    <3>3. y.file.size = m.file.size
      BY <1>4, <2>3, <2>8
    <3> QED
      BY <2>8, <2>9, <2>10, <3>1, <3>2, <3>3 DEF OneByte
  <2>12. CASE y.ok
    <3>1. x.ok
      BY <2>7, <2>12 DEF Moves
    <3>2. y.file.pos = y.file.size /\ y.file.size = m.file.size /\ y.file.size \in Nat /\ IsFile(y.file) /\ Shape(y) /\ Mach(y)
      BY <1>4, <1>5, <1>9, <2>3, <2>8 DEF FileOK, Safe, Mach
    <3>3. PICK g : g = [y.file EXCEPT !.pos = y.file.size + 1, !.size = y.file.size + 1, !.dirty = TRUE] /\ w = [y EXCEPT !.file = g]
      <4>1. PICK x0 \in Nat : x0 = y.file.size
        BY <3>2
      <4>2. \E g : Sizes(y, x0, g, w)
        BY <2>6, <2>12, <3>2, <4>1, SizedSets
      <4> QED
        BY <4>1, <4>2 DEF Sizes
    <3>4. y.file.cur # 0 /\ Reached(y.file, Latest(y), y.file.size + 1)
      BY <2>3, <2>8, <3>1, <3>2
    <3>5. GrownTo(y.file, Latest(y), g)
      BY <2>8, <3>3, <3>4, FileGrown
    <3>6. FileIs(y, g, w)
      BY <3>2, <3>3, SetFile
    <3>7. Same(y, w) /\ w.file = g /\ w.alloc = y.alloc
      BY <3>6 DEF FileIs
    <3>8. Run(y, w) /\ Safe(w) /\ Latest(w) = Latest(y)
      BY <2>8, <3>7, SameRuns
    <3>9. NoCost(y, w)
      BY <3>5, <3>7, <3>8, NoCostSelf DEF GrownTo
    <3>10. Run(m, w)
      BY <2>9, <3>8, RunTwice
    <3>11. Costs(m, w)
      <4>1. Hit(m, y) => Hit(m, w)
        BY <1>1, <2>9, <3>8, HitEarlier
      <4> QED
        BY <2>10, <3>9, <4>1 DEF Costs, NoCost
    <3>12. m.file.size % ClusterSize # 0 => NoCost(m, w)
      BY <2>10, <3>9 DEF NoCost
    <3>13. w.file.size = m.file.size + 1 /\ FileOK(w.file, Latest(w)) /\ Alloc(w)
      BY <2>8, <3>2, <3>5, <3>7, <3>8 DEF GrownTo, Alloc
    <3> QED
      BY <3>8, <3>10, <3>11, <3>12, <3>13 DEF OneByte
  <2> QED
    BY <2>11, <2>12
<1> QED
  BY <1>4, <1>8, <1>9

-----------------------------------------------------------------------------
(* Numbers of clusters *)
LEMMA Few ==
    ASSUME NEW A, NEW B, A \subseteq B, B \subseteq Cluster
    PROVE  Cardinality(A) \in Nat /\ Cardinality(B) \in Nat /\ Cardinality(A) <= Cardinality(B)
<1>1. IsFiniteSet(Cluster)
  BY FS_Interval, FatAssumption DEF Cluster
<1>2. IsFiniteSet(B)
  BY <1>1, FS_Subset
<1> QED
  BY <1>2, FS_Subset, FS_CardinalityType

LEMMA OneMore ==
    ASSUME NEW A, NEW B, NEW b \in Cluster, A \subseteq B \cup {b}, B \subseteq Cluster
    PROVE  Cardinality(A) \in Nat /\ Cardinality(B) \in Nat /\ Cardinality(A) <= Cardinality(B) + 1
<1>1. IsFiniteSet(Cluster)
  BY FS_Interval, FatAssumption DEF Cluster
<1>2. IsFiniteSet(B)
  BY <1>1, FS_Subset
<1>3. IsFiniteSet(B \cup {b}) /\ Cardinality(B \cup {b}) = IF b \in B THEN Cardinality(B) ELSE Cardinality(B) + 1
  BY <1>2, FS_AddElement
<1>4. Cardinality(A) \in Nat /\ Cardinality(A) <= Cardinality(B \cup {b}) /\ Cardinality(B) \in Nat
  BY <1>2, <1>3, FS_Subset, FS_CardinalityType
<1> QED
  BY <1>3, <1>4

LEMMA InClusters == \A m : Loose(m) \subseteq Cluster /\ Lost(m) \subseteq Cluster
BY DEF Loose, Lost, Used

\* The line is done, or what is left of it fits into the cluster.
RestFits(s, i) == i = LineLength \/ (s % ClusterSize # 0 /\ (s % ClusterSize) + (LineLength - i) <= ClusterSize)
Counts(w, F, i) ==
    /\ Cardinality(Lost(w)) <= F
    /\ Cardinality(Loose(w)) <= F \/ (Cardinality(Loose(w)) <= F + 1 /\ RestFits(w.file.size, i))

\* The next size, within a cluster
LEMMA NextSize ==
    ASSUME NEW s \in Nat, NEW w \in Nat, w > 1
    PROVE  (s + 1) % w = IF s % w = w - 1 THEN 0 ELSE (s % w) + 1
<1>a. PICK t \in Int : t = s + 1
  OBVIOUS
<1>b. s \div w \in Int /\ s % w \in 0 .. w - 1 /\ s = w * (s \div w) + (s % w)
  BY DivMod
<1>c. t \div w \in Int /\ t % w \in 0 .. w - 1 /\ t = w * (t \div w) + (t % w)
  BY DivMod
<1>1. PICK r \in 0 .. w - 1, q \in Int : s = w * q + r /\ r = s % w
  BY <1>b
<1>2. PICK r1 \in 0 .. w - 1, q1 \in Int : s + 1 = w * q1 + r1 /\ r1 = (s + 1) % w
  BY <1>a, <1>c
<1>3. w * (q1 - q) = r + 1 - r1
  <2>1. w * q + r + 1 = w * q1 + r1
    BY <1>1, <1>2
  <2>2. w * (q1 - q) = w * q1 - w * q
    OBVIOUS
  <2>3. PICK a \in Int : a = w * q
    OBVIOUS
  <2>4. PICK a1 \in Int : a1 = w * q1
    OBVIOUS
  <2> QED
    BY <2>1, <2>2, <2>3, <2>4
<1>4. PICK z \in Int : z = q1 - q
  BY <1>1, <1>2
<1>5. w * z = r + 1 - r1
  BY <1>3, <1>4
<1>6. z <= 1 /\ z >= 0
  <2>1. CASE z >= 2
    <3>1. w * z >= w * 2
      BY <2>1
    <3> QED
      BY <1>5, <3>1
  <2>2. CASE z <= -1
    <3>1. w * z <= w * (-1)
      BY <2>2
    <3> QED
      BY <1>5, <3>1
  <2> QED
    BY <2>1, <2>2
<1>7. z = 0 \/ z = 1
  BY <1>6
<1>8. r1 = r + 1 \/ r1 = r + 1 - w
  BY <1>5, <1>7
<1>9. r1 = IF r = w - 1 THEN 0 ELSE r + 1
  BY <1>8
<1> QED
  BY <1>1, <1>2, <1>9

\* A line starts at most one cluster.
LEMMA TailOn ==
    ASSUME NEW s \in Nat, NEW i \in Nat, i < LineLength
    PROVE  /\ RestFits(s, i) => s % ClusterSize # 0 /\ RestFits(s, i + 1) /\ RestFits(s + 1, i + 1)
           /\ s % ClusterSize = 0 => RestFits(s + 1, i + 1)
<1>1. PICK w \in Nat : w = ClusterSize /\ w > 1
  BY SizeOfCluster
<1>2. PICK r \in 0 .. w - 1 : r = s % w
  <2>1. s % w \in 0 .. w - 1
    BY <1>1, DivMod
  <2> QED
    BY <2>1
<1>3. (s + 1) % w = IF r = w - 1 THEN 0 ELSE r + 1
  BY <1>1, <1>2, NextSize
<1>4. LineLength \in Nat /\ LineLength <= w
  BY <1>1, LogAssumption
<1> QED
  BY <1>1, <1>2, <1>3, <1>4 DEF RestFits

\* What a byte costs.
LEMMA ByteCosts ==
    ASSUME NEW u, NEW v, OneByte(u, v), FileOK(u.file, Latest(u)), NEW F \in Nat, NEW i \in Nat, i < LineLength, Counts(u, F, i)
    PROVE  /\ ~Hit(u, v) => Counts(v, F, i + 1)
           /\ Cardinality(Lost(v)) <= F + 1 /\ Cardinality(Loose(v)) <= F + 1
<1>1. PICK b \in Cluster : Loose(v) \subseteq Loose(u) \cup {b} /\ Lost(v) \subseteq Lost(u) \cup {b}
  BY DEF OneByte, Costs
<1>2. Hit(u, v) \/ Lost(v) \subseteq Lost(u)
  BY DEF OneByte, Costs
<1>3. PICK s \in Nat : s = u.file.size
  BY DEF FileOK
<1>4. /\ v.file.size \in {s, s + 1} /\ (Hit(u, v) \/ NoCost(u, v) \/ v.file.size = s + 1)
      /\ (s % ClusterSize # 0 => NoCost(u, v))
  BY <1>3 DEF OneByte
<1>5. PICK x \in Nat, x1 \in Nat, y \in Nat, y1 \in Nat :
         /\ x = Cardinality(Lost(u)) /\ x1 = Cardinality(Lost(v)) /\ y = Cardinality(Loose(u)) /\ y1 = Cardinality(Loose(v))
         /\ x1 <= x + 1 /\ y1 <= y + 1
  BY <1>1, InClusters, OneMore
<1>6. Hit(u, v) \/ x1 <= x
  BY <1>2, <1>5, InClusters, Few
<1>7. NoCost(u, v) => y1 <= y /\ x1 <= x
  BY <1>5, InClusters, Few DEF NoCost
<1>8. /\ RestFits(s, i) => s % ClusterSize # 0 /\ RestFits(s, i + 1) /\ RestFits(s + 1, i + 1)
      /\ s % ClusterSize = 0 => RestFits(s + 1, i + 1)
  BY TailOn
<1>9. x <= F /\ (y <= F \/ (y <= F + 1 /\ RestFits(s, i)))
  BY <1>3, <1>5 DEF Counts
<1>10. x1 <= F + 1 /\ y1 <= F + 1
  BY <1>4, <1>5, <1>7, <1>8, <1>9
<1>11. ASSUME ~Hit(u, v) PROVE x1 <= F /\ (y1 <= F \/ (y1 <= F + 1 /\ RestFits(v.file.size, i + 1)))
  <2>1. x1 <= F
    BY <1>6, <1>9, <1>11
  <2>2. CASE y <= F
    <3>1. CASE NoCost(u, v)
      BY <1>7, <2>1, <2>2, <3>1
    <3>2. CASE ~NoCost(u, v)
      BY <1>4, <1>8, <1>10, <1>11, <2>1, <3>2
    <3> QED
      BY <3>1, <3>2
  <2>3. CASE y <= F + 1 /\ RestFits(s, i)
    BY <1>4, <1>8, <1>10, <2>1, <2>3
  <2> QED
    BY <1>9, <2>2, <2>3
<1> QED
  BY <1>5, <1>10, <1>11 DEF Counts

-----------------------------------------------------------------------------
(* A line *)
\* Used and owned by nobody; no failure so far; the shape of power failures and
\* of a card that is pulled.
Stray(v) == Used(v) \ Owned(v)
Clean(w) == \A k \in w.bad : w.n <= k

\* The transfers from the k-th on fail, and leave no trace.
Ending(m) == \E k \in Nat : m.bad = k .. MaxTransfers /\ (m.took = {} \/ k = MaxTransfers)

\* After i bytes of a line: without a failure so far one cluster is loose at most
\* (the directory has yet to say so) and none is new among the lost; a single
\* failure loses one more; and if the failures last, what lasts has lost one at most.
Printed(m, fl, i, w) ==
    /\ Run(m, w) /\ Safe(w) /\ FileOK(w.file, Latest(w)) /\ Alloc(w)
    /\ Clean(w) => Counts(w, fl, i)
    /\ (\E k : m.bad = {k}) => Counts(w, fl, i) \/ (~Clean(w) /\ Counts(w, fl + 1, i))
    /\ ~Clean(w) /\ Ending(m) /\ w.n <= MaxTransfers + 1 => Cardinality(Stray(Lasting(w))) <= fl + 1

\* What is lost for good is among what is loose.
LEMMA StrayBound == ASSUME NEW m, Safe(m) PROVE Stray(Lasting(m)) \subseteq Loose(m)
BY GrowsOwned DEF Safe, Stray, Loose

LEMMA SomeLess == ASSUME NEW w, NEW F, NEW i, Cardinality(Lost(w)) <= F, Cardinality(Loose(w)) <= F PROVE Counts(w, F, i)
BY DEF Counts

\* The first failure is met in this byte, before it or after it.
LEMMA HitCases ==
    ASSUME NEW u, NEW v, Run(u, v), u.n \in Nat, u.bad \subseteq Nat
    PROVE  /\ Clean(v) <=> Clean(u) /\ ~Hit(u, v)
           /\ \A k : u.bad = {k} /\ ~Clean(u) => ~Hit(u, v)
<1>1. v.n \in Nat /\ u.n <= v.n /\ v.bad = u.bad
  BY DEF Run, Course
<1>2. Clean(v) <=> Clean(u) /\ ~Hit(u, v)
  BY <1>1 DEF Clean, Hit
<1>3. \A k : u.bad = {k} /\ ~Clean(u) => ~Hit(u, v)
  BY <1>1 DEF Clean, Hit
<1> QED
  BY <1>2, <1>3

\* Once the power is gone the card changes no more.
LEMMA Frozen ==
    ASSUME NEW u, NEW v, Run(u, v), u.n \in Nat, ~Clean(u), Ending(u), v.n <= MaxTransfers + 1
    PROVE  Lasting(v) = Lasting(u)
<1>1. v.n \in Nat /\ u.n <= v.n /\ ((\A k \in u.n .. v.n - 1 : k \in u.bad \ u.took) => Lasting(v) = Lasting(u))
  BY DEF Run, Course
<1>2. PICK k \in Nat : u.bad = k .. MaxTransfers /\ (u.took = {} \/ k = MaxTransfers)
  BY DEF Ending
<1>3. MaxTransfers \in Nat
  BY LogAssumption
<1>4. k < u.n
  BY <1>2, <1>3 DEF Clean
<1>5. \A j \in u.n .. v.n - 1 : j \in u.bad \ u.took
  BY <1>1, <1>2, <1>3, <1>4
<1> QED
  BY <1>1, <1>5

\* One byte more
LEMMA PrintedOne ==
    ASSUME NEW m, Safe(m), m.n \in Nat, m.bad \subseteq Nat, NEW fl \in Nat, NEW i \in Nat, i < LineLength,
           NEW w, Printed(m, fl, i, w), NEW byte, NEW v, v = Write([w EXCEPT !.ok = TRUE], byte, 1)
    PROVE  Printed(m, fl, i + 1, v)
<1>1. Run(m, w) /\ Safe(w) /\ FileOK(w.file, Latest(w)) /\ Alloc(w) /\ Mach(w) /\ Shape(w) /\ w.n \in Nat /\ w.bad = m.bad /\ w.took = m.took
  BY DEF Printed, Safe, Mach, Run
<1>2. PICK u : u = [w EXCEPT !.ok = TRUE]
  OBVIOUS
<1>3. Same(w, u) /\ u.ok /\ u.file = w.file /\ u.alloc = w.alloc
  BY <1>1, <1>2 DEF Same, Shape
<1>4. Run(w, u) /\ Safe(u) /\ Latest(u) = Latest(w) /\ Lasting(u) = Lasting(w)
  BY <1>1, <1>3, SameRuns
<1>5. FileOK(u.file, Latest(u)) /\ Alloc(u) /\ Lost(u) = Lost(w) /\ Loose(u) = Loose(w) /\ u.n = w.n /\ u.bad = w.bad /\ u.took = w.took
  BY <1>1, <1>3, <1>4 DEF Alloc, Lost, Loose, Same
<1>6. OneByte(u, v)
  BY <1>2, <1>3, <1>4, <1>5, WriteRuns
<1>7. Run(u, v) /\ Safe(v) /\ Alloc(v) /\ FileOK(v.file, Latest(v))
  BY <1>6 DEF OneByte
<1>8. Run(m, u) /\ Run(m, v)
  BY <1>1, <1>4, <1>7, RunTwice
<1>9. \A F : Counts(u, F, i) <=> Counts(w, F, i)
  BY <1>3, <1>5 DEF Counts
<1>10. /\ Clean(v) <=> Clean(w) /\ ~Hit(u, v)
       /\ \A k : m.bad = {k} /\ ~Clean(w) => ~Hit(u, v)
  <2>1. Clean(u) <=> Clean(w)
    BY <1>5 DEF Clean
  <2>2. u.bad = m.bad /\ u.n \in Nat /\ u.bad \subseteq Nat
    BY <1>1, <1>5
  <2>3. Clean(v) <=> Clean(u) /\ ~Hit(u, v)
    BY <1>7, <2>2, HitCases
  <2>4. \A k : u.bad = {k} /\ ~Clean(u) => ~Hit(u, v)
    BY <1>7, <2>2, HitCases
  <2> QED
    BY <2>1, <2>2, <2>3, <2>4
<1>11. \A F \in Nat : Counts(w, F, i) => /\ ~Hit(u, v) => Counts(v, F, i + 1)
                                         /\ Cardinality(Lost(v)) <= F + 1 /\ Cardinality(Loose(v)) <= F + 1
  BY <1>5, <1>6, <1>9, ByteCosts
<1>12. Clean(v) => Counts(v, fl, i + 1)
  BY <1>10, <1>11 DEF Printed
<1>13. ASSUME NEW k, m.bad = {k} PROVE Counts(v, fl, i + 1) \/ (~Clean(v) /\ Counts(v, fl + 1, i + 1))
  <2>1. CASE Clean(w)
    <3>1. Counts(w, fl, i)
      BY <2>1 DEF Printed
    <3>2. CASE Hit(u, v)
      <4>1. Cardinality(Lost(v)) <= fl + 1 /\ Cardinality(Loose(v)) <= fl + 1
        BY <1>11, <3>1
      <4> QED
        BY <1>10, <3>2, <4>1, SomeLess
    <3>3. CASE ~Hit(u, v)
      BY <1>11, <3>1, <3>3
    <3> QED
      BY <3>2, <3>3
  <2>2. CASE ~Clean(w)
    <3>1. Counts(w, fl, i) \/ Counts(w, fl + 1, i)
      BY <1>13 DEF Printed
    <3>2. ~Hit(u, v) /\ ~Clean(v)
      BY <1>10, <1>13, <2>2
    <3>3. fl + 1 \in Nat
      OBVIOUS
    <3> QED
      BY <1>11, <3>1, <3>2, <3>3
  <2> QED
    BY <2>1, <2>2
<1>14. ASSUME ~Clean(v), Ending(m), v.n <= MaxTransfers + 1 PROVE Cardinality(Stray(Lasting(v))) <= fl + 1
  <2>1. v.n \in Nat /\ u.n <= v.n
    BY <1>7 DEF Run, Course
  <2>2. Ending(u) /\ u.n \in Nat /\ u.bad \subseteq Nat
    BY <1>1, <1>5, <1>14 DEF Ending
  <2>3. CASE Clean(w)
    <3>1. Counts(w, fl, i)
      BY <2>3 DEF Printed
    <3>2. Cardinality(Loose(v)) <= fl + 1
      BY <1>11, <3>1
    <3>3. Stray(Lasting(v)) \subseteq Loose(v)
      BY <1>7, StrayBound
    <3>4. Cardinality(Stray(Lasting(v))) \in Nat /\ Cardinality(Loose(v)) \in Nat /\ Cardinality(Stray(Lasting(v))) <= Cardinality(Loose(v))
      BY <3>3, InClusters, Few
    <3> QED
      BY <3>2, <3>4
  <2>4. CASE ~Clean(w)
    <3>1. ~Clean(u)
      BY <1>5, <2>4 DEF Clean
    <3>2. Lasting(v) = Lasting(w)
      BY <1>4, <1>7, <1>14, <2>2, <3>1, Frozen
    <3>3. w.n <= MaxTransfers + 1
      BY <1>1, <1>5, <1>14, <2>1, LogAssumption
    <3> QED
      BY <1>14, <2>4, <3>2, <3>3 DEF Printed
  <2> QED
    BY <2>3, <2>4
<1> QED
  BY <1>7, <1>8, <1>12, <1>13, <1>14 DEF Printed

ByteOn(w) == Write([w EXCEPT !.ok = TRUE], line, 1)

\* The line: PrintLine keeps the card sound and loses one cluster at most.
LEMMA LinePrinted ==
    ASSUME NEW m, Safe(m), m.n \in Nat, m.bad \subseteq Nat, FileOK(m.file, Latest(m)), Alloc(m), Clean(m), NEW fl \in Nat,
           Cardinality(Lost(m)) <= fl, Cardinality(Loose(m)) <= fl,
           NEW w, w = PrintLine(m)
    PROVE  Printed(m, fl, LineLength, w)
<1> DEFINE K == LineLength
           Loop(k, f) == f = [i \in 0 .. k |-> IF i = 0 THEN m ELSE ByteOn(f[i - 1])]
           Loops == {k \in Nat : \E f : Loop(k, f)}
           print[i \in 0 .. K] == IF i = 0 THEN m ELSE ByteOn(print[i - 1])
           Good == {i \in Nat : i <= K => Printed(m, fl, i, print[i])}
<1>0. K \in Nat
  BY LogAssumption
<1>1. w = print[K]
  BY DEF PrintLine, ByteOn
<1>a. 0 \in Loops
  <2>1. PICK f : f = [i \in 0 .. 0 |-> m]
    OBVIOUS
  <2>2. Loop(0, f)
    BY <2>1
  <2> QED
    BY <2>2
<1>b. ASSUME NEW k \in Nat, k \in Loops PROVE k + 1 \in Loops
  <2>1. PICK f : Loop(k, f)
    BY <1>b
  <2>2. PICK h : h = [i \in 0 .. k + 1 |-> IF i = k + 1 THEN ByteOn(f[k]) ELSE f[i]]
    OBVIOUS
  <2>3. \A i \in 0 .. k + 1 : h[i] = IF i = 0 THEN m ELSE ByteOn(h[i - 1])
    BY <2>1, <2>2
  <2>4. Loop(k + 1, h)
    BY <2>2, <2>3
  <2> QED
    BY <2>4
<1>c. K \in Loops
  <2> HIDE DEF Loops
  <2> QED
    BY <1>0, <1>a, <1>b, Every
<1>2. Loop(K, print)
  BY <1>c
<1> HIDE DEF print
<1>3. Printed(m, fl, 0, m)
  <2>1. Counts(m, fl, 0)
    BY SomeLess
  <2> QED
    <3>1. Run(m, m)
      BY RunSelf
    <3> QED
      BY <2>1, <3>1 DEF Printed
<1>4. 0 \in Good
  BY <1>0, <1>2, <1>3
<1>5. ASSUME NEW i \in Nat, i \in Good PROVE i + 1 \in Good
  <2>1. ASSUME i + 1 <= K PROVE Printed(m, fl, i + 1, print[i + 1])
    <3>1. i + 1 \in 0 .. K /\ i + 1 # 0 /\ (i + 1) - 1 = i /\ i <= K /\ i < LineLength
      BY <1>0, <2>1
    <3>2. print[i + 1] = Write([print[i] EXCEPT !.ok = TRUE], line, 1)
      BY <1>2, <3>1 DEF ByteOn
    <3>3. Printed(m, fl, i, print[i])
      BY <1>5, <3>1
    <3> QED
      BY <3>1, <3>2, <3>3, PrintedOne
  <2> QED
    BY <2>1
<1> HIDE DEF Good
<1>6. K \in Good
  BY <1>0, <1>4, <1>5, Every
<1> QED
  BY <1>0, <1>1, <1>6 DEF Good

-----------------------------------------------------------------------------
(* The search through the root directory *)
\* The object of the root directory at position p
RootAt(p) == [Root EXCEPT !.pos = p]

RootOK(f, p) ==
    /\ f.pos = p /\ f.size = RootBlocks * EntriesPerBlock /\ f.dir = TRUE /\ f.open = TRUE /\ f.block = NoBlock /\ IsRoot(f)
RootIs(f, p) ==
    f = [open |-> TRUE, dir |-> TRUE, block |-> NoBlock, index |-> 0, first |-> 0, size |-> RootBlocks * EntriesPerBlock,
         cur |-> 0, pos |-> p, dirty |-> FALSE, write |-> FALSE, append |-> FALSE]

LEMMA RootIsAt == ASSUME NEW p, NEW f, f = RootAt(p) PROVE RootIs(f, p)
<1>1. PICK r : r = RootBlocks * EntriesPerBlock
  OBVIOUS
<1> QED
  BY <1>1 DEF RootAt, Root, Closed, RootIs

LEMMA RootFacts == ASSUME NEW p PROVE RootOK(RootAt(p), p)
<1>1. PICK f : f = RootAt(p)
  OBVIOUS
<1>2. RootIs(f, p)
  BY <1>1, RootIsAt
<1>3. RootOK(f, p)
  <2>1. PICK r : r = RootBlocks * EntriesPerBlock
    OBVIOUS
  <2> QED
    BY <1>2, <2>1 DEF RootOK, IsRoot, RootIs
<1> QED
  BY <1>1, <1>3

LEMMA RootMoves == ASSUME NEW p, NEW q, NEW g, g = [RootAt(p) EXCEPT !.pos = q] PROVE g = RootAt(q)
<1>1. PICK f, h : f = RootAt(p) /\ h = RootAt(q)
  OBVIOUS
<1>2. RootIs(f, p) /\ RootIs(h, q)
  BY <1>1, RootIsAt
<1>3. PICK r : r = RootBlocks * EntriesPerBlock
  OBVIOUS
<1>5. g = [f EXCEPT !.pos = q]
  BY <1>1
<1>4. g = h
  BY <1>2, <1>3, <1>5 DEF RootIs
<1> QED
  BY <1>1, <1>4

LEMMA RootRewound == ASSUME NEW g, g = [Root EXCEPT !.pos = 0, !.cur = 0] PROVE g = RootAt(0)
<1>1. PICK r : r = RootBlocks * EntriesPerBlock
  OBVIOUS
<1>2. PICK z : z = 0
  OBVIOUS
<1>3. g = [Root EXCEPT !.pos = z, !.cur = z]
  BY <1>2
<1>4. Root.cur = z
  BY <1>1, <1>2 DEF Root, Closed
<1>5. g = [Root EXCEPT !.pos = z]
  <2>1. PICK f : f = Root
    OBVIOUS
  <2>2. f = [open |-> f.open, dir |-> f.dir, block |-> f.block, index |-> f.index, first |-> f.first,
             size |-> f.size, cur |-> f.cur, pos |-> f.pos, dirty |-> f.dirty, write |-> f.write, append |-> f.append]
    BY <1>1, <2>1 DEF Root, Closed
  <2>3. g = [f EXCEPT !.pos = z, !.cur = z] /\ f.cur = z
    BY <1>3, <1>4, <2>1
  <2>4. g = [f EXCEPT !.pos = z]
    BY <2>2, <2>3
  <2> QED
    BY <2>1, <2>4
<1> QED
  BY <1>2, <1>5 DEF RootAt

LEMMA RootSize == Root.size = RootBlocks * EntriesPerBlock
<1>1. PICK r : r = RootBlocks * EntriesPerBlock
  OBVIOUS
<1> QED
  BY <1>1 DEF Root, Closed

\* The search only reads: blocks move, the file and the directory stay.
Asks(m, w) ==
    /\ Run(m, w) /\ Safe(w) /\ Shape(w) /\ w.alloc = m.alloc /\ w.dir = m.dir /\ Used(Latest(w)) = Used(Latest(m)) /\ w.ok \in BOOLEAN

LEMMA AsksTwice == ASSUME NEW m, NEW w, NEW v, Safe(m), Asks(m, w), Asks(w, v) PROVE Asks(m, v)
<1>1. Run(m, v)
  BY RunTwice DEF Asks
<1> QED
  BY <1>1 DEF Asks

LEMMA AsksMoves == ASSUME NEW m, NEW w, Safe(m), Moves(m, w) PROVE Asks(m, w) /\ Latest(w) = Latest(m) /\ w.file = m.file
<1>1. Run(m, w) /\ Latest(w) = Latest(m)
  BY MovesRun
<1>2. Mach(w) /\ Others(m, w)
  BY DEF Moves
<1> QED
  BY <1>1, <1>2 DEF Asks, Run, Mach, Others

LEMMA AsksSame == ASSUME NEW m, NEW w, Safe(m), Same(m, w), w.alloc = m.alloc, w.dir = m.dir PROVE Asks(m, w) /\ Latest(w) = Latest(m)
<1>1. Run(m, w) /\ Safe(w) /\ Latest(w) = Latest(m)
  BY SameRuns
<1> QED
  BY <1>1 DEF Asks, Same

\* The first match is a match.
LEMMA LeastIn ==
    ASSUME NEW S \in SUBSET Nat, S # {}
    PROVE  Least(S) \in S
BY LeastOf DEF Least

\* A slot of the directory; the search after i blocks
Slot(b, k) == b \in DirBlocks /\ k \in 1 .. EntriesPerBlock /\ <<b, k>> \in Places
Searching(m, name, i, s) ==
    /\ s = [m |-> s.m, done |-> s.done, found |-> s.found, at |-> s.at, empty |-> s.empty]
    /\ Asks(m, s.m) /\ Latest(s.m) = Latest(m) /\ s.done \in BOOLEAN /\ s.found \in BOOLEAN
    /\ \E j \in 0 .. i : s.m.file = RootAt(EntriesPerBlock * j)
    /\ s.found => /\ s.done /\ s.m.ok /\ s.at[1] = s.m.cache.block /\ Slot(s.at[1], s.at[2])
                  /\ Latest(m).ent[<<s.at[1], s.at[2]>>].name = name
    /\ s.empty[2] # 0 => Slot(s.empty[1], s.empty[2]) /\ Latest(m).ent[<<s.empty[1], s.empty[2]>>].name \in {"free", "deleted"}

\* The next block of the directory is in the cache.
RootRead(m, j, w) ==
    /\ Asks(m, w) /\ Latest(w) = Latest(m)
    /\ w.file = RootAt(EntriesPerBlock * (IF w.ok THEN j + 1 ELSE j))
    /\ w.ok => w.cache.block \in DirBlocks

LEMMA RootReads ==
    ASSUME NEW m, Safe(m), m.ok, NEW j \in Nat, m.file = RootAt(EntriesPerBlock * j), m.file.pos < m.file.size,
           NEW w, w = ReadDirBlock(m, EntriesPerBlock)
    PROVE  RootRead(m, j, w)
<1>1. PICK e \in Nat \ {0}, r \in Nat \ {0} : e = EntriesPerBlock /\ r = RootBlocks
  BY FatAssumption
<1>2. m.file.pos = e * j /\ m.file.size = r * e /\ IsRoot(m.file)
  <2>1. RootOK(m.file, EntriesPerBlock * j)
    BY RootFacts
  <2> QED
    BY <1>1, <2>1 DEF RootOK
<1>3. j < r
  <2>1. e * j < r * e
    BY <1>2
  <2> QED
    BY <1>1, <2>1
<1>4. (e * j) \div e = j
  <2>1. PICK x \in Nat : x = e * j
    OBVIOUS
  <2>2. PICK q \in Int, t \in 0 .. e - 1 : x = e * q + t /\ q = x \div e
    <3>1. x \div e \in Int /\ x % e \in 0 .. e - 1 /\ x = e * (x \div e) + (x % e)
      BY DivMod
    <3> QED
      BY <3>1
  <2>3. e * (j - q) = t
    BY <2>1, <2>2
  <2>4. PICK z \in Int : z = j - q
    BY <2>2
  <2>5. z = 0
    <3>1. CASE z >= 1
      <4>1. e * z >= e
        BY <3>1
      <4> QED
        BY <2>3, <2>4, <4>1
    <3>2. CASE z <= -1
      <4>1. e * z <= -e
        BY <3>2
      <4> QED
        BY <2>3, <2>4, <4>1
    <3> QED
      BY <3>1, <3>2
  <2> QED
    BY <2>1, <2>2, <2>4, <2>5
<1>5. BlockAt(m.file) = DirBlock(j + 1)
  BY <1>1, <1>2, <1>4 DEF BlockAt
<1>6. DirBlock(j + 1) \in DirBlocks /\ DirBlock(j + 1) \notin FatBlocks
  <2>1. j + 1 \in 1 .. RootBlocks
    BY <1>1, <1>3
  <2> QED
    BY <2>1, Blocks
<1>7. PICK y : y = CacheFetch(m, DirBlock(j + 1), "read", FALSE)
  OBVIOUS
<1>8. Fetched(m, DirBlock(j + 1), y)
  BY <1>6, <1>7, FetchMoves DEF Safe
<1>9. Asks(m, y) /\ Latest(y) = Latest(m) /\ y.file = m.file /\ (y.ok => y.cache.block = DirBlock(j + 1)) /\ Safe(y) /\ Mach(y)
  BY <1>8, AsksMoves DEF Fetched, Asks, Safe
<1>10. w = Moved(y, e)
  BY <1>1, <1>2, <1>5, <1>7 DEF ReadDirBlock, ReadCluster, EntryBlock
<1>11. CASE ~y.ok
  BY <1>1, <1>9, <1>10, <1>11 DEF Moved, RootRead
<1>12. CASE y.ok
  <2>1. PICK f : f = [y.file EXCEPT !.pos = y.file.pos + e]
    OBVIOUS
  <2>2. w = [y EXCEPT !.file = f]
    BY <1>10, <1>12, <2>1 DEF Moved
  <2>3. FileIs(y, f, w)
    BY <1>9, <2>2, SetFile
  <2>4. f = RootAt(e * (j + 1))
    <3>1. y.file.pos + e = e * (j + 1)
      BY <1>2, <1>9
    <3> QED
      BY <1>1, <1>9, <2>1, <3>1, RootMoves
  <2>5. Same(y, w) /\ w.file = f /\ w.alloc = y.alloc /\ w.ok
    BY <1>12, <2>3 DEF FileIs
  <2>6. w.dir = y.dir /\ w.cache = y.cache
    BY <1>9, <2>2, <2>5 DEF Mach, Shape, Same
  <2>7. Asks(y, w) /\ Latest(w) = Latest(y)
    BY <1>9, <2>5, <2>6, AsksSame
  <2>8. Asks(m, w)
    BY <1>9, <2>7, AsksTwice
  <2> QED
    BY <1>1, <1>6, <1>9, <1>12, <2>4, <2>5, <2>6, <2>7, <2>8 DEF RootRead
<1> QED
  BY <1>11, <1>12

\* What one block tells.
Told(m, name, s, w) ==
    /\ w = [m |-> w.m, done |-> w.done, found |-> w.found, at |-> w.at, empty |-> w.empty]
    /\ w.m = m /\ w.done \in BOOLEAN /\ w.found \in BOOLEAN
    /\ w.found => /\ w.done /\ w.at[1] = m.cache.block /\ Slot(w.at[1], w.at[2])
                  /\ Latest(m).ent[<<w.at[1], w.at[2]>>].name = name
    /\ \/ w.empty = s.empty
       \/ Slot(w.empty[1], w.empty[2]) /\ Latest(m).ent[<<w.empty[1], w.empty[2]>>].name \in {"free", "deleted"}

LEMMA SearchedTells ==
    ASSUME NEW m, Mach(m), m.ok, m.cache.block \in DirBlocks, NEW s, NEW name, NEW w, w = Searched(s, m, name)
    PROVE  Told(m, name, s, w)
<1> DEFINE d == m.cache.data
           B == m.cache.block
           stop == {k \in 1 .. EntriesPerBlock : d[k].name \in {name, "free"}}
           empty == {k \in 1 .. EntriesPerBlock : d[k].name \in {"free", "deleted"} /\ \A l \in stop : k <= l}
<1>1. \A k \in 1 .. EntriesPerBlock : d[k] = Latest(m).ent[<<B, k>>] /\ <<B, k>> \in Places /\ Slot(B, k)
  <2>1. TAKE k \in 1 .. EntriesPerBlock
  <2>2. d[k] = Latest(m).ent[<<B, k>>] /\ <<B, k>> \in Places
    BY CachedEntry
  <2> QED
    BY <2>2 DEF Slot
<1>2. stop \in SUBSET Nat /\ empty \in SUBSET Nat
  OBVIOUS
<1>3. PICK done \in BOOLEAN, found \in BOOLEAN :
        /\ done <=> stop # {}
        /\ found <=> stop # {} /\ d[Least(stop)].name = name
  OBVIOUS
<1>4. PICK spot, emp : /\ spot = IF found THEN <<B, Least(stop)>> ELSE s.at
                     /\ emp = IF s.empty[2] = 0 /\ empty # {} THEN <<B, Least(empty)>> ELSE s.empty
  OBVIOUS
<1>5. w = [m |-> m, done |-> stop # {}, found |-> (stop # {} /\ d[Least(stop)].name = name), at |-> spot, empty |-> emp]
  BY <1>3, <1>4 DEF Searched
<1>6. found => Slot(B, Least(stop)) /\ Latest(m).ent[<<B, Least(stop)>>].name = name /\ done
  <2>1. ASSUME found PROVE Least(stop) \in stop
    BY <1>2, <1>3, <2>1, LeastIn
  <2> QED
    BY <1>1, <1>3, <2>1
<1>7. empty # {} => Slot(B, Least(empty)) /\ Latest(m).ent[<<B, Least(empty)>>].name \in {"free", "deleted"}
  <2>1. ASSUME empty # {} PROVE Least(empty) \in empty
    BY <1>2, <2>1, LeastIn
  <2>2. ASSUME empty # {} PROVE Least(empty) \in 1 .. EntriesPerBlock /\ d[Least(empty)].name \in {"free", "deleted"}
    BY <2>1, <2>2
  <2> QED
    BY <1>1, <2>2
<1>8. (stop # {}) = done /\ (stop # {} /\ d[Least(stop)].name = name) = found
  BY <1>3
<1> HIDE DEF stop, empty, d, B
<1>9. w = [m |-> m, done |-> done, found |-> found, at |-> spot, empty |-> emp]
  BY <1>5, <1>8
<1>10. /\ w = [m |-> w.m, done |-> w.done, found |-> w.found, at |-> w.at, empty |-> w.empty]
       /\ w.m = m /\ w.done = done /\ w.found = found /\ w.at = spot /\ w.empty = emp
  BY <1>9
<1>11. found => spot[1] = B /\ spot[2] = Least(stop)
  BY <1>4
<1>12. emp = s.empty \/ (empty # {} /\ emp[1] = B /\ emp[2] = Least(empty))
  BY <1>4
<1> QED
  BY <1>6, <1>7, <1>10, <1>11, <1>12 DEF Told, B

\* One block more
LEMMA SearchedOne ==
    ASSUME NEW m, Safe(m), NEW name, NEW i \in Nat, NEW s, Searching(m, name, i, s), NEW w, w = SearchOn(s, name)
    PROVE  Searching(m, name, i + 1, w)
<1>1. /\ s = [m |-> s.m, done |-> s.done, found |-> s.found, at |-> s.at, empty |-> s.empty]
      /\ Asks(m, s.m) /\ Latest(s.m) = Latest(m) /\ s.done \in BOOLEAN /\ s.found \in BOOLEAN
  BY DEF Searching
<1>2. PICK j \in 0 .. i : s.m.file = RootAt(EntriesPerBlock * j)
  BY DEF Searching
<1>3. CASE s.done \/ ~s.m.ok \/ s.m.file.pos >= s.m.file.size
  <2>1. w = s
    BY <1>3 DEF SearchOn
  <2>2. \E x \in 0 .. i + 1 : s.m.file = RootAt(EntriesPerBlock * x)
    BY <1>2
  <2> QED
    BY <2>1, <2>2 DEF Searching
<1>4. CASE ~(s.done \/ ~s.m.ok \/ s.m.file.pos >= s.m.file.size)
  <2>0. s.m.file.pos < s.m.file.size
    <3>1. RootOK(s.m.file, EntriesPerBlock * j)
      BY <1>2, RootFacts
    <3>2. s.m.file.pos \in Int /\ s.m.file.size \in Int
      BY <3>1, FatAssumption DEF RootOK
    <3> QED
      BY <1>4, <3>2
  <2>1. PICK x : x = ReadDirBlock(s.m, EntriesPerBlock)
    OBVIOUS
  <2>2. w = Searched(s, x, name)
    BY <1>4, <2>1 DEF SearchOn
  <2>3. RootRead(s.m, j, x)
    BY <1>1, <1>2, <1>4, <2>0, <2>1, RootReads DEF Asks
  <2>4. Asks(m, x) /\ Latest(x) = Latest(m)
    BY <1>1, <2>3, AsksTwice DEF RootRead
  <2>5. \E z \in 0 .. i + 1 : x.file = RootAt(EntriesPerBlock * z)
    BY <1>2, <2>3 DEF RootRead
  <2>6. CASE ~x.ok
    <3>1. w = [s EXCEPT !.m = x]
      BY <2>2, <2>6 DEF Searched
    <3>2. /\ w = [m |-> w.m, done |-> w.done, found |-> w.found, at |-> w.at, empty |-> w.empty]
          /\ w.m = x /\ w.done = s.done /\ w.found = s.found /\ w.at = s.at /\ w.empty = s.empty
      BY <1>1, <3>1
    <3>3. ~w.found
      BY <1>4, <3>2 DEF Searching
    <3>4. w.empty[2] # 0 => Slot(w.empty[1], w.empty[2]) /\ Latest(m).ent[<<w.empty[1], w.empty[2]>>].name \in {"free", "deleted"}
      BY <3>2 DEF Searching
    <3>5. w.done \in BOOLEAN /\ w.found \in BOOLEAN
      BY <1>1, <3>2
    <3> QED
      BY <2>4, <2>5, <3>2, <3>3, <3>4, <3>5 DEF Searching
  <2>7. CASE x.ok
    <3>1. Told(x, name, s, w)
      BY <2>2, <2>3, <2>4, <2>7, SearchedTells DEF RootRead, Asks, Safe
    <3>2. w.empty[2] # 0 => Slot(w.empty[1], w.empty[2]) /\ Latest(m).ent[<<w.empty[1], w.empty[2]>>].name \in {"free", "deleted"}
      BY <2>4, <3>1 DEF Told, Searching
    <3>3. w.m = x /\ w.done \in BOOLEAN /\ w.found \in BOOLEAN
      BY <3>1 DEF Told
    <3>4. w.found => /\ w.done /\ w.m.ok /\ w.at[1] = w.m.cache.block /\ Slot(w.at[1], w.at[2])
                     /\ Latest(m).ent[<<w.at[1], w.at[2]>>].name = name
      BY <2>4, <2>7, <3>1 DEF Told
    <3>5. w = [m |-> w.m, done |-> w.done, found |-> w.found, at |-> w.at, empty |-> w.empty]
      BY <3>1 DEF Told
    <3> QED
      BY <2>4, <2>5, <3>2, <3>3, <3>4, <3>5 DEF Searching
  <2> QED
    BY <2>6, <2>7
<1> QED
  BY <1>3, <1>4

LEMMA Rewound ==
    ASSUME NEW m, Safe(m), m.file = Root, NEW w, w = Rewind(m)
    PROVE  Asks(m, w) /\ Latest(w) = Latest(m) /\ w.file = RootAt(0)
<1>1. PICK f : f = [Root EXCEPT !.pos = 0, !.cur = 0]
  OBVIOUS
<1>2. w = [m EXCEPT !.file = f]
  BY <1>1 DEF Rewind
<1>3. FileIs(m, f, w)
  BY <1>2, SetFile DEF Safe
<1>4. Same(m, w) /\ w.file = f /\ w.alloc = m.alloc
  BY <1>3 DEF FileIs
<1>5. w.dir = m.dir
  BY <1>2 DEF Safe, Mach, Shape
<1>6. f = RootAt(0)
  BY <1>1, RootRewound
<1> QED
  BY <1>4, <1>5, <1>6, AsksSame

LEMMA SearchStarts ==
    ASSUME NEW m, Safe(m), NEW name, NEW v, Asks(m, v), Latest(v) = Latest(m), v.file = RootAt(0),
           NEW s, s = [m |-> v, done |-> FALSE, found |-> FALSE, at |-> <<NoBlock, 0>>, empty |-> <<NoBlock, 0>>]
    PROVE  Searching(m, name, 0, s)
<1>1. PICK e \in Nat : e = EntriesPerBlock
  BY FatAssumption
<1>2. e * 0 = 0
  OBVIOUS
<1>3. \E j \in 0 .. 0 : v.file = RootAt(EntriesPerBlock * j)
  BY <1>1, <1>2
<1>4. /\ s = [m |-> s.m, done |-> s.done, found |-> s.found, at |-> s.at, empty |-> s.empty]
      /\ s.m = v /\ s.done = FALSE /\ s.found = FALSE /\ s.empty[2] = 0
  OBVIOUS
<1> QED
  BY <1>3, <1>4 DEF Searching

\* findName: the entry, or a slot that is free, or neither.
LEMMA NameFound ==
    ASSUME NEW m, Safe(m), m.file = Root, NEW name, NEW s, s = FindName(m, name)
    PROVE  \E i \in Nat : Searching(m, name, i, s)
<1> DEFINE K == m.file.size \div EntriesPerBlock
           a == [m |-> Rewind(m), done |-> FALSE, found |-> FALSE, at |-> <<NoBlock, 0>>, empty |-> <<NoBlock, 0>>]
           Loop(k, f) == f = [i \in 0 .. k |-> IF i = 0 THEN a ELSE SearchOn(f[i - 1], name)]
           Loops == {k \in Nat : \E f : Loop(k, f)}
           look[i \in 0 .. K] == IF i = 0 THEN a ELSE SearchOn(look[i - 1], name)
           Good == {i \in Nat : i <= K => Searching(m, name, i, look[i])}
<1>0. K \in Nat
  <2>1. PICK e \in Nat \ {0}, z \in Nat : e = EntriesPerBlock /\ z = m.file.size
    <3>1. m.file.size = RootBlocks * EntriesPerBlock
      BY RootSize
    <3> QED
      BY <3>1, FatAssumption
  <2>2. z \div e \in Int /\ z % e \in 0 .. e - 1 /\ z = e * (z \div e) + (z % e)
    BY DivMod
  <2>3. PICK q \in Int, r \in 0 .. e - 1 : q = z \div e /\ z = e * q + r
    BY <2>2
  <2>4. q >= 0
    <3>1. ASSUME q <= -1 PROVE FALSE
      <4>1. e * q <= -e
        BY <3>1
      <4> QED
        BY <2>3, <4>1
    <3> QED
      BY <3>1
  <2> QED
    BY <2>1, <2>3, <2>4
<1>1. s = look[K]
  BY DEF FindName
<1> HIDE DEF K
<1>a. 0 \in Loops
  <2>1. PICK f : f = [i \in 0 .. 0 |-> a]
    OBVIOUS
  <2>2. Loop(0, f)
    BY <2>1
  <2> QED
    BY <2>2
<1>b. ASSUME NEW k \in Nat, k \in Loops PROVE k + 1 \in Loops
  <2>1. PICK f : Loop(k, f)
    BY <1>b
  <2>2. PICK h : h = [i \in 0 .. k + 1 |-> IF i = k + 1 THEN SearchOn(f[k], name) ELSE f[i]]
    OBVIOUS
  <2>3. \A i \in 0 .. k + 1 : h[i] = IF i = 0 THEN a ELSE SearchOn(h[i - 1], name)
    <3> HIDE DEF a
    <3> QED
      BY <2>1, <2>2
  <2>4. Loop(k + 1, h)
    BY <2>2, <2>3
  <2> QED
    BY <2>4
<1>c. K \in Loops
  <2> HIDE DEF Loops
  <2> QED
    BY <1>0, <1>a, <1>b, Every
<1>2. Loop(K, look)
  BY <1>c
<1>3. Searching(m, name, 0, a)
  BY Rewound, SearchStarts
<1> HIDE DEF look, a
<1>4. 0 \in Good
  BY <1>0, <1>2, <1>3
<1>5. ASSUME NEW i \in Nat, i \in Good PROVE i + 1 \in Good
  <2>1. ASSUME i + 1 <= K PROVE Searching(m, name, i + 1, look[i + 1])
    <3>1. i + 1 \in 0 .. K /\ i + 1 # 0 /\ (i + 1) - 1 = i /\ i <= K
      BY <1>0, <2>1
    <3>2. look[i + 1] = SearchOn(look[i], name)
      BY <1>2, <3>1
    <3>3. Searching(m, name, i, look[i])
      BY <1>5, <3>1
    <3> QED
      BY <3>2, <3>3, SearchedOne
  <2> QED
    BY <2>1
<1> HIDE DEF Good
<1>6. K \in Good
  BY <1>0, <1>4, <1>5, Every
<1>7. Searching(m, name, K, s)
  BY <1>0, <1>1, <1>6 DEF Good
<1> QED
  BY <1>0, <1>7

-----------------------------------------------------------------------------
(* An entry of the directory *)
EntrySets(m, k, e, w) ==
    /\ Run(m, w) /\ Safe(w) /\ Others(m, w) /\ w.ok = m.ok /\ w.ok /\ w.val = m.val /\ Lasting(w) = Lasting(m)
    /\ w.cache.block = m.cache.block
    /\ Latest(w).fat = Latest(m).fat /\ <<m.cache.block, k>> \in Files(Latest(w)) /\ Latest(w).ent[<<m.cache.block, k>>] = e
    /\ Reach(Latest(m), e.first) \subseteq Owned(Latest(w))

\* A new entry in a free slot keeps the card sound.
LEMMA EntrySet ==
    ASSUME NEW m, Safe(m), m.ok, m.cache.dirty, NEW k, Slot(m.cache.block, k), NEW e, Fits(Latest(m), <<m.cache.block, k>>, e),
           NEW w, w = SetCached(m, k, e)
    PROVE  EntrySets(m, k, e, w)
<1>1. Mach(m) /\ IsDisk(m.disk) /\ IsBlock(m.cache.block, m.cache.data) /\ m.n \in Nat
  BY DEF Safe, Mach, CacheOK
<1>2. PICK b \in DirBlocks : b = m.cache.block
  BY DEF Slot
<1>3. PICK old, new : old = m.cache.data /\ new = [m.cache.data EXCEPT ![k] = e]
  OBVIOUS
<1>4. PICK x0, y0 : x0 = View([m.disk EXCEPT ![b] = old]) /\ y0 = View([m.disk EXCEPT ![b] = new])
  OBVIOUS
<1>5. e \in Entry /\ k \in 1 .. EntriesPerBlock /\ <<b, k>> \in Places
  BY <1>2 DEF Fits, Slot
<1>6. IsBlock(b, new) /\ y0 = [x0 EXCEPT !.ent[<<b, k>>] = e]
  <2>1. IsBlock(b, old)
    BY <1>1, <1>2, <1>3
  <2>2. new = [old EXCEPT ![k] = e]
    BY <1>3
  <2>3. EntryShown(b, k, e, new, x0, y0)
    BY <1>1, <1>4, <1>5, <2>1, <2>2, EntryShows
  <2> QED
    BY <2>3 DEF EntryShown
<1>7. Changed(m, k, e, w)
  BY <1>1, <1>2, <1>3, <1>6, CacheChanged
<1>8. x0 = Latest(m) /\ y0 = Latest(w)
  BY <1>2, <1>3, <1>4, <1>7 DEF Latest, Changed
<1>9. EntryIn(x0, <<b, k>>, e, y0)
  <2>1. IsView(x0) /\ Sound(x0)
    BY <1>1, <1>8, ViewsOf DEF Safe
  <2>2. Fits(x0, <<b, k>>, e)
    BY <1>2, <1>8
  <2> QED
    BY <1>5, <1>6, <2>1, <2>2, EntryFits
<1>10. /\ Sound(Latest(w)) /\ Grows(Latest(m), Latest(w)) /\ Latest(w).fat = Latest(m).fat /\ <<b, k>> \in Files(Latest(w)) /\ Latest(w).ent[<<b, k>>] = e
       /\ Reach(Latest(m), e.first) \subseteq Owned(Latest(w))
  BY <1>8, <1>9 DEF EntryIn
<1>11. Mach(w) /\ Others(m, w) /\ w.val = m.val /\ w.ok = m.ok /\ Lasting(w) = Lasting(m) /\ w.n = m.n /\ w.cache.block = m.cache.block
  BY <1>7 DEF Changed
<1>12. Safe(w)
  <2>1. Grows(Lasting(m), Latest(w))
    BY <1>10, GrowsTwice DEF Safe
  <2> QED
    BY <1>10, <1>11, <2>1 DEF Safe
<1>13. Run(m, w)
  <2>1. Course(m, w)
    BY <1>1, <1>11 DEF Course
  <2>2. Grows(Lasting(m), Lasting(w))
    BY <1>11, GrowsSelf
  <2> QED
    BY <1>10, <1>11, <1>12, <2>1, <2>2 DEF Run, Others
<1> QED
  BY <1>2, <1>10, <1>11, <1>12, <1>13 DEF EntrySets

-----------------------------------------------------------------------------
(* The file is opened *)
\* The entry to open is in the cache.
IsLocated(m, w) ==
    /\ Asks(m, w)
    /\ w.ok => Slot(w.cache.block, w.val) /\ <<w.cache.block, w.val>> \in Files(Latest(w))

LEMMA ValSet ==
    ASSUME NEW m, Safe(m), NEW v, NEW w, w = [m EXCEPT !.val = v]
    PROVE  Asks(m, w) /\ Latest(w) = Latest(m) /\ w.val = v /\ w.ok = m.ok /\ w.cache = m.cache
<1>1. Shape(m) /\ m.ok \in BOOLEAN
  BY DEF Safe, Mach
<1>2. Shape(w) /\ w.disk = m.disk /\ w.cache = m.cache /\ w.n = m.n /\ w.bad = m.bad /\ w.took = m.took /\ w.ok = m.ok
      /\ w.val = v /\ w.alloc = m.alloc /\ w.dir = m.dir
  BY <1>1 DEF Shape
<1>3. Same(m, w)
  BY <1>1, <1>2 DEF Same
<1> QED
  BY <1>2, <1>3, AsksSame

LEMMA SafeViews == ASSUME NEW m, Safe(m) PROVE IsView(Latest(m)) /\ IsView(Lasting(m)) /\ Sound(Latest(m)) /\ Sound(Lasting(m)) /\ Mach(m)
BY ViewsOf DEF Safe

\* An empty entry fits anywhere.
LEMMA NewFits ==
    ASSUME NEW v, IsView(v), NEW p \in Places, v.ent[p].name \in {"free", "deleted"}, NEW name \in Names
    PROVE  Fits(v, p, NoEntry(name)) /\ NoEntry(name).name = name
<1>1. PICK e : e = NoEntry(name)
  OBVIOUS
<1>2. e.name = name /\ e.first = 0 /\ e.size = 0 /\ e \in Entry
  BY <1>1 DEF NoEntry, Entry
<1>3. p \notin Files(v)
  BY FatAssumption DEF Files
<1>4. IsFirst(v, p, e.first) /\ Long(v.fat, e.first, e.size)
  BY <1>2 DEF IsFirst, Long
<1> QED
  BY <1>1, <1>2, <1>3, <1>4 DEF Fits

\* A new entry is written into the slot, whatever fails.
LEMMA CreateRuns ==
    ASSUME NEW m, Safe(m), NEW name \in Names, NEW i, NEW s, Searching(m, name, i, s), s.m.ok, NEW w, w = Create(s, name)
    PROVE  IsLocated(m, w)
<1>1. Asks(m, s.m) /\ Latest(s.m) = Latest(m) /\ Safe(s.m)
  BY DEF Searching, Asks
<1>2. CASE s.empty[2] # 0
  <2>1. PICK b, k : b = s.empty[1] /\ k = s.empty[2]
    OBVIOUS
  <2>2. Slot(b, k) /\ Latest(m).ent[<<b, k>>].name \in {"free", "deleted"}
    BY <1>2, <2>1 DEF Searching
  <2>3. PICK x, y, z : /\ x = CacheFetch(s.m, b, "write", FALSE)
                       /\ y = SetCached(x, k, NoEntry(name))
                       /\ z = CacheSync(y)
    OBVIOUS
  <2>4. w = [z EXCEPT !.val = k]
    BY <1>2, <2>1, <2>3 DEF Create, NewEntry
  <2>5. Fetched(s.m, b, x) /\ (x.ok => x.cache.dirty)
    <3>1. FALSE <=> b \in FatBlocks
      BY <2>2, Blocks DEF Slot
    <3>2. Mach(s.m)
      BY <1>1 DEF Safe
    <3>3. "write" # "reserve" /\ "write" # "read"
      OBVIOUS
    <3> QED
      BY <2>3, <3>1, <3>2, <3>3, FetchMoves
  <2>6. Asks(m, x) /\ Latest(x) = Latest(m) /\ Safe(x) /\ (x.ok => x.cache.block = b)
    <3>1. Asks(s.m, x) /\ Latest(x) = Latest(s.m)
      BY <1>1, <2>5, AsksMoves DEF Fetched
    <3> QED
      BY <1>1, <2>5, <3>1, AsksTwice DEF Fetched, Asks
  <2>7. CASE ~x.ok
    <3>1. z = x
      BY <2>3, <2>7 DEF SetCached, CacheSync
    <3>2. Asks(z, w) /\ w.ok = z.ok
      BY <2>4, <2>6, <3>1, ValSet
    <3>3. Asks(m, w)
      BY <2>6, <3>1, <3>2, AsksTwice
    <3> QED
      BY <2>7, <3>1, <3>2, <3>3 DEF IsLocated
  <2>8. CASE x.ok
    <3>1. Fits(Latest(x), <<b, k>>, NoEntry(name)) /\ NoEntry(name).name = name
      <4>1. IsView(Latest(x)) /\ <<b, k>> \in Places
        BY <2>2, <2>6, SafeViews DEF Slot
      <4> QED
        BY <2>2, <2>6, <4>1, NewFits
    <3>2. EntrySets(x, k, NoEntry(name), y)
      BY <2>2, <2>3, <2>5, <2>6, <2>8, <3>1, EntrySet
    <3>3. Asks(x, y) /\ <<b, k>> \in Files(Latest(y)) /\ y.cache.block = b /\ Safe(y)
      <4>1. Used(Latest(y)) = Used(Latest(x))
        BY <3>2 DEF EntrySets, Used
      <4>2. Mach(y)
        BY <3>2 DEF EntrySets, Safe
      <4> QED
        BY <2>6, <2>8, <3>2, <4>1, <4>2 DEF EntrySets, Asks, Others, Mach
    <3>4. Moves(y, z) /\ z.cache.block = y.cache.block
      BY <2>3, <3>3, SyncMoves DEF Safe
    <3>5. Asks(y, z) /\ Latest(z) = Latest(y) /\ Safe(z)
      BY <3>3, <3>4, AsksMoves DEF Asks
    <3>6. Asks(z, w) /\ Latest(w) = Latest(z) /\ w.val = k /\ w.cache = z.cache
      BY <2>4, <3>5, ValSet
    <3>7. Asks(m, w)
      <4>1. Asks(m, y)
        BY <2>6, <3>3, AsksTwice
      <4>2. Asks(m, z)
        BY <3>5, <4>1, AsksTwice
      <4> QED
        BY <3>6, <4>2, AsksTwice
    <3> QED
      BY <2>2, <3>3, <3>4, <3>5, <3>6, <3>7 DEF IsLocated
  <2> QED
    BY <2>7, <2>8
<1>3. CASE s.empty[2] = 0
  <2>1. IsRoot(s.m.file)
    <3>1. PICK j : s.m.file = RootAt(EntriesPerBlock * j)
      BY DEF Searching
    <3> QED
      BY <3>1, RootFacts DEF RootOK
  <2>2. w = Fail(s.m)
    BY <1>3, <2>1 DEF Create
  <2>3. Same(s.m, w) /\ ~w.ok /\ Others(s.m, w)
    BY <1>1, <2>2, Failing DEF Safe
  <2>4. Asks(s.m, w)
    BY <1>1, <2>3, AsksSame DEF Others
  <2> QED
    BY <1>1, <2>3, <2>4, AsksTwice DEF IsLocated
<1> QED
  BY <1>2, <1>3

LogFlags == {"creat", "append", "write"}

\* The entry is there, or created.
LEMMA LocatedRuns ==
    ASSUME NEW m, Safe(m), NEW name \in Names, NEW i, NEW s, Searching(m, name, i, s), NEW w, w = Located(s, name, LogFlags)
    PROVE  IsLocated(m, w)
<1>1. Asks(m, s.m) /\ Latest(s.m) = Latest(m) /\ Safe(s.m)
  BY DEF Searching, Asks
<1>2. CASE ~s.m.ok
  <2>1. w = s.m
    BY <1>2 DEF Located
  <2> QED
    BY <1>1, <1>2, <2>1 DEF IsLocated
<1>3. CASE s.m.ok /\ s.found
  <2>1. w = [s.m EXCEPT !.val = s.at[2]]
    BY <1>3 DEF Located, LogFlags
  <2>2. Asks(s.m, w) /\ Latest(w) = Latest(s.m) /\ w.val = s.at[2] /\ w.cache = s.m.cache
    BY <1>1, <2>1, ValSet
  <2>3. Slot(w.cache.block, w.val) /\ Latest(w).ent[<<w.cache.block, w.val>>].name = name
    BY <1>1, <1>3, <2>2 DEF Searching
  <2>4. <<w.cache.block, w.val>> \in Files(Latest(w))
    BY <2>3 DEF Slot, Files
  <2>5. Asks(m, w)
    BY <1>1, <2>2, AsksTwice
  <2> QED
    BY <2>3, <2>4, <2>5 DEF IsLocated
<1>4. CASE s.m.ok /\ ~s.found
  <2>1. w = Create(s, name)
    BY <1>4 DEF Located, LogFlags
  <2> QED
    BY <1>4, <2>1, CreateRuns
<1> QED
  BY <1>2, <1>3, <1>4

AtStart(f, v) == FileOK(f, v) /\ f.pos = 0 /\ f.cur = 0 /\ f.dir = FALSE

\* The members of the file are read from the entry.
LEMMA FileOpened ==
    ASSUME NEW v, IsView(v), Sound(v), NEW b, NEW k, Slot(b, k), <<b, k>> \in Files(v), NEW e, e = v.ent[<<b, k>>],
           NEW f, f = [Closed EXCEPT !.open = TRUE, !.dir = e.dir, !.block = b, !.index = k, !.first = e.first, !.size = e.size,
                                     !.write = TRUE, !.append = TRUE]
    PROVE  AtStart(f, v)
<1>1. e \in Entry
  BY DEF IsView, Slot
<1>2. e.dir = FALSE /\ e.first \in {0} \cup Cluster /\ e.size \in Nat
  BY <1>1 DEF Entry
<1>3. /\ IsFile(f) /\ f.open = TRUE /\ f.dir = FALSE /\ f.write = TRUE /\ f.append = TRUE /\ f.block = b /\ f.index = k
      /\ f.first = e.first /\ f.size = e.size /\ f.pos = 0 /\ f.cur = 0 /\ f.dirty = FALSE
  BY <1>2 DEF Closed, IsFile
<1>4. Place(f) = <<b, k>>
  BY <1>3 DEF Place
<1>5. IsFirst(v, <<b, k>>, e.first) /\ Long(v.fat, e.first, e.size)
  BY DEF Sound
<1>6. f.dirty \in BOOLEAN /\ f.cur \in {0} \cup Cluster /\ f.pos \in {0, f.size}
  BY <1>3
<1> QED
  BY <1>2, <1>3, <1>4, <1>5, <1>6 DEF FileOK, Slot, AtStart

\* open: the file is good, or none.
IsOpened(m, w) ==
    /\ Run(m, w) /\ Safe(w) /\ w.alloc = m.alloc /\ Used(Latest(w)) = Used(Latest(m)) /\ w.ok \in BOOLEAN
    /\ w.ok => FileOK(w.file, Latest(w)) /\ w.file.pos = 0 /\ w.file.cur = 0
    /\ ~w.ok => w.file = Closed

LEMMA OpenedRuns ==
    ASSUME NEW m, Safe(m), m.ok => Slot(m.cache.block, m.val) /\ <<m.cache.block, m.val>> \in Files(Latest(m)), m.file = Closed,
           NEW w, w = OpenLocated(m, LogFlags)
    PROVE  IsOpened(m, w)
<1>1. Mach(m) /\ IsView(Latest(m)) /\ Sound(Latest(m)) /\ m.ok \in BOOLEAN
  BY SafeViews DEF Safe, Mach
<1>2. CASE ~m.ok
  <2>1. w = m
    BY <1>2 DEF OpenLocated, OpenCachedEntry
  <2> QED
    BY <1>1, <1>2, <2>1, RunSelf DEF IsOpened
<1>3. CASE m.ok
  <2>1. PICK k : k = m.val
    OBVIOUS
  <2>2. Slot(m.cache.block, k) /\ <<m.cache.block, k>> \in Files(Latest(m))
    BY <1>3, <2>1
  <2>3. PICK e : e = m.cache.data[k]
    OBVIOUS
  <2>4. e = Latest(m).ent[<<m.cache.block, k>>] /\ e \in Entry
    BY <1>1, <2>2, <2>3, CachedEntry DEF Slot
  <2>5. e.dir = FALSE
    BY <2>4 DEF Entry
  <2>6. PICK f : f = [Closed EXCEPT !.open = TRUE, !.dir = e.dir, !.block = m.cache.block, !.index = k, !.first = e.first,
                                    !.size = e.size, !.write = TRUE, !.append = TRUE]
    OBVIOUS
  <2>7. FileOK(f, Latest(m)) /\ f.pos = 0 /\ f.cur = 0 /\ f.dir = FALSE
    <3>1. PICK v : v = Latest(m)
      OBVIOUS
    <3>2. PICK b : b = m.cache.block
      OBVIOUS
    <3>3. AtStart(f, v)
      BY <1>1, <2>2, <2>4, <2>6, <3>1, <3>2, FileOpened
    <3> QED
      BY <3>1, <3>3 DEF AtStart
  <2>8. PICK o : o = Opened(m, k, LogFlags)
    OBVIOUS
  <2>9. o = [m EXCEPT !.file = f]
    <3>1. ("write" \in LogFlags) = TRUE /\ ("append" \in LogFlags) = TRUE
      BY DEF LogFlags
    <3> QED
      BY <2>3, <2>6, <2>8, <3>1 DEF Opened
  <2>10. FileIs(m, f, o)
    BY <1>1, <2>9, SetFile
  <2>11. Same(m, o) /\ o.file = f /\ o.alloc = m.alloc /\ o.ok
    BY <1>3, <2>10 DEF FileIs
  <2>12. w = OpenCachedEntry(m, k, LogFlags)
    BY <2>1 DEF OpenLocated
  <2>13. w = o
    BY <1>3, <2>3, <2>5, <2>7, <2>8, <2>11, <2>12 DEF OpenCachedEntry, OpenOrNot, Flagged, DirSized, LogFlags
  <2>14. Run(m, o) /\ Safe(o) /\ Latest(o) = Latest(m)
    BY <2>11, SameRuns
  <2> QED
    BY <2>7, <2>11, <2>13, <2>14 DEF IsOpened
<1> QED
  BY <1>1, <1>2, <1>3

\* The search works on the directory's object.
LEMMA Swapped ==
    ASSUME NEW m, Safe(m), NEW w, w = Swap(m)
    PROVE  /\ Run(m, w) /\ Safe(w) /\ Latest(w) = Latest(m) /\ w.file = m.dir /\ w.dir = m.file /\ w.alloc = m.alloc
           /\ w.ok = m.ok /\ w.cache = m.cache /\ w.val = m.val
<1>1. Shape(m) /\ m.ok \in BOOLEAN
  BY DEF Safe, Mach
<1>2. /\ Shape(w) /\ w.disk = m.disk /\ w.cache = m.cache /\ w.n = m.n /\ w.bad = m.bad /\ w.took = m.took /\ w.ok = m.ok
      /\ w.file = m.dir /\ w.dir = m.file /\ w.alloc = m.alloc /\ w.val = m.val
  BY <1>1 DEF Shape, Swap
<1>3. Same(m, w)
  BY <1>1, <1>2 DEF Same
<1>4. Run(m, w) /\ Safe(w) /\ Latest(w) = Latest(m)
  BY <1>3, SameRuns
<1> QED
  BY <1>2, <1>4

LEMMA OpenRuns ==
    ASSUME NEW m, Safe(m), m.ok, m.file = Closed, m.dir = Root, NEW name \in Names, NEW w, w = Open(m, name, LogFlags)
    PROVE  IsOpened(m, w)
<1>1. PICK t : t = Swap(m)
  OBVIOUS
<1>2. Run(m, t) /\ Safe(t) /\ Latest(t) = Latest(m) /\ t.file = Root /\ t.dir = Closed /\ t.alloc = m.alloc
  BY <1>1, Swapped
<1>3. PICK s : s = FindName(t, name)
  OBVIOUS
<1>4. PICK i \in Nat : Searching(t, name, i, s)
  BY <1>2, <1>3, NameFound
<1>5. PICK x : x = Located(s, name, LogFlags)
  OBVIOUS
<1>6. IsLocated(t, x)
  BY <1>2, <1>4, <1>5, LocatedRuns
<1>7. Asks(t, x) /\ Safe(x) /\ Run(t, x) /\ x.dir = Closed /\ x.alloc = m.alloc /\ Used(Latest(x)) = Used(Latest(m))
  BY <1>2, <1>6 DEF IsLocated, Asks
<1>8. PICK y : y = Swap(x)
  OBVIOUS
<1>9. Run(x, y) /\ Safe(y) /\ Latest(y) = Latest(x) /\ y.file = Closed /\ y.alloc = x.alloc /\ y.ok = x.ok /\ y.cache = x.cache /\ y.val = x.val
  BY <1>7, <1>8, Swapped
<1>10. w = OpenLocated(y, LogFlags)
  <2>1. ~m.file.open
    BY DEF Closed
  <2> QED
    BY <1>1, <1>3, <1>5, <1>8, <2>1 DEF Open
<1>11. y.ok => Slot(y.cache.block, y.val) /\ <<y.cache.block, y.val>> \in Files(Latest(y))
  BY <1>6, <1>9 DEF IsLocated
<1>12. IsOpened(y, w)
  BY <1>9, <1>10, <1>11, OpenedRuns
<1>13. Run(m, x) /\ Run(m, y)
  BY <1>2, <1>7, <1>9, RunTwice
<1>14. Run(m, w)
  BY <1>12, <1>13, RunTwice DEF IsOpened
<1> QED
  BY <1>7, <1>9, <1>12, <1>14 DEF IsOpened

-----------------------------------------------------------------------------
(* The file is closed *)
ItsEntry(f, old, e) == e = [old EXCEPT !.first = f.first, !.size = f.size]

\* The entry as sync is to leave it
LEMMA EntryOf ==
    ASSUME NEW v, IsView(v), NEW f, FileOK(f, v), NEW old, old = v.ent[Place(f)], NEW e, ItsEntry(f, old, e)
    PROVE  Fits(v, Place(f), e) /\ e.first = f.first /\ old.name \in Names
<1>1. Place(f) \in Places /\ Place(f) \in Files(v)
  BY DEF FileOK, Files
<1>2. old \in Entry
  BY <1>1 DEF IsView
<1>3. old.name \in Names
  BY <1>1 DEF Files
<1>4. e \in Entry /\ e.first = f.first /\ e.size = f.size /\ e.name = old.name
  BY <1>2 DEF FileOK, Entry, ItsEntry
<1> QED
  BY <1>3, <1>4 DEF FileOK, Fits

\* What the entry says of the file is up to date in the cache.
IsEntered(m, w) ==
    /\ Run(m, w) /\ Safe(w) /\ w.alloc = m.alloc /\ Used(Latest(w)) = Used(Latest(m)) /\ w.ok \in BOOLEAN
    /\ w.ok => Reach(Latest(m), m.file.first) \subseteq Owned(Latest(w))
    /\ ~w.ok => Hit(m, w)

\* The entry is changed in the cache: the card stays sound, and the first cluster
\* is owned from now on.
LEMMA EnteredRuns ==
    ASSUME NEW m, Safe(m), m.ok, FileOK(m.file, Latest(m)), NEW w, w = Entered(CacheDirEntry(m, "write"))
    PROVE  IsEntered(m, w)
<1>1. PICK x : x = CacheFetch(m, m.file.block, "write", FALSE)
  OBVIOUS
<1>2. Mach(m) /\ m.n \in Nat
  BY DEF Safe, Mach
<1>3. Fetched(m, m.file.block, x) /\ (x.ok => x.cache.dirty)
  <2>1. FALSE <=> m.file.block \in FatBlocks
    BY Blocks DEF FileOK
  <2>2. "write" # "reserve" /\ "write" # "read"
    OBVIOUS
  <2> QED
    BY <1>1, <1>2, <2>1, <2>2, FetchMoves
<1>4. Moves(m, x) /\ (x.ok => x.cache.block = m.file.block)
  BY <1>3 DEF Fetched
<1>5. Asks(m, x) /\ Latest(x) = Latest(m) /\ x.file = m.file
  BY <1>4, AsksMoves
<1>6. Run(m, x) /\ Safe(x) /\ x.ok \in BOOLEAN /\ x.alloc = m.alloc /\ Mach(x) /\ IsView(Latest(x)) /\ Sound(Latest(x))
  BY <1>5, SafeViews DEF Asks
<1>7. w = Entered(x)
  BY <1>1 DEF CacheDirEntry
<1>8. CASE ~x.ok
  <2>1. w = x
    BY <1>7, <1>8 DEF Entered
  <2>2. Hit(m, x)
    BY <1>4, <1>8 DEF Moves, Blamed, Hit
  <2> QED
    BY <1>5, <1>6, <1>8, <2>1, <2>2 DEF IsEntered
<1>9. CASE x.ok
  <2>1. PICK k, b : k = m.file.index /\ b = m.file.block
    OBVIOUS
  <2>2. Slot(b, k) /\ <<b, k>> = Place(m.file) /\ x.cache.block = b
    <3>1. Place(m.file) \in Places
      BY DEF FileOK, Files
    <3> QED
      BY <1>4, <1>9, <2>1, <3>1 DEF FileOK, Slot, Place
  <2>3. PICK old : old = x.cache.data[k]
    OBVIOUS
  <2>4. old = Latest(x).ent[Place(m.file)]
    <3>1. x.cache.data[k] = Latest(x).ent[<<x.cache.block, k>>]
      BY <1>6, <2>2, CachedEntry DEF Slot
    <3> QED
      BY <2>2, <2>3, <3>1
  <2>5. PICK e : ItsEntry(m.file, old, e)
    BY DEF ItsEntry
  <2>6. Fits(Latest(x), Place(m.file), e) /\ e.first = m.file.first /\ old.name \in Names
    BY <1>5, <1>6, <2>4, <2>5, EntryOf
  <2>7. old.name # "deleted"
    BY <2>6, FatAssumption
  <2>8. PICK y : y = SetCached(x, k, e)
    OBVIOUS
  <2>9. PICK f : f = [y.file EXCEPT !.dirty = FALSE]
    OBVIOUS
  <2>10. w = [y EXCEPT !.file = f]
    <3>1. x.file.dir = FALSE /\ x.file.index = k
      BY <1>5, <2>1 DEF FileOK
    <3>2. w = [SetEntry(x, [old EXCEPT !.first = x.file.first, !.size = IF x.file.dir THEN @ ELSE x.file.size]) EXCEPT !.file.dirty = FALSE]
      BY <1>7, <1>9, <2>3, <2>7, <3>1 DEF Entered
    <3>3. [old EXCEPT !.first = x.file.first, !.size = IF x.file.dir THEN @ ELSE x.file.size] = e
      BY <1>5, <2>5, <3>1 DEF ItsEntry
    <3>4. w = [SetEntry(x, e) EXCEPT !.file.dirty = FALSE]
      BY <3>2, <3>3
    <3>5. SetEntry(x, e) = y
      BY <2>8, <3>1 DEF SetEntry
    <3> QED
      BY <2>9, <3>4, <3>5
  <2>11. EntrySets(x, k, e, y)
    BY <1>3, <1>6, <1>9, <2>2, <2>6, <2>8, EntrySet
  <2>12. Run(x, y) /\ Safe(y) /\ Mach(y) /\ y.alloc = x.alloc /\ y.ok /\ Latest(y).fat = Latest(x).fat /\ Reach(Latest(x), e.first) \subseteq Owned(Latest(y))
    BY <2>11 DEF EntrySets, Others, Safe
  <2>13. FileIs(y, f, w)
    BY <2>10, <2>12, SetFile
  <2>14. Same(y, w) /\ w.alloc = y.alloc /\ w.ok
    BY <2>12, <2>13 DEF FileIs
  <2>15. Run(y, w) /\ Safe(w) /\ Latest(w) = Latest(y) /\ w.ok \in BOOLEAN
    BY <2>12, <2>14, SameRuns DEF Same
  <2>16. Run(m, y) /\ Run(m, w)
    BY <1>6, <2>12, <2>15, RunTwice
  <2>17. Used(Latest(w)) = Used(Latest(m))
    BY <1>5, <2>12, <2>15 DEF Used
  <2> QED
    BY <1>5, <1>6, <2>6, <2>12, <2>14, <2>15, <2>16, <2>17 DEF IsEntered
<1> QED
  BY <1>6, <1>8, <1>9

\* close: if it returns true, what the file has used is owned for good; if not,
\* a transfer has failed.
IsClosed(m, w) ==
    /\ Run(m, w) /\ Safe(w) /\ w.alloc = m.alloc /\ w.file = Closed /\ Used(Latest(w)) = Used(Latest(m))
    /\ w.ok => Stray(Lasting(w)) \subseteq Lost(m)
    /\ ~w.ok => Hit(m, w)

LEMMA CloseRuns ==
    ASSUME NEW m, Safe(m), m.ok, FileOK(m.file, Latest(m)), NEW w, w = Close(m)
    PROVE  IsClosed(m, w)
<1>1. Mach(m) /\ m.n \in Nat
  BY DEF Safe, Mach
<1>2. PICK t : t = IF m.file.dirty THEN Entered(CacheDirEntry(m, "write")) ELSE m
  OBVIOUS
<1>3. IsEntered(m, t)
  <2>1. CASE m.file.dirty
    BY <1>2, <2>1, EnteredRuns
  <2>2. CASE ~m.file.dirty
    <3>1. t = m
      BY <1>2, <2>2
    <3>2. Reach(Latest(m), m.file.first) \subseteq Owned(Latest(m))
      BY <2>2 DEF FileOK, Owned
    <3>3. Run(m, m)
      BY RunSelf
    <3>4. m.ok \in BOOLEAN
      BY <1>1 DEF Mach
    <3> QED
      BY <3>1, <3>2, <3>3, <3>4 DEF IsEntered
  <2> QED
    BY <2>1, <2>2
<1>4. Run(m, t) /\ Safe(t) /\ Mach(t) /\ t.alloc = m.alloc /\ Used(Latest(t)) = Used(Latest(m)) /\ t.ok \in BOOLEAN
  BY <1>3 DEF IsEntered, Safe
<1>5. PICK z : z = CacheSync(t)
  OBVIOUS
<1>6. z = Sync(m)
  BY <1>2, <1>5 DEF Sync, FileOK
<1>7. Moves(t, z) /\ (z.ok => Lasting(z) = Latest(t))
  BY <1>4, <1>5, SyncMoves
<1>8. Run(t, z) /\ Latest(z) = Latest(t) /\ Mach(z) /\ z.alloc = t.alloc /\ Safe(z)
  BY <1>4, <1>7, AsksMoves DEF Asks, Safe
<1>9. w = [z EXCEPT !.file = Closed]
  BY <1>6 DEF Close
<1>10. FileIs(z, Closed, w)
  BY <1>8, <1>9, SetFile
<1>11. Same(z, w) /\ w.file = Closed /\ w.alloc = z.alloc /\ w.ok = z.ok
  BY <1>10 DEF FileIs
<1>12. Run(z, w) /\ Safe(w) /\ Latest(w) = Latest(z) /\ Lasting(w) = Lasting(z)
  BY <1>8, <1>11, SameRuns
<1>13. Run(m, z) /\ Run(m, w)
  BY <1>4, <1>8, <1>12, RunTwice
<1>14. ASSUME w.ok PROVE Stray(Lasting(w)) \subseteq Lost(m)
  <2>1. z.ok /\ t.ok
    BY <1>7, <1>11, <1>14 DEF Moves
  <2>2. Lasting(w) = Latest(t)
    BY <1>7, <1>12, <2>1
  <2>3. Reach(Latest(m), m.file.first) \subseteq Owned(Latest(t))
    BY <1>3, <2>1 DEF IsEntered
  <2>4. Owned(Latest(m)) \subseteq Owned(Latest(t))
    BY <1>4, GrowsOwned DEF Run
  <2> QED
    BY <1>4, <2>2, <2>3, <2>4 DEF Stray, Lost
<1>15. ASSUME ~w.ok PROVE Hit(m, w)
  <2>1. CASE ~t.ok
    <3>1. Hit(m, t)
      BY <1>3, <2>1 DEF IsEntered
    <3>2. Run(t, w)
      BY <1>4, <1>8, <1>12, RunTwice
    <3> QED
      BY <1>1, <1>4, <3>1, <3>2, HitEarlier
  <2>2. CASE t.ok
    <3>1. Hit(t, z)
      BY <1>7, <1>11, <1>15, <2>2 DEF Moves, Blamed, Hit
    <3>2. Hit(m, z)
      BY <1>1, <1>4, <1>8, <3>1, HitLater
    <3> QED
      BY <1>1, <1>12, <1>13, <3>2, HitEarlier
  <2> QED
    BY <2>1, <2>2
<1> QED
  BY <1>4, <1>8, <1>11, <1>12, <1>13, <1>14, <1>15 DEF IsClosed

-----------------------------------------------------------------------------
(* The volume *)
\* SdVolume::init forgets the cache and reads two blocks.
Starts(m, w) ==
    /\ Safe(w) /\ w.bad = m.bad /\ w.took = m.took /\ w.file = m.file /\ w.disk = m.disk /\ Lasting(w) = Lasting(m) /\ Latest(w) = Lasting(w)
    /\ w.alloc = 2 /\ w.ok \in BOOLEAN /\ w.n \in Nat /\ m.n <= w.n

LEMMA ReadKeeps ==
    ASSUME NEW m, Shape(m), m.n \in Nat, m.ok \in BOOLEAN, NEW b, NEW w, w = ReadBlock(m, b, FALSE, FALSE)
    PROVE  w.disk = m.disk /\ w.alloc = m.alloc
BY DEF ReadBlock, Transfer, Shape

LEMMA VolumeStarts ==
    ASSUME NEW m, Shape(m), m.ok = TRUE, m.n \in Nat, IsDisk(m.disk), Sound(Lasting(m)), NEW w, w = VolumeInit(m)
    PROVE  Starts(m, w)
<1>1. PICK x : x = [m EXCEPT !.alloc = 2, !.cache = NoCache]
  OBVIOUS
<1>2. /\ Shape(x) /\ x.disk = m.disk /\ x.cache = NoCache /\ x.n = m.n /\ x.ok = TRUE /\ x.alloc = 2 /\ x.file = m.file
      /\ x.bad = m.bad /\ x.took = m.took
  BY <1>1 DEF Shape
<1>3. CacheOK(x.disk, NoCache)
  <2>1. NoCache.block = NoBlock /\ NoCache.dirty = FALSE /\ NoCache.fat = FALSE
        /\ NoCache = [block |-> NoCache.block, data |-> NoCache.data, dirty |-> NoCache.dirty, fat |-> NoCache.fat]
    BY DEF NoCache
  <2>2. NoBlock \notin Meta /\ NoBlock \notin FatBlocks /\ NoBlock \notin DirBlocks
    BY Blocks DEF Meta
  <2>3. IsBlock(NoCache.block, NoCache.data)
    BY <2>1, <2>2 DEF IsBlock
  <2>4. NoCache.dirty \in BOOLEAN /\ NoCache.fat \in BOOLEAN
    BY <2>1
  <2> QED
    BY <2>1, <2>2, <2>3, <2>4 DEF CacheOK
<1>4. Mach(x) /\ x.ok \in BOOLEAN
  BY <1>2, <1>3 DEF Mach
<1>5. Lasting(x) = Lasting(m) /\ Latest(x) = Lasting(x)
  <2>1. IsBlock(NoCache.block, NoCache.data) /\ NoCache.block \notin Meta
    <3>1. NoCache.block = NoBlock
      BY DEF NoCache
    <3> QED
      BY <1>3, <3>1, Blocks DEF CacheOK
  <2>2. View([m.disk EXCEPT ![NoCache.block] = NoCache.data]) = View(m.disk)
    BY <2>1, Overlay
  <2>3. x.disk = m.disk /\ x.cache = NoCache
    BY <1>2
  <2>4. Lasting(x) = View(m.disk) /\ Latest(x) = View([m.disk EXCEPT ![NoCache.block] = NoCache.data])
    BY <2>3, Zenon DEF Lasting, Latest
  <2> QED
    BY <2>2, <2>4, Zenon DEF Lasting
<1>6. PICK y : y = ReadBlock(x, BootBlock, FALSE, FALSE)
  OBVIOUS
<1>7. FALSE <=> BootBlock \in FatBlocks
  BY Blocks DEF Meta
<1>8. Moves(x, y)
  BY <1>4, <1>5, <1>6, <1>7, ReadMoves DEF Fetched
<1>9. Mach(y) /\ Lasting(y) = Latest(y) /\ Lasting(y) = Lasting(x)
  BY <1>5, <1>8 DEF Moves
<1>10. w = ReadBlock(y, BootBlock, FALSE, FALSE)
  BY <1>1, <1>6 DEF VolumeInit
<1>11. Moves(y, w)
  BY <1>7, <1>9, <1>10, ReadMoves DEF Fetched
<1>12. Mach(w) /\ Lasting(w) = Latest(w) /\ Lasting(w) = Lasting(m) /\ w.ok \in BOOLEAN /\ w.n \in Nat
  BY <1>5, <1>9, <1>11 DEF Moves, Mach
<1>13. w.alloc = 2 /\ w.file = m.file /\ w.bad = m.bad /\ w.took = m.took
  BY <1>2, <1>8, <1>11 DEF Moves, Others
<1>14. w.disk = m.disk
  <2>1. y.disk = x.disk
    <3>1. Shape(x) /\ x.n \in Nat /\ x.ok \in BOOLEAN
      BY <1>4 DEF Mach
    <3> QED
      BY <1>6, <3>1, ReadKeeps
  <2>2. w.disk = y.disk
    <3>1. Shape(y) /\ y.n \in Nat /\ y.ok \in BOOLEAN
      BY <1>9 DEF Mach
    <3> QED
      BY ONLY <1>10, <3>1, ReadKeeps
  <2> QED
    BY <1>2, <2>1, <2>2
<1>15. m.n <= w.n
  BY <1>2, <1>8, <1>11 DEF Moves, Course
<1>16. Safe(w)
  BY <1>12, GrowsSelf DEF Safe
<1> QED
  BY <1>12, <1>13, <1>14, <1>15, <1>16 DEF Starts

-----------------------------------------------------------------------------
(* The chains of a card *)
Trail(v, first, n, s) ==
    /\ s \in Seq(Links) /\ Len(s) \in 1 .. n + 1 /\ s[1] = first
    /\ \A i \in 1 .. Len(s) - 1 : s[i] \in Cluster /\ s[i + 1] = v.fat[s[i]]
    /\ Len(s) = n + 1 \/ s[Len(s)] \notin Cluster

\* Chain is such a trail.
Onward(d, s) == LET c == s[Len(s)] IN IF c \in Cluster THEN Append(s, FatOf(d, c)) ELSE s

LEMMA TrailOn ==
    ASSUME NEW d, NEW v, v = View(d), IsView(v), NEW first, NEW n \in Nat, NEW s, Trail(v, first, n, s), NEW t, t = Onward(d, s)
    PROVE  Trail(v, first, n + 1, t)
<1>1. /\ s \in Seq(Links) /\ Len(s) \in 1 .. n + 1 /\ s[1] = first
      /\ \A i \in 1 .. Len(s) - 1 : s[i] \in Cluster /\ s[i + 1] = v.fat[s[i]]
      /\ Len(s) = n + 1 \/ s[Len(s)] \notin Cluster
  BY DEF Trail
<1>2. CASE s[Len(s)] \notin Cluster
  <2>1. t = s
    BY <1>2 DEF Onward
  <2>2. Len(s) \in 1 .. (n + 1) + 1
    BY <1>1
  <2> QED
    BY <1>1, <1>2, <2>1, <2>2 DEF Trail
<1>3. CASE s[Len(s)] \in Cluster
  <2>1. PICK x : x = v.fat[s[Len(s)]]
    OBVIOUS
  <2>2. x = FatOf(d, s[Len(s)]) /\ x \in Links
    BY <1>3, <2>1 DEF View, IsView
  <2>3. t = Append(s, x)
    BY <1>3, <2>2 DEF Onward
  <2>4. Len(s) = n + 1
    BY <1>1, <1>3
  <2>5. t \in Seq(Links) /\ Len(t) = Len(s) + 1 /\ (\A i \in 1 .. Len(s) : t[i] = s[i]) /\ t[Len(s) + 1] = x
    BY <1>1, <2>2, <2>3
  <2>6. ASSUME NEW i \in 1 .. Len(t) - 1 PROVE t[i] \in Cluster /\ t[i + 1] = v.fat[t[i]]
    <3>1. CASE i = Len(s)
      BY <1>3, <2>1, <2>4, <2>5, <3>1
    <3>2. CASE i # Len(s)
      <4>1. i \in 1 .. Len(s) - 1 /\ i \in 1 .. Len(s) /\ i + 1 \in 1 .. Len(s)
        BY <2>4, <2>5, <3>2
      <4> QED
        BY <1>1, <2>5, <4>1
    <3> QED
      BY <3>1, <3>2
  <2>7. t[1] = first /\ Len(t) = n + 2
    BY <1>1, <2>4, <2>5
  <2> QED
    BY <2>5, <2>6, <2>7 DEF Trail
<1> QED
  BY <1>2, <1>3

LEMMA ChainTrail ==
    ASSUME NEW d, NEW v, v = View(d), IsView(v), NEW first \in Links
    PROVE  \E s : Trail(v, first, ClusterCount + 1, s) /\ Chain(d, first) = SubSeq(s, 1, Len(s) - 1)
<1> DEFINE K == ClusterCount + 1
           Loop(k, f) == f = [n \in 0 .. k |-> IF n = 0 THEN <<first>> ELSE Onward(d, f[n - 1])]
           Loops == {k \in Nat : \E f : Loop(k, f)}
           go[n \in 0 .. K] == IF n = 0 THEN <<first>> ELSE Onward(d, go[n - 1])
           Good == {n \in Nat : n <= K => Trail(v, first, n, go[n])}
<1>0. K \in Nat
  BY FatAssumption
<1>1. Chain(d, first) = SubSeq(go[K], 1, Len(go[K]) - 1)
  BY DEF Chain, Onward
<1> HIDE DEF K
<1>a. 0 \in Loops
  <2>1. PICK f : f = [n \in 0 .. 0 |-> <<first>>]
    OBVIOUS
  <2>2. Loop(0, f)
    BY <2>1
  <2> QED
    BY <2>2
<1>b. ASSUME NEW k \in Nat, k \in Loops PROVE k + 1 \in Loops
  <2>1. PICK f : Loop(k, f)
    BY <1>b
  <2>2. PICK h : h = [n \in 0 .. k + 1 |-> IF n = k + 1 THEN Onward(d, f[k]) ELSE f[n]]
    OBVIOUS
  <2>3. \A n \in 0 .. k + 1 : h[n] = IF n = 0 THEN <<first>> ELSE Onward(d, h[n - 1])
    BY <2>1, <2>2
  <2>4. Loop(k + 1, h)
    BY <2>2, <2>3
  <2> QED
    BY <2>4
<1>c. K \in Loops
  <2> HIDE DEF Loops
  <2> QED
    BY <1>0, <1>a, <1>b, Every
<1>2. Loop(K, go)
  BY <1>c
<1> HIDE DEF go
<1>3. Trail(v, first, 0, <<first>>)
  BY DEF Trail
<1>4. 0 \in Good
  BY <1>0, <1>2, <1>3
<1>5. ASSUME NEW n \in Nat, n \in Good PROVE n + 1 \in Good
  <2>1. ASSUME n + 1 <= K PROVE Trail(v, first, n + 1, go[n + 1])
    <3>1. n + 1 \in 0 .. K /\ n + 1 # 0 /\ (n + 1) - 1 = n /\ n <= K
      BY <1>0, <2>1
    <3>2. go[n + 1] = Onward(d, go[n])
      BY <1>2, <3>1
    <3>3. Trail(v, first, n, go[n])
      BY <1>5, <3>1
    <3> QED
      BY <3>2, <3>3, TrailOn
  <2> QED
    BY <2>1
<1> HIDE DEF Good
<1>6. K \in Good
  BY <1>0, <1>4, <1>5, Every
<1>7. Trail(v, first, K, go[K])
  BY <1>0, <1>6 DEF Good
<1> QED
  BY <1>1, <1>7 DEF K

\* A chain that starts where nobody links to never comes back: so it ends.
LEMMA NoLoop ==
    ASSUME NEW v, Linked(v), NEW p, NEW first, IsFirst(v, p, first), NEW n \in Nat, NEW s, Trail(v, first, n, s),
           NEW i \in 1 .. Len(s), NEW j \in 1 .. Len(s), i < j
    PROVE  s[i] # s[j]
<1>1. /\ Len(s) \in Nat /\ s[1] = first
      /\ \A k \in 1 .. Len(s) - 1 : s[k] \in Cluster /\ s[k + 1] = v.fat[s[k]]
  BY DEF Trail
<1> DEFINE S == {k \in Nat : \A x \in 1 .. Len(s) : k + 1 < x => s[k + 1] # s[x]}
<1>2. 0 \in S
  <2>1. ASSUME NEW x \in 1 .. Len(s), 1 < x PROVE s[1] # s[x]
    <3>1. PICK y \in 1 .. Len(s) - 1 : x = y + 1
      <4>1. x - 1 \in 1 .. Len(s) - 1 /\ x = (x - 1) + 1
        BY <1>1, <2>1
      <4> QED
        BY <4>1
    <3>2. s[x] = v.fat[s[y]] /\ s[y] \in Cluster
      BY <1>1, <3>1
    <3>3. first \in Cluster
      <4>1. 1 \in 1 .. Len(s) - 1
        BY <1>1, <2>1
      <4> QED
        BY <1>1, <4>1
    <3>4. first # 0
      BY <3>3, LinkKinds
    <3> QED
      BY <1>1, <3>2, <3>4 DEF IsFirst
  <2> QED
    BY <2>1
<1>3. ASSUME NEW k \in Nat, k \in S PROVE k + 1 \in S
  <2>1. ASSUME NEW x \in 1 .. Len(s), (k + 1) + 1 < x PROVE s[(k + 1) + 1] # s[x]
    <3>1. PICK y \in 1 .. Len(s) - 1 : x = y + 1 /\ k + 1 < y
      <4>1. x - 1 \in 1 .. Len(s) - 1 /\ x = (x - 1) + 1 /\ k + 1 < x - 1
        BY <1>1, <2>1
      <4> QED
        BY <4>1
    <3>2. k + 1 \in 1 .. Len(s) - 1 /\ y \in 1 .. Len(s) /\ (k + 1) + 1 \in 1 .. Len(s) - 1
      BY <1>1, <2>1, <3>1
    <3>3. /\ s[x] = v.fat[s[y]] /\ s[y] \in Cluster
          /\ s[(k + 1) + 1] = v.fat[s[k + 1]] /\ s[k + 1] \in Cluster /\ s[(k + 1) + 1] \in Cluster
      BY <1>1, <3>1, <3>2
    <3>4. s[k + 1] # s[y]
      BY <1>3, <3>1, <3>2
    <3> QED
      BY <3>3, <3>4 DEF Linked
  <2> QED
    BY <2>1
<1> HIDE DEF S
<1>4. PICK k \in Nat : i = k + 1
  <2>1. i - 1 \in Nat /\ i = (i - 1) + 1
    OBVIOUS
  <2> QED
    BY <2>1
<1>5. k \in S
  BY <1>2, <1>3, Every
<1> QED
  BY <1>4, <1>5 DEF S

LEMMA TrailEnds ==
    ASSUME NEW v, Linked(v), NEW p, NEW first, IsFirst(v, p, first), NEW s, Trail(v, first, ClusterCount + 1, s)
    PROVE  s[Len(s)] \notin Cluster
<1>0. ClusterCount \in Nat \ {0}
  BY FatAssumption
<1>1. /\ s \in Seq(Links) /\ Len(s) \in 1 .. ClusterCount + 2
      /\ \A k \in 1 .. Len(s) - 1 : s[k] \in Cluster /\ s[k + 1] = v.fat[s[k]]
      /\ Len(s) = ClusterCount + 2 \/ s[Len(s)] \notin Cluster
  BY <1>0 DEF Trail
<1>2. SUFFICES ASSUME Len(s) = ClusterCount + 2 PROVE FALSE
  BY <1>1
<1> DEFINE S == 1 .. ClusterCount + 1
           f == [i \in S |-> s[i]]
<1>3. IsFiniteSet(S) /\ Cardinality(S) = ClusterCount + 1
  <2>1. 1 \in Int /\ ClusterCount + 1 \in Int /\ ~(1 > ClusterCount + 1) /\ (ClusterCount + 1) - 1 + 1 = ClusterCount + 1
    BY <1>0
  <2>2. IsFiniteSet(1 .. ClusterCount + 1) /\ Cardinality(1 .. ClusterCount + 1) = IF 1 > ClusterCount + 1 THEN 0 ELSE (ClusterCount + 1) - 1 + 1
    BY <2>1, FS_Interval
  <2> QED
    BY <2>1, <2>2
<1>4. IsFiniteSet(Cluster) /\ Cardinality(Cluster) = ClusterCount
  <2>1. 2 \in Int /\ ClusterCount + 1 \in Int /\ ~(2 > ClusterCount + 1) /\ (ClusterCount + 1) - 2 + 1 = ClusterCount
    BY <1>0
  <2>2. IsFiniteSet(2 .. ClusterCount + 1) /\ Cardinality(2 .. ClusterCount + 1) = IF 2 > ClusterCount + 1 THEN 0 ELSE (ClusterCount + 1) - 2 + 1
    BY <2>1, FS_Interval
  <2> QED
    BY <2>1, <2>2 DEF Cluster
<1>5. f \in [S -> Cluster]
  <2>1. ASSUME NEW i \in S PROVE s[i] \in Cluster
    <3>1. i \in 1 .. Len(s) - 1
      BY <1>0, <1>2
    <3> QED
      BY <1>1, <3>1
  <2> QED
    BY <2>1
<1>6. Cardinality(Cluster) < Cardinality(S)
  BY <1>0, <1>3, <1>4
<1>7. \E x, y \in S : x # y /\ f[x] = f[y]
  <2> HIDE DEF S, f
  <2> QED
    BY <1>3, <1>4, <1>5, <1>6, FS_PigeonHole
<1>8. PICK x \in S, y \in S : x # y /\ s[x] = s[y]
  BY <1>7
<1>9. x \in 1 .. Len(s) /\ y \in 1 .. Len(s) /\ ClusterCount + 1 \in Nat /\ (x < y \/ y < x)
  BY <1>0, <1>2, <1>8
<1> QED
  BY <1>8, <1>9, NoLoop

\* What a sound card has of a file's chain.
IsChain(v, first, c) ==
    /\ c \in Seq(Cluster)
    /\ first = 0 => c = <<>>
    /\ first # 0 => c # <<>> /\ v.fat[c[Len(c)]] = EOC
    /\ \A x, k : Walk(v.fat, first, x, k) => k + 1 \in 1 .. Len(c) /\ c[k + 1] = x

\* The chain the properties read is the one the walks follow.
LEMMA ChainOf ==
    ASSUME NEW d, NEW v, v = View(d), IsView(v), Linked(v), NEW p, NEW first \in {0} \cup Cluster, IsFirst(v, p, first),
           NEW c, c = Chain(d, first)
    PROVE  IsChain(v, first, c)
<1>1. PICK s : Trail(v, first, ClusterCount + 1, s) /\ Chain(d, first) = SubSeq(s, 1, Len(s) - 1)
  <2>1. first \in Links
    BY DEF Links
  <2> QED
    BY <2>1, ChainTrail
<1>2. s[Len(s)] \notin Cluster
  BY <1>1, TrailEnds
<1>3. /\ s \in Seq(Links) /\ Len(s) \in Nat /\ Len(s) >= 1 /\ s[1] = first
      /\ \A k \in 1 .. Len(s) - 1 : s[k] \in Cluster /\ s[k + 1] = v.fat[s[k]]
  BY <1>1 DEF Trail
<1>4. c = SubSeq(s, 1, Len(s) - 1)
  BY <1>1
<1>5. Len(c) = Len(s) - 1 /\ \A k \in 1 .. Len(c) : c[k] = s[k]
  <2>1. PICK y \in Nat : y = Len(s) - 1
    <3>1. Len(s) - 1 \in Nat
      BY <1>3
    <3> QED
      BY <3>1
  <2>2. y <= Len(s) /\ c = SubSeq(s, 1, y)
    BY <1>3, <1>4, <2>1
  <2>3. Len(c) = y /\ \A k \in 1 .. y : c[k] = s[k]
    BY <1>3, <2>2
  <2> QED
    BY <2>1, <2>3
<1>6. c \in Seq(Cluster)
  <2>1. \A k \in 1 .. Len(s) - 1 : s[k] \in Cluster
    BY <1>3
  <2> QED
    BY <1>3, <1>4, <2>1
<1>7. first = 0 => c = <<>>
  <2>1. ASSUME first = 0 PROVE c = <<>>
    <3>1. s[1] \notin Cluster
      BY <1>3, <2>1, LinkKinds
    <3>2. Len(c) = 0
      BY <1>3, <1>5, <3>1
    <3> QED
      BY <1>6, <3>2
  <2> QED
    BY <2>1
<1>8. ASSUME NEW k \in 1 .. Len(s) PROVE s[k] # 0 \/ first = 0
  <2>1. CASE k = 1
    BY <1>3, <2>1
  <2>2. CASE k # 1
    <3>1. PICK j \in 1 .. Len(s) - 1 : k = j + 1
      <4>1. k - 1 \in 1 .. Len(s) - 1 /\ k = (k - 1) + 1
        BY <1>3, <2>2
      <4> QED
        BY <4>1
    <3>2. s[k] = v.fat[s[j]] /\ s[j] \in Cluster
      BY <1>3, <3>1
    <3>3. CASE j = 1
      <4>1. s[j] = first /\ first # 0
        BY <1>3, <3>2, <3>3, LinkKinds
      <4> QED
        BY <3>2, <4>1 DEF IsFirst
    <3>4. CASE j # 1
      <4>1. PICK i \in 1 .. Len(s) - 1 : j = i + 1
        <5>1. j - 1 \in 1 .. Len(s) - 1 /\ j = (j - 1) + 1
          BY <1>3, <3>4
        <5> QED
          BY <5>1
      <4>2. s[j] = v.fat[s[i]] /\ s[i] \in Cluster
        BY <1>3, <4>1
      <4> QED
        BY <3>2, <4>2 DEF Linked
    <3> QED
      BY <3>3, <3>4
  <2> QED
    BY <2>1, <2>2
<1>9. ASSUME first # 0 PROVE c # <<>> /\ v.fat[c[Len(c)]] = EOC
  <2>1. Len(s) # 1
    BY <1>2, <1>3, <1>9
  <2>2. Len(c) \in 1 .. Len(s) - 1 /\ Len(c) \in 1 .. Len(c) /\ Len(c) + 1 = Len(s)
    BY <1>3, <1>5, <2>1
  <2>3. c[Len(c)] = s[Len(c)] /\ s[Len(s)] = v.fat[s[Len(c)]]
    BY <1>3, <1>5, <2>2
  <2>4. s[Len(s)] \in Links
    BY <1>3
  <2>5. s[Len(s)] # 0
    <3>1. Len(s) \in 1 .. Len(s)
      BY <1>3
    <3> QED
      BY <1>8, <1>9, <3>1
  <2>6. s[Len(s)] = EOC
    BY <1>2, <2>4, <2>5 DEF Links
  <2>7. c # <<>>
    BY <2>2
  <2> QED
    BY <2>3, <2>6, <2>7
<1>10. ASSUME NEW x, NEW k, Walk(v.fat, first, x, k) PROVE k + 1 \in 1 .. Len(c) /\ c[k + 1] = x
  <2>1. k \in Nat
    BY <1>10 DEF Walk
  <2>2. PICK g : Path(v.fat, first, x, k, g)
    BY <1>10 DEF Walk
  <2>3. g \in [0 .. k -> Cluster] /\ g[0] = first /\ g[k] = x /\ \A i \in 0 .. k - 1 : v.fat[g[i]] = g[i + 1]
    BY <2>2 DEF Path
  <2> DEFINE S == {i \in Nat : i <= k => i + 1 \in 1 .. Len(c) /\ s[i + 1] = g[i]}
  <2>4. 0 \in S
    <3>1. first \in Cluster
      BY <2>1, <2>3
    <3>2. Len(s) # 1
      BY <1>2, <1>3, <3>1
    <3> QED
      BY <1>3, <1>5, <2>3, <3>2
  <2>5. ASSUME NEW i \in Nat, i \in S PROVE i + 1 \in S
    <3>1. ASSUME i + 1 <= k PROVE (i + 1) + 1 \in 1 .. Len(c) /\ s[(i + 1) + 1] = g[i + 1]
      <4>1. i <= k /\ i \in 0 .. k - 1 /\ i + 1 \in 0 .. k
        BY <2>1, <3>1
      <4>2. i + 1 \in 1 .. Len(c) /\ s[i + 1] = g[i]
        BY <2>5, <4>1
      <4>3. i + 1 \in 1 .. Len(s) - 1
        BY <1>5, <4>2
      <4>4. s[(i + 1) + 1] = v.fat[s[i + 1]]
        BY <1>3, <4>3
      <4>5. s[(i + 1) + 1] = g[i + 1] /\ g[i + 1] \in Cluster
        BY <2>3, <4>1, <4>2, <4>4
      <4>6. (i + 1) + 1 # Len(s)
        BY <1>2, <4>5
      <4> QED
        BY <1>3, <1>5, <4>3, <4>5, <4>6
    <3> QED
      BY <3>1
  <2> HIDE DEF S
  <2>6. k \in S
    BY <2>1, <2>4, <2>5, Every
  <2>7. k + 1 \in 1 .. Len(c) /\ s[k + 1] = g[k]
    BY <2>1, <2>6 DEF S
  <2> QED
    BY <1>5, <2>3, <2>7
<1> QED
  BY <1>6, <1>7, <1>9, <1>10 DEF IsChain

\* The conditions of SoundCard on the card
Kept(d) == Unshared(d) /\ Covered(d) /\ InUse(d) \ UNION {ClustersOf(d, p) : p \in FilesOn(d)} \subseteq Stray(View(d))

LEMMA SoundKeeps ==
    ASSUME NEW d, IsDisk(d), Sound(View(d))
    PROVE  Kept(d)
<1>1. PICK v : v = View(d)
  OBVIOUS
<1>2. IsView(v) /\ Linked(v)
  BY <1>1, ViewOfDisk DEF Sound
<1>3. /\ \A c \in Cluster : FatOf(d, c) = v.fat[c]
      /\ \A p \in Places : EntryAt(d, p) = v.ent[p]
  BY <1>1 DEF View
<1>4. FilesOn(d) = Files(v) /\ Files(v) \subseteq Places
  BY <1>3 DEF FilesOn, Files, EntryAt
<1>5. ASSUME NEW p \in Files(v)
      PROVE  /\ EntryAt(d, p) = v.ent[p] /\ v.ent[p].first \in {0} \cup Cluster /\ v.ent[p].size \in Nat
             /\ IsFirst(v, p, v.ent[p].first) /\ Long(v.fat, v.ent[p].first, v.ent[p].size)
             /\ IsChain(v, v.ent[p].first, Chain(d, EntryAt(d, p).first))
  <2>1. EntryAt(d, p) = v.ent[p] /\ v.ent[p] \in Entry
    BY <1>2, <1>3, <1>4 DEF IsView
  <2>2. v.ent[p].first \in {0} \cup Cluster /\ v.ent[p].size \in Nat
    BY <2>1 DEF Entry
  <2>3. IsFirst(v, p, v.ent[p].first) /\ Long(v.fat, v.ent[p].first, v.ent[p].size)
    BY <1>1 DEF Sound
  <2>4. IsChain(v, v.ent[p].first, Chain(d, v.ent[p].first))
    BY <1>1, <1>2, <2>2, <2>3, ChainOf
  <2> QED
    BY <2>1, <2>2, <2>3, <2>4
<1>6. Unshared(d)
  <2>1. \A b, c \in Cluster : FatOf(d, b) \in Cluster /\ FatOf(d, b) = FatOf(d, c) => b = c
    BY <1>2, <1>3 DEF Linked
  <2>2. ASSUME NEW p \in Files(v), NEW q \in Files(v), EntryAt(d, p).first \in Cluster
        PROVE  /\ EntryAt(d, p).first = EntryAt(d, q).first => p = q
               /\ \A c \in Cluster : FatOf(d, c) # EntryAt(d, p).first
    <3>1. IsFirst(v, p, v.ent[p].first) /\ v.ent[p].first # 0 /\ EntryAt(d, p) = v.ent[p] /\ EntryAt(d, q) = v.ent[q]
      BY <1>5, <2>2, LinkKinds
    <3> QED
      BY <1>3, <3>1 DEF IsFirst
  <2> QED
    BY <1>4, <2>1, <2>2 DEF Unshared
<1>7. Covered(d)
  <2>1. SUFFICES ASSUME NEW p \in Files(v), NEW e, e = EntryAt(d, p), NEW chain, chain = Chain(d, e.first)
                 PROVE  /\ Len(chain) * ClusterSize >= e.size
                        /\ e.first # 0 => chain # <<>> /\ IsEOC(FatOf(d, chain[Len(chain)]))
    BY <1>4 DEF Covered
  <2>2. IsChain(v, e.first, chain) /\ Long(v.fat, e.first, e.size) /\ e.size \in Nat
    BY <1>5, <2>1
  <2>3. chain \in Seq(Cluster) /\ Len(chain) \in Nat
    BY <2>2 DEF IsChain
  <2>4. Len(chain) * ClusterSize >= e.size
    <3>1. PICK w \in Nat \ {0} : w = ClusterSize
      BY SizeOfCluster
    <3>2. PICK n \in Nat : n = Len(chain)
      BY <2>3
    <3>3. CASE e.size = 0
      <4>1. n * w >= 0
        OBVIOUS
      <4> QED
        BY <3>1, <3>2, <3>3, <4>1
    <3>4. CASE e.size > 0
      <4>1. PICK c \in Cluster : Walk(v.fat, e.first, c, (e.size - 1) \div w)
        BY <2>2, <3>1, <3>4 DEF Long
      <4>2. ((e.size - 1) \div w) + 1 \in 1 .. n
        BY <2>2, <3>2, <4>1 DEF IsChain
      <4>3. PICK k \in Nat : n = k + 1
        <5>1. n - 1 \in Nat /\ n = (n - 1) + 1
          BY <4>2
        <5> QED
          BY <5>1
      <4>4. (e.size - 1) \div w \in Nat /\ (((e.size - 1) \div w <= k) <=> e.size <= (k + 1) * w)
        BY <2>2, <3>4, Room
      <4>5. (e.size - 1) \div w <= k
        BY <4>2, <4>3, <4>4
      <4>6. e.size <= n * w
        BY <4>3, <4>4, <4>5
      <4>7. n * w \in Nat
        OBVIOUS
      <4> QED
        BY <2>2, <3>1, <3>2, <4>6, <4>7
    <3> QED
      BY <2>2, <3>3, <3>4
  <2>5. ASSUME e.first # 0 PROVE chain # <<>> /\ IsEOC(FatOf(d, chain[Len(chain)]))
    <3>1. chain # <<>> /\ v.fat[chain[Len(chain)]] = EOC
      BY <2>2, <2>5 DEF IsChain
    <3>2. chain[Len(chain)] \in Cluster
      BY <2>3, <3>1
    <3> QED
      BY <1>3, <3>1, <3>2, LinkKinds
  <2> QED
    BY <2>4, <2>5
<1>8. InUse(d) \ UNION {ClustersOf(d, p) : p \in FilesOn(d)} \subseteq Stray(v)
  <2>1. InUse(d) = Used(v)
    BY <1>3 DEF InUse, Used
  <2>2. ASSUME NEW c \in Owned(v) PROVE c \in UNION {ClustersOf(d, p) : p \in FilesOn(d)}
    <3>1. PICK p \in Files(v) : c \in Reach(v, v.ent[p].first)
      BY <2>2 DEF Owned
    <3>2. PICK n : Walk(v.fat, v.ent[p].first, c, n)
      BY <3>1 DEF Reach
    <3>3. PICK chain : chain = Chain(d, EntryAt(d, p).first)
      OBVIOUS
    <3>4. n + 1 \in 1 .. Len(chain) /\ chain[n + 1] = c
      BY <1>5, <3>2, <3>3 DEF IsChain
    <3>5. c \in ClustersOf(d, p)
      BY <3>3, <3>4 DEF ClustersOf
    <3> QED
      BY <1>4, <3>5
  <2> QED
    BY <2>1, <2>2 DEF Stray
<1> QED
  BY <1>1, <1>6, <1>7, <1>8 DEF Kept

-----------------------------------------------------------------------------
(* The inductive invariant *)
\* What the log keeps between two calls, whatever has gone wrong: the card is sound,
\* and so is what the library sees of it, the cache included; the file is a good
\* one. At most n clusters (the faults so far) are lost already; while the card is in,
\* the loose and the lost ones are at most n too, with one more loose at the close:
\* the first cluster the new line may have started, which the close enters.
Shown(d, c) == View([d EXCEPT ![c.block] = c.data])
LogState(d, c, al, f, a, p, n) ==
    /\ IsDisk(d) /\ Sound(View(d))
    /\ al \in 2 .. ClusterCount + 2
    /\ a # "begin" => CacheOK(d, c) /\ Sound(Shown(d, c)) /\ Grows(View(d), Shown(d, c))
    /\ a \in {"begin", "open"} => f = Closed
    /\ a \in {"print", "close"} => FileOK(f, Shown(d, c))
    /\ a = "begin" \/ p => Cardinality(Stray(View(d))) <= n
    /\ a \in {"open", "print"} /\ ~p => Cardinality(Used(Shown(d, c)) \ Owned(View(d))) <= n
    /\ a \in {"print", "close"} /\ ~p =>
         Cardinality(Used(Shown(d, c)) \ (Owned(Shown(d, c)) \cup Reach(Shown(d, c), f.first))) <= n
    /\ a = "close" /\ ~p => Cardinality(Used(Shown(d, c)) \ Owned(View(d))) <= n + 1

Counters ==
    /\ at \in {"begin", "open", "print", "close"}
    /\ SDwrite \in BOOLEAN /\ pulled \in BOOLEAN /\ glitched \in BOOLEAN
    /\ line \in 1 .. MaxLines + 1 /\ (at # "begin" => line <= MaxLines)
    /\ faults \in 0 .. MaxFaults

LogInv == Counters /\ LogState(disk, cache, alloc, file, at, pulled, faults)

-----------------------------------------------------------------------------
(* The faults of a call *)
Cuts(bad, took) == \E k \in Nat : bad = k .. MaxTransfers /\ (took = {} \/ k = MaxTransfers)

\* The faults that a call may meet
FaultOK(bad, took) ==
    /\ bad \subseteq 1 .. MaxTransfers
    /\ pulled => bad = 1 .. MaxTransfers /\ took = {}
    /\ ~pulled /\ bad # {} => faults < MaxFaults
    /\ bad # {} /\ (MaxTransfers \in bad \/ Cardinality(bad) # 1) => Cuts(bad, took)
    /\ bad # {} /\ MaxTransfers \notin bad => \E k : bad = {k}

\* Their number
LEMMA FromTo ==
    ASSUME NEW k \in 1 .. MaxTransfers
    PROVE  Cardinality(k .. MaxTransfers) = MaxTransfers - k + 1 /\ Cardinality({k}) = 1
<1>1. k \in Int /\ MaxTransfers \in Int /\ ~(k > MaxTransfers)
  BY LogAssumption
<1>2. Cardinality(k .. MaxTransfers) = IF k > MaxTransfers THEN 0 ELSE MaxTransfers - k + 1
  BY <1>1, FS_Interval
<1> QED
  BY <1>1, <1>2, FS_Singleton

\* Bad and Took name only those.
LEMMA FaultKind ==
    ASSUME Counters, NEW bad \in Bad, NEW took \in Took(bad)
    PROVE  FaultOK(bad, took)
<1>0. MaxTransfers \in Nat /\ MaxTransfers > 2 /\ All = 1 .. MaxTransfers
  BY LogAssumption DEF All
<1>1. CASE pulled
  <2>1. bad = 1 .. MaxTransfers
    BY <1>0, <1>1 DEF Bad
  <2>2. Cardinality(bad) = MaxTransfers
    <3>1. 1 \in 1 .. MaxTransfers
      BY <1>0
    <3>2. Cardinality(1 .. MaxTransfers) = MaxTransfers - 1 + 1
      BY <3>1, FromTo
    <3> QED
      BY <1>0, <2>1, <3>2
  <2>3. took = {}
    BY <1>0, <2>2 DEF Took
  <2>4. Cuts(bad, took)
    BY <2>1, <2>3 DEF Cuts
  <2>5. MaxTransfers \in bad
    BY <1>0, <2>1
  <2> QED
    BY <1>1, <2>1, <2>3, <2>4, <2>5 DEF FaultOK
<1>2. CASE ~pulled
  <2>1. \/ bad = {}
        \/ faults # MaxFaults /\ \E k \in All : bad = {k}
        \/ faults # MaxFaults /\ \E k \in All : bad = k .. MaxTransfers
    BY <1>2 DEF Bad
  <2>2. faults # MaxFaults => faults < MaxFaults
    BY LogAssumption DEF Counters
  <2>3. CASE bad = {}
    BY <1>2, <2>3 DEF FaultOK
  <2>4. ASSUME faults # MaxFaults, NEW k \in All, bad = {k} PROVE FaultOK(bad, took)
    <3>1. k \in 1 .. MaxTransfers /\ Cardinality(bad) = 1
      BY <1>0, <2>4, FromTo
    <3>2. ASSUME k = MaxTransfers PROVE Cuts(bad, took)
      <4>1. bad = MaxTransfers .. MaxTransfers
        BY <1>0, <2>4, <3>2
      <4> QED
        BY <1>0, <4>1 DEF Cuts
    <3> QED
      BY <1>2, <2>2, <2>4, <3>1, <3>2 DEF FaultOK
  <2>5. ASSUME faults # MaxFaults, NEW k \in All, bad = k .. MaxTransfers PROVE FaultOK(bad, took)
    <3>1. k \in 1 .. MaxTransfers /\ Cardinality(bad) = MaxTransfers - k + 1
      BY <1>0, <2>5, FromTo
    <3>2. took = {} \/ k = MaxTransfers
      <4>1. CASE k = MaxTransfers
        BY <4>1
      <4>2. CASE k # MaxTransfers
        <5>1. Cardinality(bad) # 1
          BY <1>0, <3>1, <4>2
        <5> QED
          BY <5>1 DEF Took
      <4> QED
        BY <4>1, <4>2
    <3>3. Cuts(bad, took) /\ MaxTransfers \in bad /\ bad \subseteq 1 .. MaxTransfers
      <4>1. k \in Nat
        BY <3>1
      <4>2. Cuts(bad, took)
        BY <2>5, <3>2, <4>1 DEF Cuts
      <4> QED
        BY <1>0, <2>5, <3>1, <4>2
    <3> QED
      BY <1>2, <2>2, <2>5, <3>3 DEF FaultOK
  <2> QED
    BY <2>1, <2>3, <2>4, <2>5
<1> QED
  BY <1>1, <1>2 DEF Counters

-----------------------------------------------------------------------------
(* A call *)
Called(m) ==
    /\ Shape(m) /\ m.ok = TRUE /\ m.n = 1 /\ m.file = file /\ m.dir = Root /\ m.alloc = alloc
    /\ m.disk = disk /\ m.cache = cache /\ Lasting(m) = View(disk) /\ Latest(m) = Shown(disk, cache)

LEMMA MachineCalled ==
    ASSUME NEW bad, NEW took, NEW m, m = Machine(bad, took)
    PROVE  Called(m) /\ m.bad = bad /\ m.took = took
BY DEF Machine, Called, Shape, Lasting, Latest, Shown

\* Between two calls the machine is a safe one.
LEMMA CalledSafe ==
    ASSUME LogInv, at # "begin", NEW m, Called(m)
    PROVE  Safe(m) /\ m.ok /\ m.n \in Nat /\ Alloc(m)
<1>1. Mach(m)
  <2>0. m.ok = TRUE /\ m.n = 1 /\ Shape(m)
    BY DEF Called
  <2>1. m.ok \in BOOLEAN /\ m.n \in Nat /\ Shape(m)
    <3>1. m.ok \in BOOLEAN
      BY <2>0
    <3> QED
      BY <2>0, <3>1
  <2>2. IsDisk(m.disk) /\ CacheOK(m.disk, m.cache)
    BY DEF Called, LogInv, LogState
  <2> QED
    BY <2>1, <2>2 DEF Mach
<1>2. Sound(Lasting(m)) /\ Sound(Latest(m)) /\ Grows(Lasting(m), Latest(m)) /\ Alloc(m)
  BY DEF Called, LogInv, LogState, Alloc
<1>3. m.ok /\ m.n \in Nat
  BY DEF Called
<1> QED
  BY <1>1, <1>2, <1>3 DEF Safe

\* Without the card nothing changes on it.
LEMMA OutOfReach ==
    ASSUME NEW m, NEW w, Run(m, w), m.n = 1, m.bad = 1 .. MaxTransfers, m.took = {}, w.n <= MaxTransfers + 1
    PROVE  Lasting(w) = Lasting(m)
<1>1. w.n \in Nat /\ ((\A k \in m.n .. w.n - 1 : k \in m.bad \ m.took) => Lasting(w) = Lasting(m))
  BY DEF Run, Course
<1>2. MaxTransfers \in Nat
  BY LogAssumption
<1>3. \A k \in m.n .. w.n - 1 : k \in m.bad \ m.took
  BY <1>1, <1>2
<1> QED
  BY <1>1, <1>3

\* A call that takes no cluster loses none.
LEMMA RunLoose ==
    ASSUME NEW m, NEW w, Run(m, w), Used(Latest(w)) = Used(Latest(m))
    PROVE  /\ Loose(w) \subseteq Loose(m) /\ Stray(Lasting(w)) \subseteq Loose(m) /\ Lost(w) \subseteq Loose(m)
           /\ Cardinality(Loose(w)) \in Nat /\ Cardinality(Loose(m)) \in Nat /\ Cardinality(Stray(Lasting(w))) \in Nat /\ Cardinality(Lost(w)) \in Nat
           /\ Cardinality(Loose(w)) <= Cardinality(Loose(m)) /\ Cardinality(Stray(Lasting(w))) <= Cardinality(Loose(m))
           /\ Cardinality(Lost(w)) <= Cardinality(Loose(m))
<1>1. Loose(w) \subseteq Loose(m)
  <2>1. Used(Latest(w)) \subseteq Used(Latest(m)) \cup {}
    OBVIOUS
  <2>2. Loose(w) \subseteq Loose(m) \cup {}
    BY <2>1, LooseBound
  <2> QED
    BY <2>2
<1>2. Safe(w)
  BY DEF Run
<1>3. Stray(Lasting(w)) \subseteq Loose(w)
  BY <1>2, StrayBound
<1>4. Lost(w) \subseteq Loose(w)
  <2>1. Owned(Lasting(w)) \subseteq Owned(Latest(w))
    BY <1>2, GrowsOwned DEF Safe
  <2> QED
    BY <2>1 DEF Lost, Loose
<1>5. Stray(Lasting(w)) \subseteq Loose(m) /\ Lost(w) \subseteq Loose(m)
  BY <1>1, <1>3, <1>4
<1> QED
  BY <1>1, <1>5, InClusters, Few

LEMMA NoneInCluster == \A v : Stray(v) \subseteq Cluster
BY DEF Stray, Used

\* The state after a call.
After(m, next) ==
    LogState(m.disk, m.cache, m.alloc, m.file, next, next # "begin" /\ (pulled \/ MaxTransfers \in m.bad),
             IF m.bad # {} /\ ~pulled THEN faults + 1 ELSE faults)

\* A call that returns, and one the power fails in
LEMMA Returned ==
    ASSUME Counters, line <= MaxLines, NEW m, FaultOK(m.bad, m.took),
           NEW next \in {"begin", "open", "print", "close"}, Return(m, next), SDwrite' \in BOOLEAN, After(m, next)
    PROVE  LogInv'
<1>1. /\ disk' = m.disk /\ cache' = m.cache /\ alloc' = m.alloc /\ file' = m.file /\ at' = next
      /\ pulled' = (next # "begin" /\ (pulled \/ MaxTransfers \in m.bad))
      /\ glitched' = (next # "begin" /\ (glitched \/ Cardinality(m.bad) = 1))
      /\ faults' = IF m.bad # {} /\ ~pulled THEN faults + 1 ELSE faults
      /\ line' = IF next = "begin" THEN line + 1 ELSE line
  BY DEF Return
<1>2. pulled' \in BOOLEAN /\ glitched' \in BOOLEAN
  BY <1>1
<1>3. MaxLines \in Nat /\ MaxFaults \in Nat /\ line \in 1 .. MaxLines + 1 /\ faults \in 0 .. MaxFaults
  BY LogAssumption DEF Counters
<1>4. faults' \in 0 .. MaxFaults
  BY <1>1, <1>3 DEF FaultOK
<1>5. line' \in 1 .. MaxLines + 1 /\ (at' # "begin" => line' <= MaxLines)
  BY <1>1, <1>3
<1>6. Counters'
  BY <1>1, <1>2, <1>4, <1>5 DEF Counters
<1>7. LogState(disk, cache, alloc, file, at, pulled, faults)'
  BY <1>1 DEF After
<1> QED
  BY <1>6, <1>7 DEF LogInv

LEMMA PowerFailed ==
    ASSUME Counters, line <= MaxLines, NEW m, PowerFails(m), IsDisk(m.disk), Sound(Lasting(m)), Cardinality(Stray(Lasting(m))) <= faults + 1
    PROVE  LogInv'
<1>1. /\ disk' = m.disk /\ cache' = NoCache /\ alloc' = 2 /\ file' = Closed /\ SDwrite' = FALSE /\ at' = "begin"
      /\ pulled' = FALSE /\ glitched' = FALSE /\ line' = line + 1 /\ faults' = faults + 1 /\ faults < MaxFaults
  BY DEF PowerFails
<1>2. MaxLines \in Nat /\ MaxFaults \in Nat /\ line \in 1 .. MaxLines + 1 /\ faults \in 0 .. MaxFaults /\ ClusterCount \in Nat
  BY LogAssumption, FatAssumption DEF Counters
<1>3. faults' \in 0 .. MaxFaults /\ line' \in 1 .. MaxLines + 1 /\ 2 \in 2 .. ClusterCount + 2
  BY <1>1, <1>2
<1>4. Counters'
  BY <1>1, <1>3 DEF Counters
<1>5. LogState(m.disk, NoCache, 2, Closed, "begin", FALSE, faults + 1)
  BY <1>3 DEF LogState, Lasting
<1>6. LogState(disk, cache, alloc, file, at, pulled, faults)'
  BY <1>1, <1>5
<1> QED
  BY <1>4, <1>6 DEF LogInv

\* Begin forgets what waited in the cache: the card is as sound as it was.
LEMMA BeginKeeps == ASSUME LogInv, Begin PROVE LogInv'
<1>1. at = "begin" /\ line <= MaxLines /\ Counters /\ LogState(disk, cache, alloc, file, at, pulled, faults)
  BY DEF Begin, LogInv
<1>2. IsDisk(disk) /\ Sound(View(disk)) /\ file = Closed /\ Cardinality(Stray(View(disk))) <= faults
  BY <1>1 DEF LogState
<1>a. PICK bad \in Bad : \E took \in Took(bad) : LET m == VolumeInit(Machine(bad, took)) IN
        \/ Return(m, IF m.ok THEN "open" ELSE "begin") /\ SDwrite' = (m.ok /\ SDwrite)
        \/ PowerFails(m)
  BY DEF Begin
<1>b. PICK took \in Took(bad) : LET m == VolumeInit(Machine(bad, took)) IN
        \/ Return(m, IF m.ok THEN "open" ELSE "begin") /\ SDwrite' = (m.ok /\ SDwrite)
        \/ PowerFails(m)
  BY <1>a
<1>c. PICK m0 : m0 = Machine(bad, took)
  OBVIOUS
<1>d. PICK m : m = VolumeInit(m0)
  OBVIOUS
<1>3. /\ m0 = Machine(bad, took) /\ m = VolumeInit(m0)
      /\ \/ Return(m, IF m.ok THEN "open" ELSE "begin") /\ SDwrite' = (m.ok /\ SDwrite)
         \/ PowerFails(m)
  BY <1>b, <1>c, <1>d
<1>4. Called(m0) /\ m0.bad = bad /\ m0.took = took
  BY <1>3, MachineCalled
<1>5. Starts(m0, m)
  <2>1. Shape(m0) /\ m0.ok = TRUE /\ m0.n \in Nat /\ IsDisk(m0.disk) /\ Sound(Lasting(m0))
    BY <1>2, <1>4 DEF Called
  <2> QED
    BY <1>3, <2>1, VolumeStarts
<1>6. /\ Safe(m) /\ m.bad = bad /\ m.took = took /\ m.file = Closed /\ m.disk = disk /\ Lasting(m) = View(disk) /\ Latest(m) = View(disk)
      /\ m.alloc = 2 /\ m.ok \in BOOLEAN
  BY <1>2, <1>4, <1>5 DEF Starts, Called
<1>7. FaultOK(m.bad, m.took)
  BY <1>1, <1>3, <1>6, FaultKind
<1>8. faults \in Nat /\ Cardinality(Stray(View(disk))) \in Nat /\ 2 \in 2 .. ClusterCount + 2
  BY <1>1, LogAssumption, FatAssumption, NoneInCluster, Few DEF Counters
<1>9. CASE PowerFails(m)
  BY <1>1, <1>2, <1>6, <1>8, <1>9, PowerFailed
<1>10. CASE Return(m, IF m.ok THEN "open" ELSE "begin") /\ SDwrite' = (m.ok /\ SDwrite)
  <2>1. PICK next \in {"open", "begin"} : next = IF m.ok THEN "open" ELSE "begin"
    OBVIOUS
  <2>2. PICK n : n = IF m.bad # {} /\ ~pulled THEN faults + 1 ELSE faults
    OBVIOUS
  <2>3. Cardinality(Stray(View(disk))) <= n
    BY <1>2, <1>8, <2>2
  <2>4. Shown(m.disk, m.cache) = View(disk)
    BY <1>6 DEF Latest, Shown
  <2>5. CacheOK(m.disk, m.cache) /\ Grows(View(disk), View(disk))
    BY <1>6, GrowsSelf DEF Safe, Mach
  <2>6. After(m, next)
    BY <1>2, <1>6, <1>8, <2>1, <2>2, <2>3, <2>4, <2>5 DEF After, LogState, Stray
  <2>7. SDwrite' \in BOOLEAN
    BY <1>10
  <2> QED
    BY <1>1, <1>7, <1>10, <2>1, <2>6, <2>7, Returned
<1> QED
  BY <1>3, <1>9, <1>10

LEMMA NoCardKeeps == ASSUME LogInv, NoCard PROVE LogInv'
<1>1. at = "begin" /\ line <= MaxLines /\ Counters /\ LogState(disk, cache, alloc, file, at, pulled, faults)
  BY DEF NoCard, LogInv
<1>2. /\ disk' = disk /\ cache' = cache /\ alloc' = alloc /\ file' = file /\ at' = at /\ pulled' = pulled /\ glitched' = glitched
      /\ faults' = faults /\ line' = line + 1 /\ SDwrite' = FALSE
  BY DEF NoCard
<1>3. LogState(disk, cache, alloc, file, at, pulled, faults)'
  BY <1>1, <1>2
<1>4. line' \in 1 .. MaxLines + 1
  BY <1>1, <1>2, LogAssumption DEF Counters
<1>5. Counters'
  BY <1>1, <1>2, <1>4 DEF Counters
<1> QED
  BY <1>3, <1>5 DEF LogInv

\* Without the card nothing more gets lost.
LEMMA PulledStray ==
    ASSUME LogInv, at # "begin", pulled, NEW m, NEW w, Called(m), FaultOK(m.bad, m.took), Run(m, w), w.n <= MaxTransfers + 1
    PROVE  Cardinality(Stray(Lasting(w))) <= faults
<1>1. m.bad = 1 .. MaxTransfers /\ m.took = {} /\ m.n = 1 /\ Lasting(m) = View(disk)
  BY DEF FaultOK, Called
<1>2. Lasting(w) = View(disk)
  BY <1>1, OutOfReach
<1> QED
  BY <1>2 DEF LogInv, LogState, Stray

\* What a call leaves behind when it returns or the power fails in it
Outcome(next, m) ==
    /\ IsDisk(m.disk) /\ Sound(Lasting(m)) /\ Safe(m) /\ m.alloc \in 2 .. ClusterCount + 2
    /\ next \in {"begin", "open"} => m.file = Closed
    /\ next \in {"print", "close"} => FileOK(m.file, Latest(m))

\* What there is to show of the state after a call
LEMMA SafeAfter ==
    ASSUME NEW m, NEW next \in {"begin", "open", "print", "close"}, Outcome(next, m),
           NEW n, n = (IF m.bad # {} /\ ~pulled THEN faults + 1 ELSE faults),
           NEW p, p = (next # "begin" /\ (pulled \/ MaxTransfers \in m.bad)),
           next = "begin" \/ p => Cardinality(Stray(Lasting(m))) <= n,
           next \in {"open", "print"} /\ ~p => Cardinality(Loose(m)) <= n,
           next \in {"print", "close"} /\ ~p => Cardinality(Lost(m)) <= n,
           next = "close" /\ ~p => Cardinality(Loose(m)) <= n + 1
    PROVE  After(m, next)
<1>1. Shown(m.disk, m.cache) = Latest(m) /\ View(m.disk) = Lasting(m) /\ CacheOK(m.disk, m.cache) /\ Sound(Latest(m)) /\ Grows(Lasting(m), Latest(m))
  BY DEF Shown, Latest, Lasting, Outcome, Safe, Mach
<1>2. LogState(m.disk, m.cache, m.alloc, m.file, next, p, n)
  BY <1>1 DEF LogState, Outcome, Loose, Lost
<1> QED
  BY <1>2 DEF After

\* Opening costs no cluster.
LEMMA OpenAfter ==
    ASSUME LogInv, at = "open", NEW m, NEW w, Called(m), FaultOK(m.bad, m.took), IsOpened(m, w), w.n <= MaxTransfers + 1,
           NEW next, next = IF w.ok THEN "print" ELSE "begin"
    PROVE  /\ Outcome(next, w) /\ After(w, next)
           /\ Cardinality(Stray(Lasting(w))) \in Nat /\ Cardinality(Stray(Lasting(w))) <= faults
<1>1. Safe(m) /\ Alloc(m) /\ m.n \in Nat
  BY CalledSafe
<1>2. Run(m, w) /\ Safe(w) /\ w.alloc = m.alloc /\ Used(Latest(w)) = Used(Latest(m)) /\ w.ok \in BOOLEAN
      /\ (w.ok => FileOK(w.file, Latest(w))) /\ (~w.ok => w.file = Closed)
  BY DEF IsOpened
<1>3. Outcome(next, w)
  BY <1>1, <1>2 DEF Outcome, Safe, Mach, Alloc
<1>4. /\ Cardinality(Loose(w)) \in Nat /\ Cardinality(Loose(m)) \in Nat /\ Cardinality(Stray(Lasting(w))) \in Nat /\ Cardinality(Lost(w)) \in Nat
      /\ Cardinality(Loose(w)) <= Cardinality(Loose(m)) /\ Cardinality(Stray(Lasting(w))) <= Cardinality(Loose(m))
      /\ Cardinality(Lost(w)) <= Cardinality(Loose(m))
  BY <1>2, RunLoose
<1>5. faults \in Nat /\ pulled \in BOOLEAN /\ LogState(disk, cache, alloc, file, at, pulled, faults)
  BY LogAssumption DEF LogInv, Counters
<1>6. ~pulled => Cardinality(Loose(m)) <= faults
  BY <1>5 DEF LogState, Loose, Called
<1>7. Cardinality(Stray(Lasting(w))) <= faults
  <2>1. CASE pulled
    BY <1>2, <2>1, PulledStray
  <2>2. CASE ~pulled
    BY <1>4, <1>5, <1>6, <2>2
  <2> QED
    BY <2>1, <2>2, <1>5
<1>8. PICK n : n = IF w.bad # {} /\ ~pulled THEN faults + 1 ELSE faults
  OBVIOUS
<1>9. PICK p : p = (next # "begin" /\ (pulled \/ MaxTransfers \in w.bad))
  OBVIOUS
<1>10. n \in Nat /\ faults <= n
  BY <1>5, <1>8
<1>11. Cardinality(Stray(Lasting(w))) <= n
  BY <1>4, <1>5, <1>7, <1>10
<1>12. next # "begin" /\ ~p => Cardinality(Loose(w)) <= n /\ Cardinality(Lost(w)) <= n
  <2>1. ASSUME ~pulled PROVE Cardinality(Loose(w)) <= n /\ Cardinality(Lost(w)) <= n
    BY <1>4, <1>5, <1>6, <1>10, <2>1
  <2> QED
    BY <1>9, <2>1
<1>13. next \in {"print", "begin"}
  OBVIOUS
<1>14. After(w, next)
  BY <1>3, <1>8, <1>9, <1>11, <1>12, <1>13, SafeAfter
<1> QED
  BY <1>3, <1>4, <1>7, <1>14

LEMMA OpenLogKeeps == ASSUME LogInv, OpenLog PROVE LogInv'
<1>1. at = "open" /\ line <= MaxLines /\ Counters
  BY DEF OpenLog, LogInv, Counters
<1>a. PICK bad \in Bad : \E took \in Took(bad) : LET m == Open(Machine(bad, took), DataLog, {"creat", "append", "write"}) IN
         \/ Return(m, IF m.ok THEN "print" ELSE "begin") /\ UNCHANGED SDwrite
         \/ PowerFails(m)
  BY DEF OpenLog
<1>b. PICK took \in Took(bad) : LET m == Open(Machine(bad, took), DataLog, {"creat", "append", "write"}) IN
         \/ Return(m, IF m.ok THEN "print" ELSE "begin") /\ UNCHANGED SDwrite
         \/ PowerFails(m)
  BY <1>a
<1>c. PICK m : m = Machine(bad, took)
  OBVIOUS
<1>d. PICK w : w = Open(m, DataLog, LogFlags)
  OBVIOUS
<1>e. PICK next : next = IF w.ok THEN "print" ELSE "begin"
  OBVIOUS
<1>3. (Return(w, next) /\ UNCHANGED SDwrite) \/ PowerFails(w)
  BY <1>b, <1>c, <1>d, <1>e DEF LogFlags
<1>4. Called(m) /\ m.bad = bad /\ m.took = took
  BY <1>c, MachineCalled
<1>5. FaultOK(m.bad, m.took)
  BY <1>1, <1>4, FaultKind
<1>6. IsOpened(m, w)
  <2>1. Safe(m) /\ m.ok
    BY <1>1, <1>4, CalledSafe
  <2>2. m.file = Closed /\ m.dir = Root
    BY <1>1, <1>4 DEF Called, LogInv, LogState
  <2>3. DataLog \in Names
    BY LogAssumption
  <2> QED
    BY <1>d, <2>1, <2>2, <2>3, OpenRuns
<1>7. w.bad = m.bad /\ w.took = m.took /\ w.n <= MaxTransfers + 1
  BY <1>3, <1>6 DEF IsOpened, Run, Return, PowerFails
<1>8. Outcome(next, w) /\ After(w, next) /\ Cardinality(Stray(Lasting(w))) \in Nat /\ Cardinality(Stray(Lasting(w))) <= faults
  BY <1>1, <1>4, <1>5, <1>6, <1>7, <1>e, OpenAfter
<1>9. FaultOK(w.bad, w.took) /\ next \in {"begin", "open", "print", "close"}
  BY <1>5, <1>7, <1>e
<1>10. CASE Return(w, next) /\ UNCHANGED SDwrite
  <2>1. SDwrite' \in BOOLEAN
    BY <1>1, <1>10 DEF Counters
  <2> QED
    BY <1>1, <1>8, <1>9, <1>10, <2>1, Returned
<1>11. CASE PowerFails(w)
  <2>1. Cardinality(Stray(Lasting(w))) <= faults + 1
    BY <1>1, <1>8, LogAssumption DEF Counters
  <2> QED
    BY <1>1, <1>8, <1>11, <2>1, PowerFailed DEF Outcome
<1> QED
  BY <1>3, <1>10, <1>11

\* What the faults of a line cost, if the card was in when it began
LEMMA LineCosts ==
    ASSUME NEW m, NEW w, Printed(m, faults, LineLength, w), FaultOK(m.bad, m.took), faults \in Nat,
           w.n <= MaxTransfers + 1,
           NEW n, n = (IF m.bad # {} THEN faults + 1 ELSE faults)
    PROVE  /\ (m.bad # {} => ~Clean(w)) /\ MaxTransfers \in m.bad => Cardinality(Stray(Lasting(w))) <= n
           /\ (m.bad # {} => ~Clean(w)) /\ MaxTransfers \notin m.bad =>
                Cardinality(Lost(w)) <= n /\ Cardinality(Loose(w)) <= n + 1
           /\ Cardinality(m.bad) # 1 => Cardinality(Stray(Lasting(w))) <= faults + 1
<1>1. /\ Run(m, w) /\ Safe(w) /\ (Clean(w) => Counts(w, faults, LineLength))
      /\ (\E k : m.bad = {k}) => Counts(w, faults, LineLength) \/ (~Clean(w) /\ Counts(w, faults + 1, LineLength))
      /\ ~Clean(w) /\ Ending(m) /\ w.n <= MaxTransfers + 1 => Cardinality(Stray(Lasting(w))) <= faults + 1
  BY DEF Printed
<1>2. Cardinality(Lost(w)) \in Nat /\ Cardinality(Loose(w)) \in Nat /\ Cardinality(Stray(Lasting(w))) \in Nat
      /\ Cardinality(Stray(Lasting(w))) <= Cardinality(Loose(w))
  BY <1>1, StrayBound, InClusters, NoneInCluster, Few
<1>3. m.bad # {} /\ (MaxTransfers \in m.bad \/ Cardinality(m.bad) # 1) => Ending(m)
  BY DEF FaultOK, Cuts, Ending
<1>4. m.bad # {} /\ MaxTransfers \notin m.bad => \E k : m.bad = {k}
  BY DEF FaultOK
<1>5. ASSUME NEW F \in Nat, Counts(w, F, LineLength) PROVE Cardinality(Lost(w)) <= F /\ Cardinality(Loose(w)) <= F + 1
  BY <1>2, <1>5 DEF Counts
<1>6. ASSUME m.bad = {} PROVE Counts(w, faults, LineLength)
  <2>1. w.bad = {}
    BY <1>1, <1>6 DEF Run
  <2>2. Clean(w)
    BY <2>1 DEF Clean
  <2> QED
    BY <1>1, <2>2
<1>7. n \in Nat /\ faults + 1 \in Nat
  OBVIOUS
<1>8. ASSUME Cardinality(m.bad) # 1 PROVE Cardinality(Stray(Lasting(w))) <= faults + 1
  <2>1. CASE Clean(w)
    BY <1>1, <1>2, <1>5, <2>1
  <2>2. CASE ~Clean(w)
    <3>1. CASE m.bad = {}
      BY <1>2, <1>5, <1>6, <3>1
    <3>2. CASE m.bad # {}
      BY <1>1, <1>3, <1>8, <2>2, <3>2
    <3> QED
      BY <3>1, <3>2
  <2> QED
    BY <2>1, <2>2
<1>9. ASSUME m.bad # {} => ~Clean(w), MaxTransfers \in m.bad PROVE Cardinality(Stray(Lasting(w))) <= n
  BY <1>1, <1>3, <1>9
<1>10. ASSUME m.bad # {} => ~Clean(w), MaxTransfers \notin m.bad
       PROVE  Cardinality(Lost(w)) <= n /\ Cardinality(Loose(w)) <= n + 1
  <2>1. CASE m.bad = {}
    BY <1>5, <1>6, <2>1
  <2>2. CASE m.bad # {}
    <3>1. Counts(w, faults, LineLength) \/ Counts(w, faults + 1, LineLength)
      BY <1>1, <1>4, <1>10, <2>2
    <3>2. Cardinality(Lost(w)) <= faults + 1 /\ Cardinality(Loose(w)) <= faults + 1 + 1
      BY <1>2, <1>5, <1>7, <3>1
    <3> QED
      BY <1>2, <2>2, <3>2
  <2> QED
    BY <2>1, <2>2
<1> QED
  BY <1>8, <1>9, <1>10

\* The line costs what its faults do.
LEMMA PrintAfter ==
    ASSUME LogInv, at = "print", NEW m, NEW w, Called(m), FaultOK(m.bad, m.took), w = PrintLine(m), w.n <= MaxTransfers + 1
    PROVE  /\ w.bad = m.bad /\ w.took = m.took /\ Outcome("close", w)
           /\ (w.bad # {} => \E k \in w.bad : k < w.n) => After(w, "close")
           /\ Cardinality(w.bad) # 1 => Cardinality(Stray(Lasting(w))) <= faults + 1
<1>1. Safe(m) /\ Alloc(m) /\ m.n = 1
  BY CalledSafe DEF Called
<1>2. faults \in Nat /\ pulled \in BOOLEAN /\ LogState(disk, cache, alloc, file, at, pulled, faults)
  BY LogAssumption DEF LogInv, Counters
<1>3. FileOK(m.file, Latest(m))
  BY <1>2 DEF LogState, Called
<1>4. m.bad \subseteq 1 .. MaxTransfers /\ MaxTransfers \in Nat
  BY LogAssumption DEF FaultOK
<1>5. m.bad \subseteq Nat /\ Clean(m)
  BY <1>1, <1>4 DEF Clean
<1>6. Cardinality(Lost(m)) \in Nat /\ Cardinality(Loose(m)) \in Nat
  BY InClusters, Few
<1>7. ASSUME NEW fl \in Nat, Cardinality(Lost(m)) <= fl, Cardinality(Loose(m)) <= fl PROVE Printed(m, fl, LineLength, w)
  BY <1>1, <1>3, <1>5, <1>7, LinePrinted
<1>8. Run(m, w) /\ Safe(w) /\ FileOK(w.file, Latest(w)) /\ Alloc(w)
  <2>1. PICK fl \in Nat : fl = Cardinality(Lost(m)) + Cardinality(Loose(m))
    BY <1>6
  <2>2. Printed(m, fl, LineLength, w)
    BY <1>6, <1>7, <2>1
  <2> QED
    BY <2>2 DEF Printed
<1>9. w.bad = m.bad /\ w.took = m.took
  BY <1>8 DEF Run
<1>10. Outcome("close", w)
  BY <1>8 DEF Outcome, Safe, Mach, Alloc
<1>11. PICK n : n = IF w.bad # {} /\ ~pulled THEN faults + 1 ELSE faults
  OBVIOUS
<1>12. PICK p : p = ("close" # "begin" /\ (pulled \/ MaxTransfers \in w.bad))
  OBVIOUS
<1>13. CASE pulled
  <2>1. Cardinality(Stray(Lasting(w))) \in Nat /\ Cardinality(Stray(Lasting(w))) <= faults
    BY <1>8, <1>13, PulledStray, NoneInCluster, Few
  <2>2. n = faults /\ p
    BY <1>11, <1>12, <1>13
  <2>3. After(w, "close")
    BY <1>10, <1>11, <1>12, <2>1, <2>2, SafeAfter
  <2> QED
    BY <1>2, <1>9, <1>10, <2>1, <2>3
<1>14. CASE ~pulled
  <2>1. Cardinality(Lost(m)) <= faults /\ Cardinality(Loose(m)) <= faults
    BY <1>2, <1>14 DEF LogState, Loose, Lost, Called
  <2>2. Printed(m, faults, LineLength, w)
    BY <1>2, <1>7, <2>1
  <2>3. n = IF m.bad # {} THEN faults + 1 ELSE faults
    BY <1>9, <1>11, <1>14
  <2>4. /\ (m.bad # {} => ~Clean(w)) /\ MaxTransfers \in m.bad => Cardinality(Stray(Lasting(w))) <= n
        /\ (m.bad # {} => ~Clean(w)) /\ MaxTransfers \notin m.bad => Cardinality(Lost(w)) <= n /\ Cardinality(Loose(w)) <= n + 1
        /\ Cardinality(m.bad) # 1 => Cardinality(Stray(Lasting(w))) <= faults + 1
    BY <1>2, <2>2, <2>3, LineCosts
  <2>5. ASSUME w.bad # {} => \E k \in w.bad : k < w.n PROVE After(w, "close")
    <3>1. m.bad # {} => ~Clean(w)
      <4>1. ASSUME m.bad # {}, Clean(w) PROVE FALSE
        <5>1. PICK k \in w.bad : k < w.n
          BY <1>9, <2>5, <4>1
        <5>2. w.n <= k
          BY <4>1 DEF Clean
        <5>3. k \in Int /\ w.n \in Int
          BY <1>5, <1>8, <1>9 DEF Safe, Mach
        <5> QED
          BY <5>1, <5>2, <5>3
      <4> QED
        BY <4>1
    <3>2. p => Cardinality(Stray(Lasting(w))) <= n
      BY <1>9, <1>12, <1>14, <2>4, <3>1
    <3>3. ~p => Cardinality(Lost(w)) <= n /\ Cardinality(Loose(w)) <= n + 1
      BY <1>9, <1>12, <1>14, <2>4, <3>1
    <3> QED
      BY <1>10, <1>11, <1>12, <3>2, <3>3, SafeAfter
  <2> QED
    BY <1>9, <1>10, <2>4, <2>5
<1> QED
  BY <1>2, <1>13, <1>14

LEMMA PrintTheLineKeeps == ASSUME LogInv, PrintTheLine PROVE LogInv'
<1>1. at = "print" /\ line <= MaxLines /\ Counters
  BY DEF PrintTheLine, LogInv, Counters
<1>a. PICK bad \in Bad : \E took \in Took(bad) : LET m == PrintLine(Machine(bad, took)) IN
         (Return(m, "close") /\ SDwrite' = TRUE) \/ PowerFails(m)
  BY DEF PrintTheLine
<1>b. PICK took \in Took(bad) : LET m == PrintLine(Machine(bad, took)) IN
         (Return(m, "close") /\ SDwrite' = TRUE) \/ PowerFails(m)
  BY <1>a
<1>c. PICK m : m = Machine(bad, took)
  OBVIOUS
<1>d. PICK w : w = PrintLine(m)
  OBVIOUS
<1>3. (Return(w, "close") /\ SDwrite' = TRUE) \/ PowerFails(w)
  BY <1>b, <1>c, <1>d
<1>4. Called(m) /\ m.bad = bad /\ m.took = took
  BY <1>c, MachineCalled
<1>5. FaultOK(m.bad, m.took)
  BY <1>1, <1>4, FaultKind
<1>6. w.n <= MaxTransfers + 1
  BY <1>3 DEF Return, PowerFails
<1>7. /\ w.bad = m.bad /\ w.took = m.took /\ Outcome("close", w)
      /\ (w.bad # {} => \E k \in w.bad : k < w.n) => After(w, "close")
      /\ Cardinality(w.bad) # 1 => Cardinality(Stray(Lasting(w))) <= faults + 1
  BY <1>1, <1>4, <1>5, <1>6, <1>d, PrintAfter
<1>8. FaultOK(w.bad, w.took)
  BY <1>5, <1>7
<1>9. CASE Return(w, "close") /\ SDwrite' = TRUE
  <2>1. w.bad # {} => \E k \in w.bad : k < w.n
    BY <1>9 DEF Return
  <2>2. SDwrite' \in BOOLEAN
    BY <1>9
  <2> QED
    BY <1>1, <1>7, <1>8, <1>9, <2>1, <2>2, Returned
<1>10. CASE PowerFails(w)
  <2>1. Cardinality(w.bad) # 1
    BY <1>10 DEF PowerFails
  <2> QED
    BY <1>1, <1>7, <1>10, <2>1, PowerFailed DEF Outcome
<1> QED
  BY <1>3, <1>9, <1>10

\* Closing enters what the line has used, or a fault accounts for it.
LEMMA CloseAfter ==
    ASSUME LogInv, at = "close", NEW m, NEW w, Called(m), FaultOK(m.bad, m.took), w = Close(m), w.n <= MaxTransfers + 1
    PROVE  /\ w.bad = m.bad /\ w.took = m.took /\ Outcome("begin", w)
           /\ (w.bad = {} \/ \E k \in w.bad : k < w.n) => After(w, "begin")
           /\ Cardinality(Stray(Lasting(w))) <= faults + 1
<1>1. Safe(m) /\ Alloc(m) /\ m.ok
  BY CalledSafe
<1>2. faults \in Nat /\ pulled \in BOOLEAN /\ LogState(disk, cache, alloc, file, at, pulled, faults)
  BY LogAssumption DEF LogInv, Counters
<1>3. IsClosed(m, w)
  <2>1. FileOK(m.file, Latest(m))
    BY <1>2 DEF LogState, Called
  <2> QED
    BY <1>1, <2>1, CloseRuns
<1>4. /\ Run(m, w) /\ Safe(w) /\ w.alloc = m.alloc /\ w.file = Closed /\ Used(Latest(w)) = Used(Latest(m))
      /\ (w.ok => Stray(Lasting(w)) \subseteq Lost(m)) /\ (~w.ok => Hit(m, w))
  BY <1>3 DEF IsClosed
<1>5. w.bad = m.bad /\ w.took = m.took
  BY <1>4 DEF Run
<1>6. Outcome("begin", w)
  BY <1>1, <1>4 DEF Outcome, Safe, Mach, Alloc
<1>7. PICK n : n = IF w.bad # {} /\ ~pulled THEN faults + 1 ELSE faults
  OBVIOUS
<1>8. /\ Cardinality(Loose(m)) \in Nat /\ Cardinality(Stray(Lasting(w))) \in Nat /\ Cardinality(Lost(m)) \in Nat
      /\ Cardinality(Stray(Lasting(w))) <= Cardinality(Loose(m))
  BY <1>4, RunLoose, InClusters, Few
<1>9. Cardinality(Stray(Lasting(w))) <= n /\ Cardinality(Stray(Lasting(w))) <= faults + 1
  <2>1. CASE pulled
    <3>1. Cardinality(Stray(Lasting(w))) <= faults
      BY <1>4, <2>1, PulledStray
    <3> QED
      BY <1>2, <1>7, <1>8, <2>1, <3>1
  <2>2. CASE ~pulled
    <3>1. Cardinality(Lost(m)) <= faults /\ Cardinality(Loose(m)) <= faults + 1
      BY <1>2, <2>2 DEF LogState, Loose, Lost, Called
    <3>2. CASE w.bad # {}
      BY <1>2, <1>7, <1>8, <2>2, <3>1, <3>2
    <3>3. CASE w.bad = {}
      <4>1. w.ok
        BY <1>4, <1>5, <3>3 DEF Hit
      <4>2. Cardinality(Stray(Lasting(w))) <= Cardinality(Lost(m))
        BY <1>4, <4>1, InClusters, Few
      <4> QED
        BY <1>2, <1>7, <1>8, <3>1, <3>3, <4>2
    <3> QED
      BY <3>2, <3>3
  <2> QED
    BY <1>2, <2>1, <2>2
<1>10. After(w, "begin")
  <2>1. PICK p : p = ("begin" # "begin" /\ (pulled \/ MaxTransfers \in w.bad))
    OBVIOUS
  <2>2. p = FALSE
    BY <2>1
  <2> QED
    BY <1>6, <1>7, <1>9, <2>1, <2>2, SafeAfter
<1> QED
  BY <1>5, <1>6, <1>9, <1>10

LEMMA CloseLogKeeps == ASSUME LogInv, CloseLog PROVE LogInv'
<1>1. at = "close" /\ line <= MaxLines /\ Counters
  BY DEF CloseLog, LogInv, Counters
<1>a. PICK bad \in Bad : \E took \in Took(bad) : LET m == Close(Machine(bad, took)) IN
         (Return(m, "begin") /\ UNCHANGED SDwrite) \/ PowerFails(m)
  BY DEF CloseLog
<1>b. PICK took \in Took(bad) : LET m == Close(Machine(bad, took)) IN
         (Return(m, "begin") /\ UNCHANGED SDwrite) \/ PowerFails(m)
  BY <1>a
<1>c. PICK m : m = Machine(bad, took)
  OBVIOUS
<1>d. PICK w : w = Close(m)
  OBVIOUS
<1>3. (Return(w, "begin") /\ UNCHANGED SDwrite) \/ PowerFails(w)
  BY <1>b, <1>c, <1>d
<1>4. Called(m) /\ m.bad = bad /\ m.took = took
  BY <1>c, MachineCalled
<1>5. FaultOK(m.bad, m.took)
  BY <1>1, <1>4, FaultKind
<1>6. w.n <= MaxTransfers + 1
  BY <1>3 DEF Return, PowerFails
<1>7. /\ w.bad = m.bad /\ w.took = m.took /\ Outcome("begin", w)
      /\ (w.bad = {} \/ \E k \in w.bad : k < w.n) => After(w, "begin")
      /\ Cardinality(Stray(Lasting(w))) <= faults + 1
  BY <1>1, <1>4, <1>5, <1>6, <1>d, CloseAfter
<1>8. FaultOK(w.bad, w.took)
  BY <1>5, <1>7
<1>9. CASE Return(w, "begin") /\ UNCHANGED SDwrite
  <2>1. w.bad = {} \/ \E k \in w.bad : k < w.n
    BY <1>9 DEF Return
  <2>2. SDwrite' \in BOOLEAN
    BY <1>1, <1>9 DEF Counters
  <2> QED
    BY <1>1, <1>7, <1>8, <1>9, <2>1, <2>2, Returned
<1>10. CASE PowerFails(w)
  BY <1>1, <1>7, <1>10, PowerFailed DEF Outcome
<1> QED
  BY <1>3, <1>9, <1>10

-----------------------------------------------------------------------------
(* The card at the start *)
Dealt(c, d) ==
    /\ IsDisk(d)
    /\ \A x \in Cluster : FatOf(d, x) = IF x = c THEN EOC ELSE 0
    /\ \A p \in Places : EntryAt(d, p) = IF c # 0 /\ p = <<DirBlock(1), 1>>
                                           THEN [NoEntry(Other) EXCEPT !.first = c, !.size = 1] ELSE NoEntry("free")

\* A card as Init has it is sound, and none of its clusters lost.
LEMMA CardDealt ==
    ASSUME NEW c \in Cluster \cup {0}, NEW d, d = Card(c)
    PROVE  Dealt(c, d)
<1> DEFINE Fats == {FatBlock(k, b) : k \in {1, 2}, b \in Cluster}
           Data == {DataBlock(b, i) : b \in Cluster, i \in 0 .. BlocksPerCluster - 1}
           fat == [b \in Cluster |-> IF b = c THEN EOC ELSE 0]
           FatOn(b) == [x \in {y \in Cluster : FatBlock(b[2], y) = b} |-> fat[x]]
           DirOn(b) == [k \in 1 .. EntriesPerBlock |->
                          IF c # 0 /\ b = DirBlock(1) /\ k = 1
                            THEN [NoEntry(Other) EXCEPT !.first = c, !.size = 1] ELSE NoEntry("free")]
           Blank == [i \in 1 .. BlockSize |-> 0]
<1>1. d = [b \in Fats \cup DirBlocks \cup Data |->
             CASE b \in Fats -> FatOn(b) [] b \in Data -> Blank [] OTHER -> DirOn(b)]
  BY DEF Card
<1>2. \A b \in FatBlocks : b \in Fats /\ b[1] = "fat" /\ b[2] = 1
  BY DEF FatBlocks, FatBlock
<1>3. \A b \in DirBlocks : b[1] = "dir"
  BY DEF DirBlocks, DirBlock
<1>4. (\A b \in Fats : b[1] = "fat") /\ (\A b \in Data : b[1] = "data")
  BY DEF FatBlock, DataBlock
<1>5. "fat" # "dir" /\ "dir" # "data"
  OBVIOUS
<1>6. \A b \in DirBlocks : b \notin Fats /\ b \notin Data
  <2> HIDE DEF Fats, Data
  <2> QED
    BY <1>3, <1>4, <1>5
<1> HIDE DEF Fats, Data, FatOn, DirOn, Blank
<1>7. DOMAIN d = Fats \cup DirBlocks \cup Data /\ d = [b \in DOMAIN d |-> d[b]]
  BY <1>1
<1>8. \A b \in FatBlocks : d[b] = FatOn(b)
  <2> TAKE b \in FatBlocks
  <2>1. b \in Fats \cup DirBlocks \cup Data /\ b \in Fats
    BY <1>2
  <2>2. d[b] = CASE b \in Fats -> FatOn(b) [] b \in Data -> Blank [] OTHER -> DirOn(b)
    BY <1>1, <2>1
  <2>3. b \notin Data
    BY <1>2, <1>4
  <2> QED
    BY <2>1, <2>2, <2>3
<1>9. \A b \in DirBlocks : d[b] = DirOn(b)
  BY <1>1, <1>6
<1>10. \A x \in Cluster : fat[x] = (IF x = c THEN EOC ELSE 0) /\ fat[x] \in Links
  BY DEF Links
<1> HIDE DEF fat
<1>11. \A b \in FatBlocks : FatOn(b) = [x \in {y \in Cluster : FatBlock(1, y) = b} |-> fat[x]]
  BY <1>2 DEF FatOn
<1>12. /\ NoEntry("free") \in Entry
       /\ [NoEntry(Other) EXCEPT !.first = c, !.size = 1] \in Entry
  BY LogAssumption DEF NoEntry, Entry
<1>13. ASSUME NEW b \in FatBlocks PROVE IsBlock(b, d[b])
  <2>1. b \notin DirBlocks
    BY <1>2, <1>6
  <2>2. d[b] \in [{x \in Cluster : FatBlock(1, x) = b} -> Links]
    <3>1. d[b] = [y \in {x \in Cluster : FatBlock(1, x) = b} |-> fat[y]]
      BY <1>8, <1>11
    <3>2. \A y \in {x \in Cluster : FatBlock(1, x) = b} : fat[y] \in Links
      BY <1>10
    <3> QED
      BY <3>1, <3>2
  <2> QED
    BY <2>1, <2>2 DEF IsBlock
<1>14. ASSUME NEW b \in DirBlocks PROVE IsBlock(b, d[b])
  <2>1. b \notin FatBlocks
    BY <1>2, <1>6
  <2>2. d[b] \in [1 .. EntriesPerBlock -> Entry]
    <3>1. d[b] = DirOn(b)
      BY <1>9
    <3>2. PICK e \in Entry : e = [NoEntry(Other) EXCEPT !.first = c, !.size = 1]
      BY <1>12
    <3>3. PICK e0 \in Entry : e0 = NoEntry("free")
      BY <1>12
    <3>4. d[b] = [k \in 1 .. EntriesPerBlock |-> IF c # 0 /\ b = DirBlock(1) /\ k = 1 THEN e ELSE e0]
      BY <3>1, <3>2, <3>3 DEF DirOn
    <3> QED
      BY <3>4
  <2> QED
    BY <2>1, <2>2 DEF IsBlock
<1>15. IsDisk(d)
  BY <1>2, <1>7, <1>13, <1>14 DEF IsDisk, Meta
<1>16. ASSUME NEW x \in Cluster PROVE FatOf(d, x) = IF x = c THEN EOC ELSE 0
  <2>1. FatBlock(1, x) \in FatBlocks
    BY DEF FatBlocks
  <2>2. d[FatBlock(1, x)][x] = fat[x]
    BY <1>8, <1>11, <2>1
  <2> QED
    BY <1>10, <2>2 DEF FatOf
<1>17. ASSUME NEW p \in Places
       PROVE  EntryAt(d, p) = IF c # 0 /\ p = <<DirBlock(1), 1>>
                                THEN [NoEntry(Other) EXCEPT !.first = c, !.size = 1] ELSE NoEntry("free")
  <2>1. p[1] \in DirBlocks /\ p[2] \in 1 .. EntriesPerBlock /\ p = <<p[1], p[2]>>
    BY DEF Places
  <2>2. d[p[1]][p[2]] = IF c # 0 /\ p[1] = DirBlock(1) /\ p[2] = 1
                          THEN [NoEntry(Other) EXCEPT !.first = c, !.size = 1] ELSE NoEntry("free")
    BY <1>9, <2>1 DEF DirOn
  <2>3. (p[1] = DirBlock(1) /\ p[2] = 1) <=> p = <<DirBlock(1), 1>>
    BY <2>1
  <2> QED
    BY <2>2, <2>3 DEF EntryAt
<1> QED
  BY <1>15, <1>16, <1>17 DEF Dealt

LEMMA DealtSound ==
    ASSUME NEW c \in Cluster \cup {0}, NEW d, Dealt(c, d)
    PROVE  Sound(View(d)) /\ Stray(View(d)) = {}
<1>1. PICK v : v = View(d)
  OBVIOUS
<1>2. \A x \in Cluster : v.fat[x] = IF x = c THEN EOC ELSE 0
  BY <1>1 DEF View, Dealt
<1>3. \A p \in Places : v.ent[p] = IF c # 0 /\ p = <<DirBlock(1), 1>>
                                     THEN [NoEntry(Other) EXCEPT !.first = c, !.size = 1] ELSE NoEntry("free")
  BY <1>1 DEF View, Dealt
<1>4. EOC \notin Cluster /\ 0 \notin Cluster /\ EOC # 0
  BY LinkKinds
<1>5. \A x \in Cluster : v.fat[x] \notin Cluster
  BY <1>2, <1>4
<1>6. Linked(v)
  BY <1>5 DEF Linked
<1>7. "free" \notin Names /\ NoEntry("free").name = "free"
  BY FatAssumption DEF NoEntry
<1>8. ASSUME NEW p \in Files(v)
      PROVE  c # 0 /\ p = <<DirBlock(1), 1>> /\ v.ent[p].first = c /\ v.ent[p].size = 1
  <2>1. p \in Places /\ v.ent[p].name \in Names
    BY DEF Files
  <2>2. c # 0 /\ p = <<DirBlock(1), 1>>
    BY <1>3, <1>7, <2>1
  <2> QED
    BY <1>3, <2>1, <2>2 DEF NoEntry
<1>9. ASSUME NEW p \in Files(v) PROVE IsFirst(v, p, v.ent[p].first) /\ Long(v.fat, v.ent[p].first, v.ent[p].size)
  <2>1. c \in Cluster /\ v.ent[p].first = c /\ v.ent[p].size = 1
    BY <1>8
  <2>2. Files(v) \ {p} = {}
    BY <1>8
  <2>3. v.fat[c] # 0 /\ \A x \in Cluster : v.fat[x] # c
    BY <1>2, <1>4, <1>5, <2>1
  <2>4. IsFirst(v, p, c)
    BY <2>2, <2>3 DEF IsFirst
  <2>5. (1 - 1) \div ClusterSize = 0
    <3>1. PICK k \in Nat : k = ClusterSize /\ k > 1
      BY SizeOfCluster
    <3>2. 0 \div k = 0
      BY <3>1
    <3> QED
      BY <3>1, <3>2
  <2>6. Long(v.fat, c, 1)
    BY <2>1, <2>5, WalkZero DEF Long
  <2> QED
    BY <2>1, <2>4, <2>6
<1>10. Sound(v)
  BY <1>6, <1>9 DEF Sound
<1>11. Stray(v) = {}
  <2>1. ASSUME NEW x \in Stray(v) PROVE FALSE
    <3>1. x \in Cluster /\ x = c /\ x \notin Owned(v)
      BY <1>2, <2>1 DEF Stray, Used
    <3>2. PICK p : p = <<DirBlock(1), 1>>
      OBVIOUS
    <3>3. p \in Places
      BY <3>2, FatAssumption DEF Places, DirBlocks
    <3>4. c # 0
      BY <1>4, <3>1
    <3>5. p \in Files(v) /\ v.ent[p].first = c
      BY <1>3, <3>2, <3>3, <3>4, LogAssumption DEF Files, NoEntry
    <3>6. c \in Reach(v, c)
      BY <3>1, WalkZero DEF Reach
    <3>7. c \in Owned(v)
      BY <3>5, <3>6 DEF Owned
    <3> QED
      BY <3>1, <3>7
  <2> QED
    BY <2>1
<1> QED
  BY <1>1, <1>10, <1>11

LEMMA InitKeeps == Init => LogInv
<1> SUFFICES ASSUME Init PROVE LogInv
  OBVIOUS
<1>1. /\ cache = NoCache /\ alloc = 2 /\ file = Closed /\ at = "begin" /\ SDwrite = FALSE /\ line = 1
      /\ pulled = FALSE /\ glitched = FALSE /\ faults = 0
  BY DEF Init
<1>2. PICK c \in Cluster \cup {0} : disk = Card(c)
  BY DEF Init
<1>3. Dealt(c, disk)
  BY <1>2, CardDealt
<1>4. IsDisk(disk) /\ Sound(View(disk)) /\ Stray(View(disk)) = {}
  BY <1>3, DealtSound DEF Dealt
<1>5. Cardinality(Stray(View(disk))) <= 0
  BY <1>4, FS_EmptySet
<1>6. Counters
  <2>1. MaxLines \in Nat /\ MaxFaults \in Nat
    BY LogAssumption
  <2>2. FALSE \in BOOLEAN /\ 1 \in 1 .. MaxLines + 1 /\ 0 \in 0 .. MaxFaults
    BY <2>1
  <2>3. at = "begin" => at \in {"begin", "open", "print", "close"}
    OBVIOUS
  <2> QED
    BY <1>1, <2>2, <2>3 DEF Counters
<1>7. 2 \in 2 .. ClusterCount + 2
  BY FatAssumption
<1>8. LogState(disk, cache, alloc, file, at, pulled, faults)
  BY <1>1, <1>4, <1>5, <1>7 DEF LogState
<1> QED
  BY <1>6, <1>8 DEF LogInv

LEMMA NextKeeps == LogInv /\ [Next]_vars => LogInv'
<1>1. ASSUME LogInv, UNCHANGED vars PROVE LogInv'
  <2>1. /\ disk' = disk /\ cache' = cache /\ alloc' = alloc /\ file' = file /\ at' = at /\ SDwrite' = SDwrite
        /\ line' = line /\ pulled' = pulled /\ glitched' = glitched /\ faults' = faults
    BY <1>1 DEF vars
  <2>2. LogState(disk, cache, alloc, file, at, pulled, faults)'
    BY <1>1, <2>1 DEF LogInv
  <2>3. Counters'
    BY <1>1, <2>1 DEF LogInv, Counters
  <2> QED
    BY <2>2, <2>3 DEF LogInv
<1>2. ASSUME LogInv, Next PROVE LogInv'
  BY <1>2, BeginKeeps, NoCardKeeps, OpenLogKeeps, PrintTheLineKeeps, CloseLogKeeps DEF Next
<1> QED
  BY <1>1, <1>2

\* What the invariant says of the card is what SoundCard says.
LEMMA InvSound == LogInv => SoundCard
<1> SUFFICES ASSUME LogInv PROVE SoundCard
  OBVIOUS
<1>1. Counters /\ LogState(disk, cache, alloc, file, at, pulled, faults)
  BY DEF LogInv
<1>2. IsDisk(disk) /\ Sound(View(disk)) /\ alloc \in 2 .. ClusterCount + 2
  BY <1>1 DEF LogState
<1>3. file.open = (at \in {"print", "close"})
  <2>1. CASE at \in {"begin", "open"}
    <3>1. file = Closed
      BY <1>1, <2>1 DEF LogState
    <3>2. file.open = FALSE
      BY <3>1 DEF Closed
    <3>3. (at \in {"print", "close"}) = FALSE
      BY <2>1
    <3> QED
      BY <3>2, <3>3
  <2>2. CASE at \in {"print", "close"}
    <3>1. FileOK(file, Shown(disk, cache))
      BY <1>1, <2>2 DEF LogState
    <3>2. file.open = TRUE
      BY <3>1 DEF FileOK
    <3> QED
      BY <2>2, <3>2
  <2> QED
    BY <1>1, <2>1, <2>2 DEF Counters
<1>4. \A c \in Cluster : FatOf(disk, c) \in {0, EOC} \cup Cluster
  <2>1. View(disk).fat \in [Cluster -> Links]
    BY <1>2, ViewOfDisk DEF IsView
  <2>2. \A c \in Cluster : View(disk).fat[c] = FatOf(disk, c)
    BY DEF View
  <2> QED
    BY <2>1, <2>2 DEF Links
<1>5. TypeOK
  BY <1>1, <1>2, <1>3, <1>4 DEF TypeOK, Counters
<1>6. Unshared(disk) /\ Covered(disk) /\ InUse(disk) \ UNION {ClustersOf(disk, p) : p \in FilesOn(disk)} \subseteq Stray(View(disk))
  BY <1>2, SoundKeeps DEF Kept
<1>7. LeakBounded
  <2>1. SUFFICES ASSUME at = "begin"
                 PROVE  Cardinality(InUse(disk) \ UNION {ClustersOf(disk, p) : p \in FilesOn(disk)}) <= faults
    BY DEF LeakBounded
  <2>2. PICK A : A = InUse(disk) \ UNION {ClustersOf(disk, p) : p \in FilesOn(disk)}
    OBVIOUS
  <2>3. Cardinality(A) \in Nat /\ Cardinality(Stray(View(disk))) \in Nat /\ Cardinality(A) <= Cardinality(Stray(View(disk)))
    BY <1>6, <2>2, NoneInCluster, Few
  <2>4. Cardinality(Stray(View(disk))) <= faults
    BY <1>1, <2>1 DEF LogState
  <2>5. faults \in Nat
    BY <1>1, LogAssumption DEF Counters
  <2> QED
    BY <2>2, <2>3, <2>4, <2>5
<1> QED
  BY <1>5, <1>6, <1>7 DEF SoundCard

\* Whatever fails, in every pass of the sketch over the log (Sensuino.ino:86-93): the
\* card and what SdVolume's cache makes of it stay sound, and the clusters lost, or
\* waiting for the close to be owned, are as few as there have been faults.
THEOREM LogInvariant == Spec => []LogInv
BY InitKeeps, NextKeeps, PTL DEF Spec

\* At every moment a power failure would leave a sound card behind: no cluster of two
\* files, every chain as long as its entry says, one cluster lost per fault at most
\* (SdBaseFile.cpp, SdVolume.cpp, and the sketch's pass over the log).
THEOREM SoundCardHolds == Spec => []SoundCard
BY LogInvariant, InvSound, PTL DEF Spec

-----------------------------------------------------------------------------
(***************************************************************************)
(* SdFormatter                                                             *)
(***************************************************************************)
\* An SD card reports at most 4096 * 2048 blocks of 512 bytes; the capacity in
\* megabytes, an uint16_t, is right up to 65535 MB.
SizesAssumption ==
    /\ \A n \in SDCards : n <= 8388608
    /\ \A n \in SDHCCards : n <= 134215680

\* The card in the slot is one of those.
CardInv ==
    /\ sdhc \in BOOLEAN
    /\ cardSizeBlocks \in IF sdhc THEN SDHCCards ELSE SDCards

-----------------------------------------------------------------------------
(* Arithmetic *)

LEMMA DivUnique ==
    ASSUME NEW w \in Nat \ {0}, NEW q \in Int, NEW r \in Int, 0 <= r, r < w
    PROVE  (w * q + r) \div w = q /\ (w * q + r) % w = r
OBVIOUS

LEMMA Wide == 2^16 = 65536
OBVIOUS

LEMMA Small == ASSUME NEW a \in Nat, a < 65536 PROVE a % 2^16 = a
<1>1. a % 65536 = a
  <2>1. 65536 * 0 + a = a  OBVIOUS
  <2> QED BY <2>1, DivUnique
<1> QED BY <1>1, Wide

LEMMA FirstIsLeast ==
    ASSUME NEW S, \A x \in S : x \in Int /\ x >= 1 /\ x <= 16, S # {}
    PROVE  First(S) \in S /\ \A l \in S : First(S) <= l
<1>1. \E k \in S : \A l \in S : k <= l
  <2>1. CASE 1 \in S  BY <2>1
  <2>2. CASE 1 \notin S /\ 2 \in S  BY <2>2
  <2>3. CASE 1 \notin S /\ 2 \notin S /\ 3 \in S  BY <2>3
  <2>4. CASE 1 \notin S /\ 2 \notin S /\ 3 \notin S /\ 4 \in S  BY <2>4
  <2>5. CASE 1 \notin S /\ 2 \notin S /\ 3 \notin S /\ 4 \notin S
    <3>1. CASE \A l \in S : l >= 9
      <4>1. CASE 9 \in S  BY <4>1, <3>1
      <4>2. CASE 9 \notin S /\ 10 \in S  BY <4>2, <3>1
      <4>3. CASE 9 \notin S /\ 10 \notin S /\ 11 \in S  BY <4>3, <3>1
      <4>4. CASE 9 \notin S /\ 10 \notin S /\ 11 \notin S /\ 12 \in S  BY <4>4, <3>1
      <4>5. CASE 9 \notin S /\ 10 \notin S /\ 11 \notin S /\ 12 \notin S
        <5>1. \A l \in S : l \in {13, 14, 15, 16}  BY <3>1, <4>5
        <5>2. CASE 13 \in S  BY <5>1, <5>2
        <5>3. CASE 13 \notin S /\ 14 \in S  BY <5>1, <5>3
        <5>4. CASE 13 \notin S /\ 14 \notin S  BY <5>1, <5>4
        <5> QED BY <5>2, <5>3, <5>4
      <4> QED BY <4>1, <4>2, <4>3, <4>4, <4>5
    <3>2. CASE \E l \in S : l < 9
      <4>1. CASE 5 \in S  BY <4>1, <2>5
      <4>2. CASE 5 \notin S /\ 6 \in S  BY <4>2, <2>5
      <4>3. CASE 5 \notin S /\ 6 \notin S /\ 7 \in S  BY <4>3, <2>5
      <4>4. CASE 5 \notin S /\ 6 \notin S /\ 7 \notin S  BY <4>4, <3>2, <2>5
      <4> QED BY <4>1, <4>2, <4>3, <4>4
    <3> QED BY <3>1, <3>2
  <2> QED BY <2>1, <2>2, <2>3, <2>4, <2>5
<1> QED BY <1>1 DEF First

-----------------------------------------------------------------------------
(* The sizes of a card *)

LEMMA Capacity ==
    ASSUME SizesAssumption, CardInv
    PROVE  /\ cardSizeBlocks \in Nat \ {0}
           /\ CapacityMB \in Nat
           /\ cardSizeBlocks <= 2048 * CapacityMB
           /\ sdhc => CapacityMB < 65536
           /\ ~sdhc => CapacityMB <= 4096
<1>1. cardSizeBlocks \in Nat \ {0} /\ cardSizeBlocks <= 134215680
      /\ (~sdhc => cardSizeBlocks <= 8388608)
  BY FormatAssumption DEF SizesAssumption, CardInv
<1> DEFINE q == (cardSizeBlocks + 2047) \div 2048  r == (cardSizeBlocks + 2047) % 2048
<1>2. q \in Int /\ r \in 0 .. 2047 /\ cardSizeBlocks + 2047 = 2048 * q + r
  BY <1>1, DivMod
<1>3. CapacityMB = q % 2^16
  BY DEF CapacityMB
<1> HIDE DEF q, r
<1>4. q \in Nat /\ q < 65536 /\ (~sdhc => q <= 4096)
  BY <1>1, <1>2
<1>5. CapacityMB = q
  BY <1>3, <1>4, Small
<1> QED BY <1>1, <1>2, <1>4, <1>5

\* The limits rise.
Rising(limits) ==
    /\ DOMAIN limits = 1 .. 7
    /\ \A j \in 1 .. 7 : limits[j] \in Nat
    /\ \A j, k \in 1 .. 7 : j < k => limits[j] < limits[k]

LEMMA UptoIs ==
    ASSUME CapacityMB \in Nat, NEW limits, Rising(limits), NEW values, NEW else, NEW i \in 1 .. 7,
           CapacityMB <= limits[i], i = 1 \/ CapacityMB > limits[i - 1]
    PROVE  Upto(limits, values, else) = values[i]
<1> DEFINE fits == {j \in DOMAIN limits : CapacityMB <= limits[j]}
<1>0. ASSUME NEW j \in 1 .. 7, CapacityMB <= limits[j] PROVE i <= j
  <2>1. CASE i = 1  BY <2>1
  <2>2. CASE i # 1
    <3>1. i - 1 \in 1 .. 7 /\ limits[i - 1] \in Nat /\ limits[j] \in Nat
      BY <2>2 DEF Rising
    <3>2. ~(limits[j] <= limits[i - 1])
      BY <1>0, <2>2, <3>1
    <3>3. i - 1 # j /\ ~(j < i - 1)
      BY <3>1, <3>2 DEF Rising
    <3> QED BY <3>3
  <2> QED BY <2>1, <2>2
<1>1. i \in fits /\ \A j \in fits : j \in Int /\ j >= 1 /\ j <= 16 /\ i <= j
  BY <1>0 DEF Rising
<1>2. Upto(limits, values, else) = IF fits = {} THEN else ELSE values[First(fits)]
  BY DEF Upto
<1> HIDE DEF fits
<1>3. First(fits) \in fits /\ First(fits) <= i
  BY <1>1, FirstIsLeast
<1>4. First(fits) = i
  <2>1. PICK f : f = First(fits)  OBVIOUS
  <2>2. f \in Int /\ i <= f /\ f <= i  BY <1>1, <1>3, <2>1
  <2>3. f = i  BY <2>2
  <2> QED BY <2>1, <2>3
<1> QED BY <1>1, <1>2, <1>4

LEMMA UptoElse ==
    ASSUME CapacityMB \in Nat, NEW limits, Rising(limits), NEW values, NEW else,
           CapacityMB > limits[7]
    PROVE  Upto(limits, values, else) = else
<1>1. ASSUME NEW j \in DOMAIN limits PROVE ~(CapacityMB <= limits[j])
  <2>1. j \in 1 .. 7 /\ limits[j] \in Nat /\ limits[7] \in Nat /\ (j = 7 \/ limits[j] < limits[7])
    BY DEF Rising
  <2> QED BY <2>1
<1> QED BY <1>1 DEF Upto

\* The clusters grow with the card, so that there are not too many.
LEMMA ClusterSectors ==
    ASSUME CapacityMB \in Nat, CapacityMB > 6
    PROVE  \/ SectorsPerCluster = 2 /\ CapacityMB <= 16
           \/ SectorsPerCluster = 4 /\ CapacityMB <= 32
           \/ SectorsPerCluster = 8 /\ CapacityMB <= 64
           \/ SectorsPerCluster = 16 /\ CapacityMB <= 128
           \/ SectorsPerCluster = 32 /\ CapacityMB <= 1024
           \/ SectorsPerCluster = 64 /\ CapacityMB <= 32768
           \/ SectorsPerCluster = 128
<1> DEFINE limits == <<6, 16, 32, 64, 128, 1024, 32768>>
           values == <<0, 2, 4, 8, 16, 32, 64>>
<1>1. /\ Rising(limits)
      /\ limits[1] = 6 /\ limits[2] = 16 /\ limits[3] = 32 /\ limits[4] = 64
      /\ limits[5] = 128 /\ limits[6] = 1024 /\ limits[7] = 32768
  BY DEF Rising
<1>2. /\ values[1] = 0 /\ values[2] = 2 /\ values[3] = 4 /\ values[4] = 8
      /\ values[5] = 16 /\ values[6] = 32 /\ values[7] = 64
  OBVIOUS
<1>3. SectorsPerCluster = Upto(limits, values, 128)
  BY DEF SectorsPerCluster
<1> HIDE DEF limits, values
<1>4. CASE CapacityMB <= 16
  <2>2. SectorsPerCluster = values[2]  BY <1>1, <1>3, <1>4, UptoIs
  <2> QED BY <1>2, <1>4, <2>2
<1>5. CASE CapacityMB > 16 /\ CapacityMB <= 32
  <2>2. SectorsPerCluster = values[3]  BY <1>1, <1>3, <1>5, UptoIs
  <2> QED BY <1>2, <1>5, <2>2
<1>6. CASE CapacityMB > 32 /\ CapacityMB <= 64
  <2>2. SectorsPerCluster = values[4]  BY <1>1, <1>3, <1>6, UptoIs
  <2> QED BY <1>2, <1>6, <2>2
<1>7. CASE CapacityMB > 64 /\ CapacityMB <= 128
  <2>2. SectorsPerCluster = values[5]  BY <1>1, <1>3, <1>7, UptoIs
  <2> QED BY <1>2, <1>7, <2>2
<1>8. CASE CapacityMB > 128 /\ CapacityMB <= 1024
  <2>2. SectorsPerCluster = values[6]  BY <1>1, <1>3, <1>8, UptoIs
  <2> QED BY <1>2, <1>8, <2>2
<1>9. CASE CapacityMB > 1024 /\ CapacityMB <= 32768
  <2>2. SectorsPerCluster = values[7]  BY <1>1, <1>3, <1>9, UptoIs
  <2> QED BY <1>2, <1>9, <2>2
<1>10. CASE CapacityMB > 32768
  <2>2. SectorsPerCluster = 128  BY <1>1, <1>3, <1>10, UptoElse
  <2> QED BY <2>2
<1> QED BY <1>4, <1>5, <1>6, <1>7, <1>8, <1>9, <1>10

\* A cylinder has so many blocks that the card has less than 65536 cylinders.
LEMMA Heads ==
    ASSUME CapacityMB \in Nat, CapacityMB > 6
    PROVE  \/ NumberOfHeads = 2 /\ CapacityMB <= 16
           \/ NumberOfHeads = 4 /\ CapacityMB <= 32
           \/ NumberOfHeads = 8 /\ CapacityMB <= 128
           \/ NumberOfHeads = 16 /\ CapacityMB <= 504
           \/ NumberOfHeads = 32 /\ CapacityMB <= 1008
           \/ NumberOfHeads = 64 /\ CapacityMB <= 2016
           \/ NumberOfHeads = 128 /\ CapacityMB <= 4032
           \/ NumberOfHeads = 255
<1> DEFINE limits == <<16, 32, 128, 504, 1008, 2016, 4032>>
           values == <<2, 4, 8, 16, 32, 64, 128>>
<1>1. /\ Rising(limits)
      /\ limits[1] = 16 /\ limits[2] = 32 /\ limits[3] = 128 /\ limits[4] = 504
      /\ limits[5] = 1008 /\ limits[6] = 2016 /\ limits[7] = 4032
  BY DEF Rising
<1>2. /\ values[1] = 2 /\ values[2] = 4 /\ values[3] = 8 /\ values[4] = 16
      /\ values[5] = 32 /\ values[6] = 64 /\ values[7] = 128
  OBVIOUS
<1>3. NumberOfHeads = Upto(limits, values, 255)
  BY DEF NumberOfHeads
<1> HIDE DEF limits, values
<1>4. CASE CapacityMB <= 16
  <2>2. NumberOfHeads = values[1]  BY <1>1, <1>3, <1>4, UptoIs
  <2> QED BY <1>2, <1>4, <2>2
<1>5. CASE CapacityMB > 16 /\ CapacityMB <= 32
  <2>2. NumberOfHeads = values[2]  BY <1>1, <1>3, <1>5, UptoIs
  <2> QED BY <1>2, <1>5, <2>2
<1>6. CASE CapacityMB > 32 /\ CapacityMB <= 128
  <2>2. NumberOfHeads = values[3]  BY <1>1, <1>3, <1>6, UptoIs
  <2> QED BY <1>2, <1>6, <2>2
<1>7. CASE CapacityMB > 128 /\ CapacityMB <= 504
  <2>2. NumberOfHeads = values[4]  BY <1>1, <1>3, <1>7, UptoIs
  <2> QED BY <1>2, <1>7, <2>2
<1>8. CASE CapacityMB > 504 /\ CapacityMB <= 1008
  <2>2. NumberOfHeads = values[5]  BY <1>1, <1>3, <1>8, UptoIs
  <2> QED BY <1>2, <1>8, <2>2
<1>9. CASE CapacityMB > 1008 /\ CapacityMB <= 2016
  <2>2. NumberOfHeads = values[6]  BY <1>1, <1>3, <1>9, UptoIs
  <2> QED BY <1>2, <1>9, <2>2
<1>10. CASE CapacityMB > 2016 /\ CapacityMB <= 4032
  <2>2. NumberOfHeads = values[7]  BY <1>1, <1>3, <1>10, UptoIs
  <2> QED BY <1>2, <1>10, <2>2
<1>11. CASE CapacityMB > 4032
  <2>2. NumberOfHeads = 255  BY <1>1, <1>3, <1>11, UptoElse
  <2> QED BY <2>2
<1> QED BY <1>4, <1>5, <1>6, <1>7, <1>8, <1>9, <1>10, <1>11

LEMMA CylinderSize ==
    ASSUME SizesAssumption, CardInv, CapacityMB > 6
    PROVE  /\ NumberOfHeads \in Nat \ {0} /\ SectorsPerTrack \in Nat \ {0}
           /\ NumberOfHeads * SectorsPerTrack \in Nat \ {0}
           /\ cardSizeBlocks < 65536 * (NumberOfHeads * SectorsPerTrack)
<1>1. CapacityMB \in Nat /\ CapacityMB < 65536
      /\ cardSizeBlocks \in Nat /\ cardSizeBlocks <= 2048 * CapacityMB
  BY Capacity DEF CardInv
<1>2. SectorsPerTrack = 32 \/ SectorsPerTrack = 63
  BY DEF SectorsPerTrack
<1>3. PICK h, t, c, n : h = NumberOfHeads /\ t = SectorsPerTrack /\ c = CapacityMB /\ n = cardSizeBlocks
  OBVIOUS
<1>4. (h = 2 /\ c <= 16) \/ (h = 4 /\ c <= 32) \/ (h = 8 /\ c <= 128) \/ (h = 16 /\ c <= 504)
      \/ (h = 32 /\ c <= 1008) \/ (h = 64 /\ c <= 2016) \/ (h = 128 /\ c <= 4032) \/ h = 255
  BY <1>1, <1>3, Heads
<1>5. c \in Nat /\ c < 65536 /\ n \in Nat /\ n <= 2048 * c /\ t \in {32, 63}
  BY <1>1, <1>2, <1>3
<1>6. h \in Nat \ {0} /\ t \in Nat \ {0} /\ h * t \in Nat \ {0} /\ n < 65536 * (h * t)
  <2>1. CASE t = 32  BY <1>4, <1>5, <2>1
  <2>2. CASE t = 63  BY <1>4, <1>5, <2>2
  <2> QED BY <1>5, <2>1, <2>2
<1> QED BY <1>3, <1>6

\* Cylinder, head and sector of a block lead to it.
LEMMA CylinderHeadSector ==
    ASSUME SizesAssumption, CardInv, CapacityMB > 6, NEW lbn \in Nat, lbn < cardSizeBlocks
    PROVE  /\ Leads(CHS(lbn), lbn)
           /\ lbnToCylinder(lbn) > 1023 => Leads(TooBig, lbn)
<1>1. PICK h, t, w : h = NumberOfHeads /\ t = SectorsPerTrack /\ w = h * t
  OBVIOUS
<1>2. h \in Nat \ {0} /\ t \in Nat \ {0} /\ w \in Nat \ {0} /\ cardSizeBlocks < 65536 * w
      /\ cardSizeBlocks \in Nat
  BY <1>1, CylinderSize, Capacity
<1>3. PICK c, r : c = lbn \div w /\ r = lbn % w
  OBVIOUS
<1>4. c \in Int /\ r \in Nat /\ r < w /\ lbn = w * c + r
  BY <1>2, <1>3, DivMod
<1>5. PICK k, q : k = r \div t /\ q = r % t
  OBVIOUS
<1>6. k \in Int /\ q \in Nat /\ q < t /\ r = t * k + q
  BY <1>2, <1>4, <1>5, DivMod
<1>7. c \in Nat /\ c < 65536
  <2>1. CASE c <= -1
    <3>1. w * c <= w * (-1)  BY <1>2, <1>4, <2>1
    <3> QED BY <1>2, <1>4, <3>1
  <2>2. CASE c >= 65536
    <3>1. w * c >= w * 65536  BY <1>2, <1>4, <2>2
    <3> QED BY <1>2, <1>4, <3>1
  <2> QED BY <1>4, <2>1, <2>2
<1>8. lbnToCylinder(lbn) = c /\ lbnToHead(lbn) = k
  BY <1>1, <1>3, <1>5, <1>7, Small DEF lbnToCylinder, lbnToHead
<1>9. lbn = t * (h * c + k) + q
  BY <1>1, <1>2, <1>4, <1>6
<1>10. lbnToSector(lbn) = q + 1
  <2>1. h * c + k \in Int  BY <1>2, <1>4, <1>6
  <2>2. PICK x \in Int : x = h * c + k  BY <2>1
  <2>3. lbn = t * x + q  BY <1>9, <2>2
  <2>4. lbn % t = q  BY <1>2, <1>6, <2>3, DivUnique
  <2> QED BY <1>1, <2>4 DEF lbnToSector
<1>11. CHS(lbn) = <<c, k, q + 1>>
  BY <1>8, <1>10 DEF CHS
<1>12. (c * h + k) * t + (q + 1) - 1 = lbn
  BY <1>2, <1>4, <1>6, <1>9
<1>13. Leads(CHS(lbn), lbn)
  BY <1>1, <1>11, <1>12 DEF Leads
<1>14. ASSUME c > 1023 PROVE Leads(TooBig, lbn)
  <2>1. w * c >= w * 1023  BY <1>2, <1>4, <1>14
  <2>2. 1023 * h * t = w * 1023  BY <1>1, <1>2
  <2>3. lbn >= 1023 * h * t  BY <1>2, <1>4, <2>1, <2>2
  <2> QED BY <1>1, <2>3 DEF Leads
<1> QED BY <1>8, <1>13, <1>14

-----------------------------------------------------------------------------
(* The sizes of a format *)

G == IF sdhc THEN Fat32Sizes ELSE Fat16Sizes

\* The sketch goes on to write.
Formattable ==
    /\ CapacityMB > 6 /\ ClustersValid(G)
    /\ ~(lbnToCylinder(G.relSector) > 1023)

LEMMA FatSizes16 ==
    ASSUME NEW nc \in Int
    PROVE  /\ FatSize(nc, 256) \in Int
           /\ nc + 2 <= 256 * FatSize(nc, 256)
           /\ 256 * FatSize(nc, 256) <= nc + 257
<1>1. PICK q, r : q = (nc + 2 + 256 - 1) \div 256 /\ r = (nc + 2 + 256 - 1) % 256
  OBVIOUS
<1>2. q \in Int /\ r \in 0 .. 255 /\ nc + 2 + 256 - 1 = 256 * q + r
  BY <1>1, DivMod
<1>3. FatSize(nc, 256) = q
  BY <1>1 DEF FatSize
<1> QED BY <1>2, <1>3

LEMMA FatSizes32 ==
    ASSUME NEW nc \in Int
    PROVE  /\ FatSize(nc, 128) \in Int
           /\ nc + 2 <= 128 * FatSize(nc, 128)
           /\ 128 * FatSize(nc, 128) <= nc + 129
<1>1. PICK q, r : q = (nc + 2 + 128 - 1) \div 128 /\ r = (nc + 2 + 128 - 1) % 128
  OBVIOUS
<1>2. q \in Int /\ r \in 0 .. 127 /\ nc + 2 + 128 - 1 = 128 * q + r
  BY <1>1, DivMod
<1>3. FatSize(nc, 128) = q
  BY <1>1 DEF FatSize
<1> QED BY <1>2, <1>3

LEMMA FatBound16 ==
    ASSUME NEW nc \in Int, nc <= 131072
    PROVE  FatSize(nc, 256) \in Int /\ 256 * FatSize(nc, 256) <= 131329
BY FatSizes16

LEMMA FatBound32 ==
    ASSUME NEW nc \in Int, nc <= 1048576
    PROVE  FatSize(nc, 128) \in Int /\ 128 * FatSize(nc, 128) <= 1048705
BY FatSizes32

\* An SD card has at most 131072 clusters, an SDHC card 1048576.
LEMMA ClustersFit ==
    ASSUME SizesAssumption, CardInv, CapacityMB > 6, NEW ds \in Nat
    PROVE  /\ SectorsPerCluster \in {2, 4, 8, 16, 32, 64, 128}
           /\ Clusters(ds) \in Int
           /\ SectorsPerCluster * Clusters(ds) + ds <= cardSizeBlocks
           /\ Clusters(ds) <= 1048576
           /\ ~sdhc => Clusters(ds) <= 131072
<1>1. /\ cardSizeBlocks \in Nat /\ CapacityMB \in Nat /\ CapacityMB < 65536
      /\ cardSizeBlocks <= 2048 * CapacityMB /\ (~sdhc => CapacityMB <= 4096)
  BY Capacity DEF CardInv
<1>2. PICK s, c, n : s = SectorsPerCluster /\ c = CapacityMB /\ n = cardSizeBlocks
  OBVIOUS
<1>3. /\ n \in Nat /\ c \in Nat /\ c < 65536 /\ n <= 2048 * c
      /\ ~sdhc => c <= 4096
  BY <1>1, <1>2
<1>4. (s = 2 /\ c <= 16) \/ (s = 4 /\ c <= 32) \/ (s = 8 /\ c <= 64) \/ (s = 16 /\ c <= 128)
      \/ (s = 32 /\ c <= 1024) \/ (s = 64 /\ c <= 32768) \/ s = 128
  BY <1>1, <1>2, ClusterSectors
<1>5. PICK q, r : q = (n - ds) \div s /\ r = (n - ds) % s
  OBVIOUS
<1>6. s \in Nat \ {0}  BY <1>4
<1>7. q \in Int /\ s * q \in Int /\ s * q <= n - ds
  <2>1. n - ds \in Int  BY <1>3
  <2>2. q \in Int /\ r \in 0 .. s - 1 /\ n - ds = s * q + r
    BY <1>5, <1>6, <2>1, DivMod
  <2>3. PICK p : p = s * q  OBVIOUS
  <2>4. p \in Int /\ r >= 0 /\ r \in Int  BY <1>6, <2>2, <2>3
  <2>5. p <= n - ds  BY <2>1, <2>2, <2>3, <2>4
  <2> QED BY <2>2, <2>3, <2>4, <2>5
<1>8. Clusters(ds) = q
  BY <1>2, <1>5 DEF Clusters
<1>9. q <= 1048576 /\ (~sdhc => q <= 131072)
  <2>1. PICK p : p = s * q  OBVIOUS
  <2>2. p \in Int /\ p <= n  BY <1>3, <1>7, <2>1
  <2>3. s * q <= n  BY <2>1, <2>2
  <2> QED BY <1>3, <1>4, <1>7, <2>3
<1>10. s * q + ds <= n
  <2>1. PICK p : p = s * q  OBVIOUS
  <2>2. p + ds <= n  BY <1>3, <1>7, <2>1
  <2> QED BY <2>1, <2>2
<1> QED BY <1>2, <1>4, <1>7, <1>8, <1>9, <1>10

LEMMA Fat16Layout ==
    ASSUME SizesAssumption, CardInv, ~sdhc, CapacityMB > 6
    PROVE  \E nc, ds, fs \in Int :
             /\ Fat16Sizes = [fat |-> 16, nc |-> nc, dataStart |-> ds, fatSize |-> fs,
                              relSector |-> ds - 2 * fs - 33, reservedSectors |-> 1]
             /\ ds - 2 * fs - 33 >= 128
             /\ SectorsPerCluster * nc + ds <= cardSizeBlocks
             /\ nc + 2 <= 256 * fs
<1> DEFINE size(ds) == FatSize(Clusters(ds), 256)
           need(ds) == BU16 + 1 + 2 * size(ds) + 32
           K == {k \in 2 .. 16 : BU16 * k >= need(BU16 * k)}
           ds == BU16 * First(K)
<1>1. ASSUME NEW k \in 2 .. 16
      PROVE  size(BU16 * k) \in Int /\ 256 * size(BU16 * k) <= 131329
  <2>1. BU16 * k \in Nat  BY DEF BU16
  <2>2. PICK c : c = Clusters(BU16 * k)  OBVIOUS
  <2>3. c \in Int /\ c <= 131072  BY <2>1, <2>2, ClustersFit
  <2> QED BY <2>2, <2>3, FatBound16
<1>2. 16 \in K
  <2>1. PICK f : f = size(BU16 * 16)  OBVIOUS
  <2>2. f \in Int /\ 256 * f <= 131329  BY <1>1, <2>1
  <2>3. BU16 * 16 >= BU16 + 1 + 2 * f + 32  BY <2>2 DEF BU16
  <2> QED BY <2>1, <2>3
<1>3. First(K) \in K
  BY <1>2, FirstIsLeast
<1>4. PICK k : k = First(K)
  OBVIOUS
<1>5. k \in 2 .. 16 /\ ds = BU16 * k /\ BU16 * k >= need(BU16 * k)
  BY <1>3, <1>4
<1>6. Fat16Sizes = [fat |-> 16, nc |-> Clusters(ds), dataStart |-> ds, fatSize |-> size(ds),
                    relSector |-> ds - need(ds) + BU16, reservedSectors |-> 1]
  BY DEF Fat16Sizes
<1>7. PICK d, f, c : d = ds /\ f = size(ds) /\ c = Clusters(ds)
  OBVIOUS
<1>8. d \in Nat /\ f \in Int /\ c \in Int /\ d >= BU16 + 1 + 2 * f + 32
      /\ SectorsPerCluster * c + d <= cardSizeBlocks /\ c + 2 <= 256 * f
  <2>1. d \in Nat  BY <1>5, <1>7 DEF BU16
  <2>2. c \in Int /\ SectorsPerCluster * c + d <= cardSizeBlocks  BY <1>7, <2>1, ClustersFit
  <2>3. f = FatSize(c, 256)  BY <1>7
  <2>4. f \in Int /\ c + 2 <= 256 * f  BY <2>2, <2>3, FatSizes16
  <2>5. d >= BU16 + 1 + 2 * f + 32  BY <1>5, <1>7
  <2> QED BY <2>1, <2>2, <2>4, <2>5
<1>9. Fat16Sizes = [fat |-> 16, nc |-> c, dataStart |-> d, fatSize |-> f,
                    relSector |-> d - (BU16 + 1 + 2 * f + 32) + BU16, reservedSectors |-> 1]
  BY <1>6, <1>7
<1>10. d - (BU16 + 1 + 2 * f + 32) + BU16 = d - 2 * f - 33 /\ d - 2 * f - 33 >= 128
  BY <1>8 DEF BU16
<1> QED BY <1>8, <1>9, <1>10

LEMMA Fat32Layout ==
    ASSUME SizesAssumption, CardInv, sdhc, CapacityMB > 6, Fat32Sizes.nc >= 65525
    PROVE  \E nc, ds, fs \in Int :
             /\ Fat32Sizes = [fat |-> 32, nc |-> nc, dataStart |-> ds, fatSize |-> fs,
                              relSector |-> 8192, reservedSectors |-> ds - 8192 - 2 * fs]
             /\ ds - 8192 - 2 * fs >= 9 /\ ds <= 32768
             /\ SectorsPerCluster * nc + ds <= cardSizeBlocks
             /\ nc + 2 <= 128 * fs
<1> DEFINE size(ds) == FatSize(Clusters(ds), 128)
           K == {k \in 2 .. 16 : BU32 * k >= BU32 + 9 + 2 * size(BU32 * k)}
           ds == BU32 * First(K)
<1>1. ASSUME NEW k \in 2 .. 16
      PROVE  size(BU32 * k) \in Int /\ 128 * size(BU32 * k) <= 1048705
  <2>1. BU32 * k \in Nat  BY DEF BU32
  <2>2. PICK c : c = Clusters(BU32 * k)  OBVIOUS
  <2>3. c \in Int /\ c <= 1048576  BY <2>1, <2>2, ClustersFit
  <2> QED BY <2>2, <2>3, FatBound32
<1>2. 4 \in K
  <2>1. PICK f : f = size(BU32 * 4)  OBVIOUS
  <2>2. f \in Int /\ 128 * f <= 1048705  BY <1>1, <2>1
  <2>3. BU32 * 4 >= BU32 + 9 + 2 * f  BY <2>2 DEF BU32
  <2> QED BY <2>1, <2>3
<1>3. First(K) \in K /\ First(K) <= 4
  BY <1>2, FirstIsLeast
<1>4. PICK k : k = First(K)
  OBVIOUS
<1>5. k \in 2 .. 16 /\ k <= 4 /\ ds = BU32 * k /\ BU32 * k >= BU32 + 9 + 2 * size(BU32 * k)
  BY <1>3, <1>4
<1>6. Fat32Sizes = [fat |-> 32, nc |-> Clusters(ds), dataStart |-> ds, fatSize |-> size(ds),
                    relSector |-> BU32, reservedSectors |-> (ds - BU32 - 2 * size(ds)) % 2^16]
  BY DEF Fat32Sizes
<1>7. PICK d, f, c : d = ds /\ f = size(ds) /\ c = Clusters(ds)
  OBVIOUS
<1>8. d \in Nat /\ d <= 32768 /\ f \in Int /\ c \in Int /\ d >= 8192 + 9 + 2 * f
      /\ SectorsPerCluster * c + d <= cardSizeBlocks /\ c + 2 <= 128 * f
  <2>1. d \in Nat /\ d <= 32768  BY <1>5, <1>7 DEF BU32
  <2>2. c \in Int /\ SectorsPerCluster * c + d <= cardSizeBlocks  BY <1>7, <2>1, ClustersFit
  <2>3. f = FatSize(c, 128)  BY <1>7
  <2>4. f \in Int /\ c + 2 <= 128 * f  BY <2>2, <2>3, FatSizes32
  <2>5. d >= 8192 + 9 + 2 * f  BY <1>5, <1>7 DEF BU32
  <2> QED BY <2>1, <2>2, <2>4, <2>5
<1>9. Fat32Sizes = [fat |-> 32, nc |-> c, dataStart |-> d, fatSize |-> f,
                    relSector |-> BU32, reservedSectors |-> (d - BU32 - 2 * f) % 2^16]
  BY <1>6, <1>7
<1>10. BU32 = 8192 /\ c >= 65525
  BY <1>9 DEF BU32
<1>11. d - 8192 - 2 * f \in Nat /\ d - 8192 - 2 * f < 65536 /\ d - 8192 - 2 * f >= 9
  BY <1>8, <1>10
<1>12. (d - 8192 - 2 * f) % 2^16 = d - 8192 - 2 * f
  BY <1>11, Small
<1> QED BY <1>8, <1>9, <1>10, <1>11, <1>12

\* Where the parts of the volume lie.
Layout(g, s) ==
    /\ s \in {2, 4, 8, 16, 32, 64, 128}
    /\ \A x \in {g.nc, g.dataStart, g.fatSize, g.relSector, g.reservedSectors} : x \in Nat
    /\ g.fat = IF sdhc THEN 32 ELSE 16
    /\ g.relSector >= 1 /\ g.fatSize >= 1
    /\ g.reservedSectors >= IF sdhc THEN 9 ELSE 1
    /\ g.dataStart = FatStart(g) + 2 * g.fatSize + IF sdhc THEN 0 ELSE 32
    /\ PartSize(g) = s * g.nc + g.dataStart - g.relSector
    /\ s * g.nc + g.dataStart <= cardSizeBlocks
    /\ g.nc + 2 <= g.fatSize * IF sdhc THEN 128 ELSE 256
    /\ g.nc >= 4085 /\ (g.nc < 65525 <=> ~sdhc)
    /\ lbnToCylinder(g.relSector) <= 1023

LEMMA LayoutHolds ==
    ASSUME SizesAssumption, CardInv, Formattable
    PROVE  Layout(G, SectorsPerCluster)
<1>1. SectorsPerCluster \in {2, 4, 8, 16, 32, 64, 128}
  BY ClustersFit DEF Formattable
<1>2. PICK s, n : s = SectorsPerCluster /\ n = cardSizeBlocks
  OBVIOUS
<1>3. s \in Nat /\ n \in Nat
  BY <1>1, <1>2, Capacity
<1>4. CASE ~sdhc
  <2>1. G = Fat16Sizes /\ CapacityMB > 6  BY <1>4 DEF G, Formattable
  <2>2. PICK nc \in Int, ds \in Int, fs \in Int :
             /\ G = [fat |-> 16, nc |-> nc, dataStart |-> ds, fatSize |-> fs,
                     relSector |-> ds - 2 * fs - 33, reservedSectors |-> 1]
             /\ ds - 2 * fs - 33 >= 128
             /\ s * nc + ds <= n
             /\ nc + 2 <= 256 * fs
    BY <1>2, <1>4, <2>1, Fat16Layout
  <2>3. PICK g : g = G  OBVIOUS
  <2>4. /\ g.fat = 16 /\ g.nc = nc /\ g.dataStart = ds /\ g.fatSize = fs
        /\ g.relSector = ds - 2 * fs - 33 /\ g.reservedSectors = 1
    BY <2>2, <2>3
  <2>5. nc >= 4085 /\ nc < 65525
    BY <2>3, <2>4 DEF Formattable, ClustersValid
  <2>6. fs >= 1  BY <2>2, <2>5
  <2>7. FatStart(g) = ds - 2 * fs - 32  BY <2>2, <2>4 DEF FatStart
  <2>8. s * nc \in Int  BY <1>3
  <2>9. PartSize(g) = s * nc + ds - (ds - 2 * fs - 33)
    <3>1. PartSize(g) = nc * s + (2 * fs + 1 + 32)  BY <1>2, <2>4 DEF PartSize
    <3>2. nc * s = s * nc  BY <1>3
    <3> QED BY <2>8, <3>1, <3>2
  <2>10. PICK rel : rel = ds - 2 * fs - 33  OBVIOUS
  <2>11. rel \in Nat /\ rel >= 1  BY <2>2, <2>10
  <2>12. lbnToCylinder(rel) <= 1023
    <3>1. lbnToCylinder(rel) \in Int
      <4>1. NumberOfHeads * SectorsPerTrack \in Nat \ {0}  BY <2>1, CylinderSize
      <4>2. rel \div (NumberOfHeads * SectorsPerTrack) \in Int  BY <4>1, <2>11, DivMod
      <4> QED BY <4>2, Wide, DivMod DEF lbnToCylinder
    <3> QED BY <2>3, <2>4, <2>10, <3>1 DEF Formattable
  <2>13. /\ g.nc \in Nat /\ g.dataStart \in Nat /\ g.fatSize \in Nat
         /\ g.relSector \in Nat /\ g.reservedSectors \in Nat
    BY <2>2, <2>4, <2>5, <2>6
  <2>14. g.dataStart = FatStart(g) + 2 * g.fatSize + 32  BY <2>4, <2>7
  <2> QED BY <1>1, <1>2, <1>4, <2>2, <2>3, <2>4, <2>5, <2>6, <2>9, <2>10, <2>11, <2>12, <2>13, <2>14 DEF Layout
<1>5. CASE sdhc
  <2>1. G = Fat32Sizes /\ CapacityMB > 6  BY <1>5 DEF G, Formattable
  <2>2. Fat32Sizes.fat = 32  BY DEF Fat32Sizes
  <2>3. Fat32Sizes.nc >= 65525  BY <2>1, <2>2 DEF Formattable, ClustersValid
  <2>4. PICK nc \in Int, ds \in Int, fs \in Int :
             /\ G = [fat |-> 32, nc |-> nc, dataStart |-> ds, fatSize |-> fs,
                     relSector |-> 8192, reservedSectors |-> ds - 8192 - 2 * fs]
             /\ ds - 8192 - 2 * fs >= 9 /\ ds <= 32768
             /\ s * nc + ds <= n
             /\ nc + 2 <= 128 * fs
    BY <1>2, <1>5, <2>1, <2>3, Fat32Layout
  <2>5. PICK g : g = G  OBVIOUS
  <2>6. /\ g.fat = 32 /\ g.nc = nc /\ g.dataStart = ds /\ g.fatSize = fs
        /\ g.relSector = 8192 /\ g.reservedSectors = ds - 8192 - 2 * fs
    BY <2>4, <2>5
  <2>7. nc >= 65525 /\ fs >= 1
    BY <2>1, <2>3, <2>4
  <2>8. FatStart(g) = ds - 2 * fs  BY <2>4, <2>6 DEF FatStart
  <2>9. s * nc \in Int  BY <1>3
  <2>10. PartSize(g) = s * nc + ds - 8192
    <3>1. PartSize(g) = nc * s + (ds - 8192)  BY <1>2, <2>6 DEF PartSize
    <3>2. nc * s = s * nc  BY <1>3
    <3> QED BY <2>9, <3>1, <3>2
  <2>11. lbnToCylinder(8192) <= 1023
    <3>1. lbnToCylinder(8192) \in Int
      <4>1. NumberOfHeads * SectorsPerTrack \in Nat \ {0}  BY <2>1, CylinderSize
      <4>2. PICK w : w = NumberOfHeads * SectorsPerTrack  OBVIOUS
      <4>3. PICK q : q = 8192 \div w  OBVIOUS
      <4>4. q \in Int  BY <4>1, <4>2, <4>3, DivMod
      <4>5. q % 65536 \in Int  BY <4>4, DivMod
      <4> QED BY <4>2, <4>3, <4>5, Wide DEF lbnToCylinder
    <3> QED BY <2>5, <2>6, <3>1 DEF Formattable
  <2>12. /\ g.nc \in Nat /\ g.dataStart \in Nat /\ g.fatSize \in Nat
         /\ g.relSector \in Nat /\ g.reservedSectors \in Nat
    BY <2>4, <2>6, <2>7
  <2>13. g.dataStart = FatStart(g) + 2 * g.fatSize + 0  BY <2>4, <2>6, <2>8
  <2> QED BY <1>1, <1>2, <1>5, <2>4, <2>5, <2>6, <2>7, <2>10, <2>11, <2>12, <2>13 DEF Layout
<1> QED BY <1>4, <1>5

-----------------------------------------------------------------------------
(* What the writes leave on the card *)

\* Single blocks on a card of n blocks
IsStore(s, n) ==
    /\ s = [at |-> s.at, zeros |-> s.zeros]
    /\ \A b \in DOMAIN s.at : b \in Nat /\ b < n

LEMMA OneBlock ==
    ASSUME NEW n \in Nat, NEW s, IsStore(s, n), NEW from \in Nat, from < n, NEW data, data # Zeros,
           NEW t, t = Overwritten(s, from, 1, data)
    PROVE  /\ IsStore(t, n) /\ t.zeros = s.zeros
           /\ DOMAIN t.at = (DOMAIN s.at) \cup {from} /\ t.at[from] = data
           /\ \A b \in DOMAIN s.at : b # from => t.at[b] = s.at[b]
<1> DEFINE keep == {b \in DOMAIN s.at : b < from \/ b >= from + 1}
           held == [b \in keep \cup {from} |-> IF b = from THEN data ELSE s.at[b]]
<1>1. \A b \in DOMAIN s.at : b \in keep <=> b # from
  BY DEF IsStore
<1>2. t = [s EXCEPT !.at = held]
  BY DEF Overwritten
<1>3. DOMAIN held = (DOMAIN s.at) \cup {from}
  BY <1>1
<1>4. held[from] = data /\ \A b \in DOMAIN s.at : b # from => held[b] = s.at[b]
  BY <1>1
<1> HIDE DEF keep, held
<1>5. t.at = held /\ t.zeros = s.zeros /\ t = [at |-> t.at, zeros |-> t.zeros]
  BY <1>2 DEF IsStore
<1>6. \A b \in DOMAIN t.at : b \in Nat /\ b < n
  BY <1>3, <1>5 DEF IsStore
<1> QED BY <1>3, <1>4, <1>5, <1>6 DEF IsStore

LEMMA ManyBlocks ==
    ASSUME NEW n \in Nat, NEW s, IsStore(s, n), NEW from \in Nat, NEW count \in Nat,
           NEW t, t = Overwritten(s, from, count, Zeros)
    PROVE  /\ IsStore(t, n) /\ t.zeros = [from |-> from, n |-> count]
           /\ \A b : b \in DOMAIN t.at <=> b \in DOMAIN s.at /\ ~(from <= b /\ b < from + count)
           /\ \A b \in DOMAIN t.at : t.at[b] = s.at[b]
<1> DEFINE keep == {b \in DOMAIN s.at : b < from \/ b >= from + count}
           held == [b \in keep |-> s.at[b]]
<1>1. \A b \in DOMAIN s.at : b \in keep <=> ~(from <= b /\ b < from + count)
  BY DEF IsStore
<1>2. t = [at |-> held, zeros |-> [from |-> from, n |-> count]]
  BY DEF Overwritten
<1>3. DOMAIN held = keep /\ keep \subseteq DOMAIN s.at /\ \A b \in keep : held[b] = s.at[b]
  OBVIOUS
<1> HIDE DEF keep, held
<1>4. t.at = held /\ t.zeros = [from |-> from, n |-> count] /\ t = [at |-> t.at, zeros |-> t.zeros]
  BY <1>2
<1>5. \A b \in DOMAIN t.at : b \in Nat /\ b < n
  BY <1>3, <1>4 DEF IsStore
<1> QED BY <1>1, <1>3, <1>4, <1>5 DEF IsStore

\* A list of writes: none goes over one that came before it, except those into the zeros,
\* which are written once.
IsPlan(w, n) ==
    /\ \A i \in 1 .. Len(w) :
         /\ w[i].lbn \in Nat /\ w[i].count \in Nat /\ w[i].count >= 1
         /\ w[i].lbn + w[i].count <= n
         /\ w[i].data # Zeros => w[i].count = 1
    /\ \A i, k \in 1 .. Len(w) :
         i < k => IF w[i].data = Zeros THEN w[k].data # Zeros
                  ELSE w[i].lbn < w[k].lbn \/ w[i].lbn >= w[k].lbn + w[k].count

\* Those before the j-th are done.
Done(w, s, j) ==
    \A i \in 1 .. Len(w) : i < j =>
        IF w[i].data = Zeros
          THEN /\ s.zeros = [from |-> w[i].lbn, n |-> w[i].count]
               /\ \A b \in DOMAIN s.at :
                    w[i].lbn <= b /\ b < w[i].lbn + w[i].count =>
                      \E k \in 1 .. Len(w) : i < k /\ k < j /\ b = w[k].lbn
        ELSE w[i].lbn \in DOMAIN s.at /\ s.at[w[i].lbn] = w[i].data

LEMMA DoneNext ==
    ASSUME NEW n \in Nat, NEW w, Len(w) \in Nat, IsPlan(w, n), NEW s, IsStore(s, n),
           NEW j \in 1 .. Len(w), Done(w, s, j),
           NEW t, t = Overwritten(s, w[j].lbn, w[j].count, w[j].data)
    PROVE  IsStore(t, n) /\ Done(w, t, j + 1)
<1>1. PICK from, count, data : from = w[j].lbn /\ count = w[j].count /\ data = w[j].data
  OBVIOUS
<1>2. /\ from \in Nat /\ count \in Nat /\ count >= 1 /\ from + count <= n
      /\ data # Zeros => count = 1
  BY <1>1 DEF IsPlan
<1>3. CASE data # Zeros
  <2>1. t = Overwritten(s, from, 1, data) /\ from < n
    BY <1>1, <1>2, <1>3
  <2>2. /\ IsStore(t, n) /\ t.zeros = s.zeros
        /\ DOMAIN t.at = (DOMAIN s.at) \cup {from} /\ t.at[from] = data
        /\ \A b \in DOMAIN s.at : b # from => t.at[b] = s.at[b]
    BY <1>2, <1>3, <2>1, OneBlock
  <2>3. ASSUME NEW i \in 1 .. Len(w), i < j + 1
        PROVE  IF w[i].data = Zeros
                 THEN /\ t.zeros = [from |-> w[i].lbn, n |-> w[i].count]
                      /\ \A b \in DOMAIN t.at :
                           w[i].lbn <= b /\ b < w[i].lbn + w[i].count =>
                             \E k \in 1 .. Len(w) : i < k /\ k < j + 1 /\ b = w[k].lbn
               ELSE w[i].lbn \in DOMAIN t.at /\ t.at[w[i].lbn] = w[i].data
    <3>1. CASE i = j
      BY <1>1, <1>3, <2>2, <3>1
    <3>2. CASE i < j /\ w[i].data = Zeros
      <4>1. /\ s.zeros = [from |-> w[i].lbn, n |-> w[i].count]
            /\ \A b \in DOMAIN s.at :
                    w[i].lbn <= b /\ b < w[i].lbn + w[i].count =>
                      \E k \in 1 .. Len(w) : i < k /\ k < j /\ b = w[k].lbn
        BY <3>2 DEF Done
      <4>2. ASSUME NEW b \in DOMAIN t.at, w[i].lbn <= b, b < w[i].lbn + w[i].count
            PROVE  \E k \in 1 .. Len(w) : i < k /\ k < j + 1 /\ b = w[k].lbn
        <5>1. CASE b = from  BY <1>1, <3>2, <5>1
        <5>2. CASE b # from  BY <2>2, <4>1, <4>2, <5>2
        <5> QED BY <5>1, <5>2
      <4> QED BY <2>2, <3>2, <4>1, <4>2
    <3>3. CASE i < j /\ w[i].data # Zeros
      <4>1. w[i].lbn \in DOMAIN s.at /\ s.at[w[i].lbn] = w[i].data
        BY <3>3 DEF Done
      <4>2. w[i].lbn # from
        BY <1>1, <1>2, <3>3 DEF IsPlan
      <4> QED BY <2>2, <3>3, <4>1, <4>2
    <3> QED BY <2>3, <3>1, <3>2, <3>3
  <2> QED BY <2>2, <2>3 DEF Done
<1>4. CASE data = Zeros
  <2>1. t = Overwritten(s, from, count, Zeros)
    BY <1>1, <1>4
  <2>2. /\ IsStore(t, n) /\ t.zeros = [from |-> from, n |-> count]
        /\ \A b : b \in DOMAIN t.at <=> b \in DOMAIN s.at /\ ~(from <= b /\ b < from + count)
        /\ \A b \in DOMAIN t.at : t.at[b] = s.at[b]
    BY <1>2, <2>1, ManyBlocks
  <2>3. ASSUME NEW i \in 1 .. Len(w), i < j
        PROVE  w[i].data # Zeros /\ w[i].lbn \in DOMAIN t.at /\ t.at[w[i].lbn] = w[i].data
    <3>1. w[i].data # Zeros  BY <1>1, <1>4, <2>3 DEF IsPlan
    <3>2. w[i].lbn < from \/ w[i].lbn >= from + count  BY <1>1, <2>3, <3>1 DEF IsPlan
    <3>3. w[i].lbn \in DOMAIN s.at /\ s.at[w[i].lbn] = w[i].data  BY <2>3, <3>1 DEF Done
    <3>4. w[i].lbn \in Nat  BY DEF IsPlan
    <3>5. ~(from <= w[i].lbn /\ w[i].lbn < from + count)
      BY <1>2, <3>2, <3>4
    <3> QED BY <2>2, <3>1, <3>3, <3>5
  <2>4. \A i \in 1 .. Len(w) : i < j + 1 => i < j \/ i = j
    OBVIOUS
  <2> QED BY <1>1, <1>4, <2>2, <2>3, <2>4 DEF Done
<1> QED BY <1>3, <1>4

\* What makeFat16 or makeFat32 writes.
Plan == IF sdhc THEN Fat32Writes(G) ELSE Fat16Writes(G)

\* Blocks 0 to k - 1 are erased.
Erased(s, k) ==
    /\ s.zeros = [from |-> 0, n |-> k]
    /\ \A b \in DOMAIN s.at : b >= k

\* todo is the plan from its j-th write on, and those before it are done.
WriteInv ==
    /\ Formattable
    /\ \E j \in 1 .. Len(Plan) + 1 :
         /\ Len(todo) = Len(Plan) + 1 - j
         /\ \A i \in 1 .. Len(todo) : todo[i] = Plan[i + j - 1]
         /\ Done(Plan, store, j)

PromiseInv ==
    /\ promised = "Format done" => Formattable /\ Done(Plan, store, Len(Plan) + 1)
    /\ promised = "Erase done" => Erased(store, cardSizeBlocks)

StepInv ==
    /\ step = "menu" => bgn = 0
    /\ step = "erase" =>
         /\ bgn \in Nat
         /\ bgn > 0 => Erased(store, IF bgn >= cardSizeBlocks THEN cardSizeBlocks ELSE bgn)
    /\ step = "write" => WriteInv

FormatInv ==
    /\ CardInv /\ PromiseInv /\ StepInv
    /\ IsStore(store, cardSizeBlocks)
    /\ \E S : todo \in Seq(S)

\* The card's sizes do not change.
LEMMA Untouched ==
    ASSUME cardSizeBlocks' = cardSizeBlocks, sdhc' = sdhc
    PROVE  /\ CardInv => CardInv'
           /\ Plan' = Plan /\ (Formattable => Formattable')
<1>1. CapacityMB' = CapacityMB
  BY DEF CapacityMB
<1>2. SectorsPerCluster' = SectorsPerCluster /\ NumberOfHeads' = NumberOfHeads
      /\ SectorsPerTrack' = SectorsPerTrack
  BY <1>1 DEF SectorsPerCluster, NumberOfHeads, SectorsPerTrack, Upto
<1>3. Fat16Sizes' = Fat16Sizes /\ Fat32Sizes' = Fat32Sizes
  BY <1>2 DEF Fat16Sizes, Fat32Sizes, Clusters
<1>4. G' = G
  BY <1>3 DEF G
<1>5. \A b : lbnToCylinder(b)' = lbnToCylinder(b) /\ lbnToHead(b)' = lbnToHead(b)
             /\ lbnToSector(b)' = lbnToSector(b)
  BY <1>2 DEF lbnToCylinder, lbnToHead, lbnToSector
<1>6. Formattable => Formattable'
  BY <1>1, <1>4, <1>2 DEF Formattable, ClustersValid, lbnToCylinder
<1>7. Plan' = Plan
  BY <1>2, <1>4 DEF Plan, Fat16Writes, Fat32Writes, Put, Clear, Mbr, BootSector, PartType, PartSize, CHS,
     FatStart, ReservedEntries, lbnToCylinder, lbnToHead, lbnToSector
<1> QED BY <1>6, <1>7 DEF CardInv

\* The writes by number: where they go, how far, and what they are.
LEMMA Plan16 ==
    ASSUME ~sdhc
    PROVE  /\ Len(Plan) = 5
           /\ Plan[1] = Put(0, Mbr(G)) /\ Plan[2] = Put(G.relSector, BootSector(G))
           /\ Plan[3] = Clear(FatStart(G), G.dataStart - FatStart(G))
           /\ Plan[4] = Put(FatStart(G), ReservedEntries(G))
           /\ Plan[5] = Put(FatStart(G) + G.fatSize, ReservedEntries(G))
BY DEF Plan, Fat16Writes

LEMMA Plan32 ==
    ASSUME sdhc
    PROVE  /\ Len(Plan) = 10
           /\ Plan[1] = Put(0, Mbr(G)) /\ Plan[2] = Put(G.relSector, BootSector(G))
           /\ Plan[3] = Put(G.relSector + 6, BootSector(G))
           /\ Plan[4] = Put(G.relSector + 2, Extra) /\ Plan[5] = Put(G.relSector + 8, Extra)
           /\ Plan[6] = Put(G.relSector + 1, FsInfo) /\ Plan[7] = Put(G.relSector + 7, FsInfo)
           /\ Plan[8] = Clear(FatStart(G), 2 * G.fatSize + SectorsPerCluster)
           /\ Plan[9] = Put(FatStart(G), ReservedEntries(G))
           /\ Plan[10] = Put(FatStart(G) + G.fatSize, ReservedEntries(G))
BY DEF Plan, Fat32Writes

LEMMA NotZeros ==
    ASSUME NEW g
    PROVE  /\ Mbr(g) # Zeros /\ BootSector(g) # Zeros /\ Extra # Zeros /\ FsInfo # Zeros
           /\ ReservedEntries(g) # Zeros
<1>1. Mbr(g).kind = "mbr" /\ BootSector(g).kind = "boot" /\ Extra.kind = "signature"
      /\ FsInfo.kind = "fsinfo" /\ ReservedEntries(g).kind = "fat" /\ Zeros.kind = "zeros"
  BY DEF Mbr, BootSector, Extra, FsInfo, ReservedEntries, Zeros
<1> QED BY <1>1

LEMMA PlanHolds ==
    ASSUME SizesAssumption, CardInv, Formattable
    PROVE  IsPlan(Plan, cardSizeBlocks)
<1>1. Layout(G, SectorsPerCluster)
  BY LayoutHolds
<1>2. PICK rel, fat, fs, ds, nc, s, n :
        /\ rel = G.relSector /\ fat = FatStart(G) /\ fs = G.fatSize /\ ds = G.dataStart /\ nc = G.nc
        /\ s = SectorsPerCluster /\ n = cardSizeBlocks
  OBVIOUS
<1>3. /\ rel \in Nat /\ fat \in Nat /\ fs \in Nat /\ ds \in Nat /\ n \in Nat /\ s \in Nat
      /\ rel >= 1 /\ fs >= 1 /\ fat >= rel + (IF sdhc THEN 9 ELSE 1)
      /\ ds = fat + 2 * fs + IF sdhc THEN 0 ELSE 32
      /\ ds + s <= n
  <2>1. nc \in Nat /\ nc >= 1 /\ s * nc + ds <= n /\ n \in Nat /\ ds \in Nat /\ s \in {2, 4, 8, 16, 32, 64, 128}
    BY <1>1, <1>2, Capacity DEF Layout
  <2>2. ds + s <= n
    BY <2>1
  <2> QED BY <1>1, <1>2, <2>1, <2>2 DEF Layout, FatStart
<1>4. CASE ~sdhc
  <2> DEFINE w == Plan
  <2>1. /\ Len(w) = 5
        /\ w[1].lbn = 0 /\ w[1].count = 1 /\ w[1].data # Zeros
        /\ w[2].lbn = rel /\ w[2].count = 1 /\ w[2].data # Zeros
        /\ w[3].lbn = fat /\ w[3].count = ds - fat /\ w[3].data = Zeros
        /\ w[4].lbn = fat /\ w[4].count = 1 /\ w[4].data # Zeros
        /\ w[5].lbn = fat + fs /\ w[5].count = 1 /\ w[5].data # Zeros
    BY <1>2, <1>4, Plan16, NotZeros DEF Put, Clear
  <2> HIDE DEF w
  <2>2. ASSUME NEW i \in 1 .. Len(w)
        PROVE  /\ w[i].lbn \in Nat /\ w[i].count \in Nat /\ w[i].count >= 1
               /\ w[i].lbn + w[i].count <= n
               /\ w[i].data # Zeros => w[i].count = 1
    BY <1>3, <1>4, <2>1
  <2>3. ASSUME NEW i \in 1 .. Len(w), NEW k \in 1 .. Len(w), i < k
        PROVE  IF w[i].data = Zeros THEN w[k].data # Zeros
               ELSE w[i].lbn < w[k].lbn \/ w[i].lbn >= w[k].lbn + w[k].count
    BY <1>3, <1>4, <2>1, <2>3
  <2>4. IsPlan(w, n)  BY <2>2, <2>3 DEF IsPlan
  <2> QED BY <1>2, <2>4 DEF w
<1>5. CASE sdhc
  <2> DEFINE w == Plan
  <2>1. /\ Len(w) = 10
        /\ w[1].lbn = 0 /\ w[1].count = 1 /\ w[1].data # Zeros
        /\ w[2].lbn = rel /\ w[2].count = 1 /\ w[2].data # Zeros
        /\ w[3].lbn = rel + 6 /\ w[3].count = 1 /\ w[3].data # Zeros
        /\ w[4].lbn = rel + 2 /\ w[4].count = 1 /\ w[4].data # Zeros
        /\ w[5].lbn = rel + 8 /\ w[5].count = 1 /\ w[5].data # Zeros
        /\ w[6].lbn = rel + 1 /\ w[6].count = 1 /\ w[6].data # Zeros
        /\ w[7].lbn = rel + 7 /\ w[7].count = 1 /\ w[7].data # Zeros
        /\ w[8].lbn = fat /\ w[8].count = 2 * fs + s /\ w[8].data = Zeros
        /\ w[9].lbn = fat /\ w[9].count = 1 /\ w[9].data # Zeros
        /\ w[10].lbn = fat + fs /\ w[10].count = 1 /\ w[10].data # Zeros
    BY <1>2, <1>5, Plan32, NotZeros DEF Put, Clear
  <2> HIDE DEF w
  <2>2. ASSUME NEW i \in 1 .. Len(w)
        PROVE  /\ w[i].lbn \in Nat /\ w[i].count \in Nat /\ w[i].count >= 1
               /\ w[i].lbn + w[i].count <= n
               /\ w[i].data # Zeros => w[i].count = 1
    BY <1>3, <1>5, <2>1
  <2>3. ASSUME NEW i \in 1 .. Len(w), NEW k \in 1 .. Len(w), i < k
        PROVE  IF w[i].data = Zeros THEN w[k].data # Zeros
               ELSE w[i].lbn < w[k].lbn \/ w[i].lbn >= w[k].lbn + w[k].count
    <3>1. CASE k >= 8  BY <1>3, <1>5, <2>1, <2>3, <3>1
    <3>2. CASE k < 8  BY <1>3, <1>5, <2>1, <2>3, <3>2
    <3> QED BY <3>1, <3>2, <2>1
  <2>4. IsPlan(w, n)  BY <2>2, <2>3 DEF IsPlan
  <2> QED BY <1>2, <2>4 DEF w
<1> QED BY <1>4, <1>5

-----------------------------------------------------------------------------
(* Mounting *)

\* What is on the card when the plan has been carried out: the zeros reach over both
\* FATs and the root directory.
RootLength == IF sdhc THEN SectorsPerCluster ELSE 32
OnCard(g, fat) ==
    /\ 0 \in DOMAIN store.at /\ store.at[0] = Mbr(g)
    /\ g.relSector \in DOMAIN store.at /\ store.at[g.relSector] = BootSector(g)
    /\ fat \in DOMAIN store.at /\ store.at[fat] = ReservedEntries(g)
    /\ fat + g.fatSize \in DOMAIN store.at /\ store.at[fat + g.fatSize] = ReservedEntries(g)
    /\ store.zeros = [from |-> fat, n |-> 2 * g.fatSize + RootLength]
    /\ \A b \in DOMAIN store.at :
         fat <= b /\ b < fat + (2 * g.fatSize + RootLength) => b \in {fat, fat + g.fatSize}

LEMMA AllDone ==
    ASSUME SizesAssumption, CardInv, Formattable, Done(Plan, store, Len(Plan) + 1)
    PROVE  OnCard(G, FatStart(G))
<1>1. Layout(G, SectorsPerCluster)
  BY LayoutHolds
<1>2. PICK fat : fat = FatStart(G)
  OBVIOUS
<1>3. fat \in Nat /\ G.fatSize \in Nat /\ G.dataStart \in Nat
  <2>1. G.relSector \in Nat /\ G.reservedSectors \in Nat /\ G.fatSize \in Nat /\ G.dataStart \in Nat
    BY <1>1 DEF Layout
  <2> QED BY <1>2, <2>1 DEF FatStart
<1> DEFINE w == Plan
<1>4. CASE ~sdhc
  <2>1. /\ Len(w) = 5
        /\ w[1].lbn = 0 /\ w[1].data = Mbr(G) /\ w[1].data # Zeros
        /\ w[2].lbn = G.relSector /\ w[2].data = BootSector(G) /\ w[2].data # Zeros
        /\ w[3].lbn = fat /\ w[3].count = G.dataStart - fat /\ w[3].data = Zeros
        /\ w[4].lbn = fat /\ w[4].data = ReservedEntries(G) /\ w[4].data # Zeros
        /\ w[5].lbn = fat + G.fatSize /\ w[5].data = ReservedEntries(G) /\ w[5].data # Zeros
    BY <1>2, <1>4, Plan16, NotZeros DEF Put, Clear
  <2>2. G.dataStart - fat = 2 * G.fatSize + RootLength
    <3>1. G.dataStart = FatStart(G) + 2 * G.fatSize + IF sdhc THEN 0 ELSE 32
      BY <1>1 DEF Layout
    <3>2. PICK d, f : d = G.dataStart /\ f = G.fatSize
      OBVIOUS
    <3>3. d = fat + 2 * f + 32
      BY <1>2, <1>4, <3>1, <3>2
    <3> QED BY <1>3, <1>4, <3>2, <3>3 DEF RootLength
  <2> HIDE DEF w
  <2>3. Done(w, store, 6)
    BY <2>1 DEF w
  <2>4. /\ store.at[0] = Mbr(G) /\ 0 \in DOMAIN store.at
        /\ store.at[G.relSector] = BootSector(G) /\ G.relSector \in DOMAIN store.at
        /\ store.at[fat] = ReservedEntries(G) /\ fat \in DOMAIN store.at
        /\ store.at[fat + G.fatSize] = ReservedEntries(G) /\ fat + G.fatSize \in DOMAIN store.at
    BY <2>1, <2>3 DEF Done
  <2>5. /\ store.zeros = [from |-> w[3].lbn, n |-> w[3].count]
        /\ \A b \in DOMAIN store.at : w[3].lbn <= b /\ b < w[3].lbn + w[3].count =>
                      \E k \in 1 .. Len(w) : 3 < k /\ k < 6 /\ b = w[k].lbn
    BY <2>1, <2>3 DEF Done
  <2>6. \A k \in 1 .. Len(w) : 3 < k /\ k < 6 => k = 4 \/ k = 5
    BY <2>1
  <2> QED BY <1>2, <2>1, <2>2, <2>4, <2>5, <2>6 DEF OnCard
<1>5. CASE sdhc
  <2>1. /\ Len(w) = 10
        /\ w[1].lbn = 0 /\ w[1].data = Mbr(G) /\ w[1].data # Zeros
        /\ w[2].lbn = G.relSector /\ w[2].data = BootSector(G) /\ w[2].data # Zeros
        /\ w[8].lbn = fat /\ w[8].count = 2 * G.fatSize + RootLength /\ w[8].data = Zeros
        /\ w[9].lbn = fat /\ w[9].data = ReservedEntries(G) /\ w[9].data # Zeros
        /\ w[10].lbn = fat + G.fatSize /\ w[10].data = ReservedEntries(G) /\ w[10].data # Zeros
    BY <1>2, <1>5, Plan32, NotZeros DEF Put, Clear, RootLength
  <2> HIDE DEF w
  <2>3. Done(w, store, 11)
    BY <2>1 DEF w
  <2>4. /\ store.at[0] = Mbr(G) /\ 0 \in DOMAIN store.at
        /\ store.at[G.relSector] = BootSector(G) /\ G.relSector \in DOMAIN store.at
        /\ store.at[fat] = ReservedEntries(G) /\ fat \in DOMAIN store.at
        /\ store.at[fat + G.fatSize] = ReservedEntries(G) /\ fat + G.fatSize \in DOMAIN store.at
    BY <2>1, <2>3 DEF Done
  <2>5. /\ store.zeros = [from |-> w[8].lbn, n |-> w[8].count]
        /\ \A b \in DOMAIN store.at : w[8].lbn <= b /\ b < w[8].lbn + w[8].count =>
                      \E k \in 1 .. Len(w) : 8 < k /\ k < 11 /\ b = w[k].lbn
    BY <2>1, <2>3 DEF Done
  <2>6. \A k \in 1 .. Len(w) : 8 < k /\ k < 11 => k = 9 \/ k = 10
    BY <2>1
  <2> QED BY <1>2, <2>1, <2>4, <2>5, <2>6 DEF OnCard
<1> QED BY <1>4, <1>5

LEMMA Powers == ASSUME NEW s \in {2, 4, 8, 16, 32, 64, 128} PROVE PowerOfTwo(s)
<1>1. 2^1 = 2 /\ 2^2 = 4 /\ 2^3 = 8 /\ 2^4 = 16 /\ 2^5 = 32 /\ 2^6 = 64 /\ 2^7 = 128
  OBVIOUS
<1> QED BY <1>1 DEF PowerOfTwo

\* SdVolume::init reads from the boot sector what the sketch has computed.
LEMMA Mounts ==
    ASSUME Layout(G, SectorsPerCluster), OnCard(G, FatStart(G)), NEW g, g = G
    PROVE  Mount = [ok |-> TRUE, fatType |-> IF sdhc THEN 32 ELSE 16,
                    blocksPerCluster |-> SectorsPerCluster, blocksPerFat |-> g.fatSize,
                    fatStartBlock |-> FatStart(g), dataStartBlock |-> g.dataStart,
                    clusterCount |-> g.nc,
                    rootDirStart |-> IF sdhc THEN 2 ELSE FatStart(g) + 2 * g.fatSize]
<1>1. PICK s : s = SectorsPerCluster
  OBVIOUS
<1>2. PICK b : b = BootSector(g)
  OBVIOUS
<1>3. PICK start, res, fs, ds, nc :
        start = g.relSector /\ res = g.reservedSectors /\ fs = g.fatSize /\ ds = g.dataStart /\ nc = g.nc
  OBVIOUS
<1>4. /\ s \in {2, 4, 8, 16, 32, 64, 128} /\ start \in Nat /\ res \in Nat /\ fs \in Nat /\ ds \in Nat
      /\ nc \in Nat /\ start >= 1 /\ res >= 1 /\ fs >= 1
      /\ ds = start + res + 2 * fs + (IF sdhc THEN 0 ELSE 32)
      /\ PartSize(g) = s * nc + ds - start
      /\ nc >= 4085 /\ (nc < 65525 <=> ~sdhc)
      /\ g.fat = (IF sdhc THEN 32 ELSE 16)
  BY <1>1, <1>3 DEF Layout, FatStart
<1>5. /\ b.kind = "boot" /\ b.bytesPerSector = 512 /\ b.sectorsPerCluster = s
      /\ b.reservedSectorCount = res /\ b.fatCount = 2
      /\ b.rootDirEntryCount = (IF sdhc THEN 0 ELSE 512) /\ b.totalSectors16 = 0
      /\ b.sectorsPerFat16 = (IF sdhc THEN 0 ELSE fs)
      /\ b.totalSectors32 = PartSize(g) /\ b.sectorsPerFat32 = (IF sdhc THEN fs ELSE 0)
      /\ b.fat32RootCluster = (IF sdhc THEN 2 ELSE 0)
  BY <1>1, <1>2, <1>3, <1>4 DEF BootSector
<1>6. On(start) = b /\ On(0) = Mbr(g)
  BY <1>2, <1>3 DEF On, OnCard
<1>7. MountAt(start) = Volume(start, b)
  <2>1. PowerOfTwo(b.sectorsPerCluster)  BY <1>4, <1>5, Powers
  <2> QED BY <1>4, <1>5, <1>6, <2>1 DEF MountAt
<1>8. (s * nc) \div s = nc
  <2>1. s * nc + 0 = s * nc  BY <1>4
  <2>2. s \in Nat \ {0}  BY <1>4
  <2> QED BY <1>4, <2>1, <2>2, DivUnique
<1>9. (IF b.sectorsPerFat16 # 0 THEN b.sectorsPerFat16 ELSE b.sectorsPerFat32) = fs
  BY <1>4, <1>5
<1>10. (32 * b.rootDirEntryCount + 511) \div 512 = IF sdhc THEN 0 ELSE 32
  <2>1. (512 * 32 + 511) \div 512 = 32 /\ (512 * 0 + 511) \div 512 = 0
    BY DivUnique
  <2> QED BY <1>5, <2>1
<1>11. start + res + 2 * fs + (IF sdhc THEN 0 ELSE 32) = ds
  BY <1>4
<1>12. PartSize(g) - (ds - start) = s * nc
  <2>1. PICK p : p = s * nc  OBVIOUS
  <2>2. p \in Int  BY <1>4, <2>1
  <2>3. PartSize(g) = p + ds - start  BY <1>4, <2>1
  <2> QED BY <1>4, <2>1, <2>2, <2>3
<1>13. Volume(start, b) =
        [ok |-> TRUE, fatType |-> IF sdhc THEN 32 ELSE 16,
         blocksPerCluster |-> s, blocksPerFat |-> fs, fatStartBlock |-> start + res,
         dataStartBlock |-> ds, clusterCount |-> nc,
         rootDirStart |-> IF sdhc THEN 2 ELSE start + res + 2 * fs]
  <2> DEFINE fatSize   == IF b.sectorsPerFat16 # 0 THEN b.sectorsPerFat16 ELSE b.sectorsPerFat32
             fatStart  == start + b.reservedSectorCount
             rootStart == fatStart + b.fatCount * fatSize
             dataStart == rootStart + (32 * b.rootDirEntryCount + 511) \div 512
             total     == IF b.totalSectors16 # 0 THEN b.totalSectors16 ELSE b.totalSectors32
             count     == (total - (dataStart - start)) \div b.sectorsPerCluster
  <2>1. fatSize = fs /\ fatStart = start + res  BY <1>5, <1>9
  <2>2. rootStart = start + res + 2 * fs  BY <1>4, <1>5, <2>1
  <2>3. dataStart = ds  BY <1>10, <1>11, <2>2
  <2>4. total = PartSize(g)  BY <1>5
  <2>5. count = nc  BY <1>5, <1>8, <1>12, <2>3, <2>4
  <2>6. Volume(start, b) =
        IF count < 4085 THEN NotMounted
        ELSE [ok |-> TRUE, fatType |-> IF count < 65525 THEN 16 ELSE 32,
              blocksPerCluster |-> b.sectorsPerCluster, blocksPerFat |-> fatSize,
              fatStartBlock |-> fatStart, dataStartBlock |-> dataStart, clusterCount |-> count,
              rootDirStart |-> IF count < 65525 THEN rootStart ELSE b.fat32RootCluster]
    BY DEF Volume
  <2> HIDE DEF fatSize, fatStart, rootStart, dataStart, total, count
  <2>7. CASE sdhc
    <3>1. ~(nc < 4085) /\ ~(nc < 65525)  BY <1>4, <2>7
    <3> QED BY <1>5, <2>1, <2>2, <2>3, <2>5, <2>6, <2>7, <3>1
  <2>8. CASE ~sdhc
    <3>1. ~(nc < 4085) /\ nc < 65525  BY <1>4, <2>8
    <3> QED BY <1>5, <2>1, <2>2, <2>3, <2>5, <2>6, <2>8, <3>1
  <2> QED BY <2>7, <2>8
<1>14. MountPart = MountAt(start)
  <2>1. PICK p : p = Mbr(g)  OBVIOUS
  <2>2. p.kind = "mbr" /\ p.boot = 0 /\ p.firstSector = start  BY <1>3, <2>1 DEF Mbr
  <2>3. 0 % 128 = 0  OBVIOUS
  <2>4. ~(p.kind # "mbr" \/ p.boot % 128 # 0 \/ p.firstSector = 0)  BY <1>4, <2>2, <2>3
  <2> QED BY <1>6, <2>1, <2>2, <2>4 DEF MountPart
<1>15. Mount = Volume(start, b)
  <2>1. Volume(start, b).ok  BY <1>13
  <2> QED BY <1>7, <1>14, <2>1 DEF Mount
<1>16. FatStart(g) = start + res
  BY <1>3 DEF FatStart
<1> QED BY <1>1, <1>3, <1>13, <1>15, <1>16

LEMMA Multiple ==
    ASSUME NEW s \in {2, 4, 8, 16, 32, 64, 128}, NEW c \in Nat
    PROVE  s * c \in Nat /\ c * s = s * c /\ s * c >= c
<1>1. CASE s = 2  BY <1>1
<1>2. CASE s = 4  BY <1>2
<1>3. CASE s = 8  BY <1>3
<1>4. CASE s = 16  BY <1>4
<1>5. CASE s = 32  BY <1>5
<1>6. CASE s = 64  BY <1>6
<1>7. CASE s = 128  BY <1>7
<1> QED BY <1>1, <1>2, <1>3, <1>4, <1>5, <1>6, <1>7

LEMMA FormattedIsUsable ==
    ASSUME SizesAssumption, CardInv, Formattable, IsStore(store, cardSizeBlocks),
           Done(Plan, store, Len(Plan) + 1)
    PROVE  Usable(Mount, On(0))
<1>1. PICK g, fat : g = G /\ fat = FatStart(G)
  OBVIOUS
<1>2. Layout(g, SectorsPerCluster) /\ OnCard(g, fat)
  BY <1>1, LayoutHolds, AllDone
<1>3. PICK s, n, rel, res, fs, ds, nc, root, size :
        /\ s = SectorsPerCluster /\ n = cardSizeBlocks /\ rel = g.relSector /\ res = g.reservedSectors
        /\ fs = g.fatSize /\ ds = g.dataStart /\ nc = g.nc /\ root = RootLength /\ size = s * nc
  OBVIOUS
<1>4. /\ s \in {2, 4, 8, 16, 32, 64, 128} /\ n \in Nat /\ rel \in Nat /\ res \in Nat /\ fs \in Nat
      /\ ds \in Nat /\ nc \in Nat /\ rel >= 1 /\ res >= 1 /\ fs >= 1 /\ nc >= 1
      /\ fat = rel + res /\ ds = fat + 2 * fs + (IF sdhc THEN 0 ELSE 32)
      /\ nc + 2 <= fs * (IF sdhc THEN 128 ELSE 256)
      /\ lbnToCylinder(rel) <= 1023
      /\ g.fat = (IF sdhc THEN 32 ELSE 16)
  <2>1. /\ s \in {2, 4, 8, 16, 32, 64, 128} /\ rel \in Nat /\ res \in Nat /\ fs \in Nat
        /\ ds \in Nat /\ nc \in Nat /\ rel >= 1 /\ fs >= 1
    BY <1>2, <1>3 DEF Layout
  <2>2. res >= 1 /\ nc >= 1
    <3>1. res >= (IF sdhc THEN 9 ELSE 1) /\ nc >= 4085  BY <1>2, <1>3 DEF Layout
    <3>2. CASE sdhc  BY <2>1, <3>1, <3>2
    <3>3. CASE ~sdhc  BY <2>1, <3>1, <3>3
    <3> QED BY <3>2, <3>3
  <2>3. n \in Nat  BY <1>3, Capacity
  <2>4. fat = rel + res  BY <1>1, <1>3 DEF FatStart
  <2>5. FatStart(g) = fat  BY <1>1
  <2>6. ds = fat + 2 * fs + (IF sdhc THEN 0 ELSE 32)  BY <1>2, <1>3, <2>5 DEF Layout
  <2>7. nc + 2 <= fs * (IF sdhc THEN 128 ELSE 256)  BY <1>2, <1>3 DEF Layout
  <2>8. lbnToCylinder(rel) <= 1023 /\ g.fat = (IF sdhc THEN 32 ELSE 16)  BY <1>2, <1>3 DEF Layout
  <2> QED BY <2>1, <2>2, <2>3, <2>4, <2>6, <2>7, <2>8
<1>5. size \in Nat /\ nc * s = size /\ size >= nc
  <2>1. size = s * nc
    BY <1>3
  <2>2. s \in {2, 4, 8, 16, 32, 64, 128} /\ nc \in Nat
    BY <1>4
  <2> QED BY <2>1, <2>2, Multiple
<1>6. PICK part : part = PartSize(g)
  OBVIOUS
<1>7. part \in Nat /\ part = size + ds - rel /\ size + ds <= n
  <2>1. part = size + ds - rel /\ size + ds <= n  BY <1>2, <1>3, <1>6 DEF Layout
  <2>2. ds >= rel /\ ds - rel \in Nat  BY <1>4
  <2>3. size + ds - rel \in Nat  BY <1>4, <1>5, <2>2
  <2> QED BY <2>1, <2>3
<1>8. root = IF sdhc THEN s ELSE 32
  BY <1>3 DEF RootLength
<1>9. PICK v, p : v = Mount /\ p = On(0)
  OBVIOUS
<1>10. /\ v.ok /\ v.fatType = (IF sdhc THEN 32 ELSE 16) /\ v.blocksPerCluster = s
       /\ v.blocksPerFat = fs /\ v.fatStartBlock = fat /\ v.dataStartBlock = ds
       /\ v.clusterCount = nc
  BY <1>1, <1>2, <1>3, <1>9, Mounts
<1>11. On(0) = Mbr(g) /\ On(fat) = ReservedEntries(g) /\ On(fat + fs) = ReservedEntries(g)
  BY <1>2, <1>3 DEF OnCard, On
<1>12. PICK last : last = rel + part - 1
  OBVIOUS
<1>13. last \in Nat /\ last < n /\ rel < n
  BY <1>4, <1>5, <1>7, <1>12
<1>14. CapacityMB > 6
  BY DEF Formattable
<1>15. /\ p.firstSector = rel /\ p.totalSectors = part /\ p.begin = CHS(rel)
       /\ p.end = IF lbnToCylinder(last) <= 1023 THEN CHS(last) ELSE TooBig
  BY <1>3, <1>6, <1>9, <1>11, <1>12 DEF Mbr
<1>16. Leads(p.begin, rel)
  BY <1>3, <1>4, <1>13, <1>14, <1>15, CylinderHeadSector
<1>17. Leads(p.end, last)
  <2>1. lbnToCylinder(last) \in Int
    <3>1. PICK w : w = NumberOfHeads * SectorsPerTrack  OBVIOUS
    <3>2. w \in Nat \ {0}  BY <1>14, <3>1, CylinderSize
    <3>3. PICK q : q = last \div w  OBVIOUS
    <3>4. q \in Int  BY <1>13, <3>2, <3>3, DivMod
    <3>5. q % 65536 \in Int  BY <3>4, DivMod
    <3> QED BY <3>1, <3>3, <3>5, Wide DEF lbnToCylinder
  <2>2. CASE lbnToCylinder(last) <= 1023
    BY <1>3, <1>13, <1>14, <1>15, <2>2, CylinderHeadSector
  <2>3. CASE lbnToCylinder(last) > 1023
    <3>1. p.end = TooBig  BY <1>15, <2>1, <2>3
    <3> QED BY <1>3, <1>13, <1>14, <2>3, <3>1, CylinderHeadSector
  <2> QED BY <2>1, <2>2, <2>3
<1>18. /\ store.zeros.from = fat /\ store.zeros.n = 2 * fs + root
       /\ \A b \in DOMAIN store.at : fat <= b /\ b < fat + (2 * fs + root) => b \in {fat, fat + fs}
       /\ fat + fs \in DOMAIN store.at
  BY <1>2, <1>3 DEF OnCard
<1>19. {b \in DOMAIN store.at : b > fat /\ b < fat + 2 * fs + root} = {fat + fs}
  <2>1. ASSUME NEW b \in DOMAIN store.at PROVE b > fat /\ b < fat + 2 * fs + root <=> b = fat + fs
    <3>1. b \in Nat  BY DEF IsStore
    <3>2. fat \in Nat /\ root \in Nat /\ root >= 1  BY <1>4, <1>8
    <3>3. ASSUME b > fat, b < fat + 2 * fs + root PROVE b = fat + fs
      BY <1>4, <1>18, <3>1, <3>2, <3>3
    <3>4. ASSUME b = fat + fs PROVE b > fat /\ b < fat + 2 * fs + root
      BY <1>4, <3>2, <3>4
    <3> QED BY <3>3, <3>4
  <2> QED BY <1>18, <2>1
<1>20. (IF v.fatType = 16 THEN 32 ELSE v.blocksPerCluster) = root
       /\ (IF v.fatType = 16 THEN 256 ELSE 128) = (IF sdhc THEN 128 ELSE 256)
  BY <1>8, <1>10
<1>21. Inside(rel, part, 1, n - 1) /\ Inside(ds, nc * s, rel, part)
  BY <1>4, <1>5, <1>7 DEF Inside
<1>22. Inside(fat, 2 * fs + root, fat, 2 * fs + root)
  BY <1>4, <1>8 DEF Inside
<1>23. rel < fat /\ fat + 2 * fs + (IF sdhc THEN 0 ELSE 32) <= ds
  BY <1>4
<1>24. rel + part - 1 = last
  BY <1>12
<1>25. On(fat).kind = "fat" /\ On(fat + fs) = On(fat)
  BY <1>11 DEF ReservedEntries
<1> DEFINE entries == IF v.fatType = 16 THEN 256 ELSE 128
           second  == v.fatStartBlock + v.blocksPerFat
           rootAt  == v.fatStartBlock + 2 * v.blocksPerFat
           rootLen == IF v.fatType = 16 THEN 32 ELSE v.blocksPerCluster
<1>26. Usable(v, p) <=>
        /\ v.ok /\ v.fatType = (IF sdhc THEN 32 ELSE 16)
        /\ Inside(p.firstSector, p.totalSectors, 1, cardSizeBlocks - 1)
        /\ Leads(p.begin, p.firstSector)
        /\ Leads(p.end, p.firstSector + p.totalSectors - 1)
        /\ p.firstSector < v.fatStartBlock /\ rootAt + (IF sdhc THEN 0 ELSE 32) <= v.dataStartBlock
        /\ Inside(v.dataStartBlock, v.clusterCount * v.blocksPerCluster, p.firstSector, p.totalSectors)
        /\ v.clusterCount + 2 <= v.blocksPerFat * entries
        /\ On(v.fatStartBlock).kind = "fat" /\ On(second) = On(v.fatStartBlock)
        /\ Inside(v.fatStartBlock, 2 * v.blocksPerFat + rootLen, store.zeros.from, store.zeros.n)
        /\ {b \in DOMAIN store.at : b > v.fatStartBlock /\ b < rootAt + rootLen} = {second}
  BY DEF Usable
<1>27. second = fat + fs /\ rootAt = fat + 2 * fs /\ rootLen = root
       /\ entries = IF sdhc THEN 128 ELSE 256
  BY <1>10, <1>20
<1> HIDE DEF entries, second, rootAt, rootLen
<1>28. v.clusterCount + 2 <= v.blocksPerFat * entries
  BY <1>4, <1>10, <1>27
<1> QED BY <1>3, <1>9, <1>10, <1>15, <1>16, <1>17, <1>18, <1>19, <1>21, <1>22, <1>23, <1>24,
           <1>25, <1>26, <1>27, <1>28

LEMMA ErasedIsEmpty ==
    ASSUME CardInv, IsStore(store, cardSizeBlocks), Erased(store, cardSizeBlocks),
           cardSizeBlocks \in Nat \ {0}
    PROVE  /\ DOMAIN store.at = {}
           /\ Inside(0, cardSizeBlocks, store.zeros.from, store.zeros.n)
           /\ ~Mount.ok
<1>1. DOMAIN store.at = {}
  BY DEF IsStore, Erased
<1>2. store.zeros.from = 0 /\ store.zeros.n = cardSizeBlocks
  BY DEF Erased
<1>3. On(0).kind = "zeros"
  BY <1>1, <1>2 DEF On, Zeros
<1>4. ~Mount.ok
  BY <1>3 DEF Mount, MountPart, MountAt, NotMounted
<1> QED BY <1>1, <1>2, <1>4 DEF Inside

-----------------------------------------------------------------------------
(* The sketch *)

LEMMA FormatInitInv == SizesAssumption /\ FormatInit => FormatInv
<1> SUFFICES ASSUME SizesAssumption, FormatInit PROVE FormatInv
  OBVIOUS
<1>1. CardInv
  <2>1. PICK c \in ({FALSE} \X SDCards) \cup ({TRUE} \X SDHCCards) : sdhc = c[1] /\ cardSizeBlocks = c[2]
    BY DEF FormatInit
  <2> QED BY <2>1 DEF CardInv
<1>2. IsStore(store, cardSizeBlocks)
  BY DEF FormatInit, IsStore
<1>3. \E S : todo \in Seq(S)
  BY DEF FormatInit
<1>4. PromiseInv /\ StepInv
  BY DEF FormatInit, PromiseInv, StepInv
<1> QED BY <1>1, <1>2, <1>3, <1>4 DEF FormatInv

\* What a step that writes nothing leaves.
LEMMA NotWritten ==
    ASSUME FormatInv, cardSizeBlocks' = cardSizeBlocks, sdhc' = sdhc, store' = store
    PROVE  /\ CardInv' /\ IsStore(store, cardSizeBlocks)'
           /\ promised' = promised => PromiseInv'
<1>1. CardInv' /\ Plan' = Plan /\ (Formattable => Formattable')
  BY Untouched DEF FormatInv
<1>2. IsStore(store, cardSizeBlocks)'
  BY DEF FormatInv, IsStore
<1>3. ASSUME promised' = promised PROVE PromiseInv'
  <2>1. PromiseInv  BY DEF FormatInv
  <2> QED BY <1>1, <1>3, <2>1 DEF PromiseInv, Done, Erased
<1> QED BY <1>1, <1>2, <1>3

LEMMA EraseTurn ==
    ASSUME SizesAssumption, FormatInv, cardSizeBlocks' = cardSizeBlocks, sdhc' = sdhc, Erase
    PROVE  FormatInv'
<1>1. step = "erase" /\ bgn < cardSizeBlocks /\ promised' = "nothing" /\ UNCHANGED todo
  BY DEF Erase
<1>2. CardInv /\ StepInv /\ IsStore(store, cardSizeBlocks) /\ CardInv'
  BY Untouched DEF FormatInv
<1>3. cardSizeBlocks \in Nat \ {0}
  BY <1>2, Capacity
<1>4. bgn \in Nat
  BY <1>1, <1>2 DEF StepInv
<1>5. PromiseInv'
  BY <1>1 DEF PromiseInv
<1>6. \E S : todo' \in Seq(S)
  BY <1>1 DEF FormatInv
<1>7. CASE step' = "halted" /\ UNCHANGED store
  <2>1. StepInv'  BY <1>7 DEF StepInv
  <2>2. IsStore(store, cardSizeBlocks)'  BY <1>7, NotWritten
  <2> QED BY <1>2, <1>5, <1>6, <2>1, <2>2 DEF FormatInv
<1>8. CASE /\ store' = Overwritten(store, 0, LastBlock + 1, Zeros)
           /\ bgn' = bgn + EraseSize /\ UNCHANGED step
  <2>1. PICK end, n, t : end = LastBlock + 1 /\ n = cardSizeBlocks /\ t = store'
    OBVIOUS
  <2>2. end = (IF bgn' >= n THEN n ELSE bgn') /\ end \in Nat /\ bgn' \in Nat
    BY <1>1, <1>3, <1>4, <1>8, <2>1 DEF LastBlock, EraseSize
  <2>3. t = Overwritten(store, 0, end, Zeros)
    BY <1>8, <2>1
  <2>4. /\ IsStore(t, n) /\ t.zeros = [from |-> 0, n |-> end]
        /\ \A b : b \in DOMAIN t.at <=> b \in DOMAIN store.at /\ ~(0 <= b /\ b < 0 + end)
    BY <1>2, <1>3, <2>1, <2>2, <2>3, ManyBlocks
  <2>5. Erased(t, end)
    BY <2>2, <2>4 DEF Erased, IsStore
  <2>6. Erased(store', IF bgn' >= cardSizeBlocks' THEN cardSizeBlocks' ELSE bgn')
    BY <2>1, <2>2, <2>5
  <2>7. step' = "erase"  BY <1>1, <1>8
  <2>8. StepInv'
    BY <2>2, <2>6, <2>7 DEF StepInv
  <2>9. IsStore(store, cardSizeBlocks)'
    BY <2>1, <2>4
  <2> QED BY <1>2, <1>5, <1>6, <2>8, <2>9 DEF FormatInv
<1> QED BY <1>7, <1>8 DEF Erase

LEMMA PlanFits ==
    ASSUME SizesAssumption, CardInv, Formattable
    PROVE  Len(Plan) \in Nat /\ Len(Plan) >= 1 /\ IsPlan(Plan, cardSizeBlocks)
           /\ cardSizeBlocks \in Nat
<1>1. Len(Plan) = 5 \/ Len(Plan) = 10
  <2>1. CASE sdhc  BY <2>1, Plan32
  <2>2. CASE ~sdhc  BY <2>2, Plan16
  <2> QED BY <2>1, <2>2
<1>2. Len(Plan) \in Nat /\ Len(Plan) >= 1
  <2>1. PICK l : l = Len(Plan)  OBVIOUS
  <2>2. l \in Nat /\ l >= 1  BY <1>1, <2>1
  <2> QED BY <2>1, <2>2
<1>3. cardSizeBlocks \in Nat
  BY Capacity DEF Formattable
<1> QED BY <1>2, <1>3, PlanHolds

LEMMA WriteTurn ==
    ASSUME SizesAssumption, FormatInv, cardSizeBlocks' = cardSizeBlocks, sdhc' = sdhc, WriteNext
    PROVE  FormatInv'
<1>1. CardInv /\ CardInv' /\ Plan' = Plan /\ Formattable /\ Formattable' /\ step = "write" /\ todo # <<>>
      /\ IsStore(store, cardSizeBlocks)
  BY Untouched DEF FormatInv, StepInv, WriteNext, WriteInv
<1>2. PICK w, n : w = Plan /\ n = cardSizeBlocks
  OBVIOUS
<1>3. Len(w) \in Nat /\ IsPlan(w, n) /\ n \in Nat
  BY <1>1, <1>2, PlanFits
<1>4. PICK j \in 1 .. Len(w) + 1 :
         /\ Len(todo) = Len(w) + 1 - j
         /\ \A i \in 1 .. Len(todo) : todo[i] = w[i + j - 1]
         /\ Done(w, store, j)
  BY <1>1, <1>2 DEF FormatInv, StepInv, WriteInv
<1>0. PICK S0 : todo \in Seq(S0)
  BY DEF FormatInv
<1>5. Len(todo) \in Nat /\ Len(todo) >= 1
  BY <1>0, <1>1
<1>6. j \in 1 .. Len(w) /\ Head(todo) = w[j]
  <2>1. todo[1] = w[1 + j - 1]  BY <1>4, <1>5
  <2>2. j \in Int /\ 1 + j - 1 = j  BY <1>3, <1>4
  <2> QED BY <1>1, <1>3, <1>4, <1>5, <2>1, <2>2
<1>7. promised' = "nothing"
  BY DEF WriteNext
<1>8. PICK t : t = store'
  OBVIOUS
<1>9. CASE /\ store' = Overwritten(store, Head(todo).lbn, Head(todo).count, Head(todo).data)
           /\ todo' = Tail(todo) /\ UNCHANGED step
  <2>1. t = Overwritten(store, w[j].lbn, w[j].count, w[j].data)
    BY <1>6, <1>8, <1>9
  <2>2. IsStore(t, n) /\ Done(w, t, j + 1)
    BY <1>1, <1>2, <1>3, <1>4, <1>6, <2>1, DoneNext
  <2>3. /\ Len(todo') = Len(todo) - 1
        /\ \A i \in 1 .. Len(todo') : todo'[i] = todo[i + 1]
    BY <1>0, <1>1, <1>5, <1>9
  <2>4. Len(todo') = Len(w) + 1 - (j + 1)
    BY <1>3, <1>4, <1>6, <2>3
  <2>5. ASSUME NEW i \in 1 .. Len(todo') PROVE todo'[i] = w[i + (j + 1) - 1]
    <3>1. i + 1 \in 1 .. Len(todo) /\ i \in Int /\ j \in Int  BY <1>3, <1>5, <1>6, <2>3
    <3>2. todo'[i] = w[(i + 1) + j - 1]  BY <1>4, <2>3, <3>1
    <3>3. (i + 1) + j - 1 = i + (j + 1) - 1  BY <3>1
    <3> QED BY <3>2, <3>3
  <2>6. j + 1 \in 1 .. Len(w) + 1
    BY <1>3, <1>6
  <2>7. WriteInv'
    BY <1>1, <1>2, <1>8, <2>2, <2>4, <2>5, <2>6 DEF WriteInv
  <2>9. todo' \in Seq(S0)  BY <1>0, <1>1, <1>9
  <2> QED BY <1>1, <1>2, <1>7, <1>8, <1>9, <2>2, <2>7, <2>9 DEF FormatInv, StepInv, PromiseInv
<1>10. CASE /\ step' = "halted" /\ UNCHANGED todo
            /\ \E k \in {0, 1, Head(todo).count - 1, Head(todo).count} :
                 store' = IF k = 0 THEN store ELSE Overwritten(store, Head(todo).lbn, k, Head(todo).data)
  <2>1. PICK lbn, count, data : lbn = w[j].lbn /\ count = w[j].count /\ data = w[j].data
    OBVIOUS
  <2>2. /\ lbn \in Nat /\ count \in Nat /\ count >= 1 /\ lbn + count <= n
        /\ data # Zeros => count = 1
    BY <1>3, <1>6, <2>1 DEF IsPlan
  <2>3. PICK k \in {0, 1, count - 1, count} : t = IF k = 0 THEN store ELSE Overwritten(store, lbn, k, data)
    BY <1>6, <1>8, <1>10, <2>1
  <2>4. IsStore(t, n)
    <3>1. CASE k = 0  BY <1>1, <1>2, <2>3, <3>1
    <3>2. CASE k # 0 /\ data = Zeros
      <4>1. k \in Nat /\ t = Overwritten(store, lbn, k, Zeros)  BY <2>2, <2>3, <3>2
      <4> QED BY <1>1, <1>2, <1>3, <2>2, <4>1, ManyBlocks
    <3>3. CASE k # 0 /\ data # Zeros
      <4>1. k = 1 /\ lbn < n  BY <1>3, <2>2, <2>3, <3>3
      <4>2. t = Overwritten(store, lbn, 1, data)  BY <2>3, <4>1
      <4> QED BY <1>1, <1>2, <1>3, <2>2, <3>3, <4>1, <4>2, OneBlock
    <3> QED BY <3>1, <3>2, <3>3
  <2>5. todo' = todo  BY <1>10
  <2> QED BY <1>0, <1>1, <1>2, <1>7, <1>8, <1>10, <2>4, <2>5 DEF FormatInv, StepInv, PromiseInv
<1> QED BY <1>9, <1>10 DEF WriteNext

LEMMA PlanIsSeq == \E S : Plan \in Seq(S)
<1>1. CASE sdhc
  <2>1. PICK a, b, c, d, e, f, h, k, m, o :
          /\ Fat32Writes(G) = <<a, b, c, d, e, f, h, k, m, o>>
    BY DEF Fat32Writes
  <2>2. <<a, b, c, d, e, f, h, k, m, o>> \in Seq({a, b, c, d, e, f, h, k, m, o})  OBVIOUS
  <2>3. Plan = <<a, b, c, d, e, f, h, k, m, o>>  BY <1>1, <2>1 DEF Plan
  <2> QED BY <2>2, <2>3
<1>2. CASE ~sdhc
  <2>1. PICK a, b, c, d, e : Fat16Writes(G) = <<a, b, c, d, e>>
    BY DEF Fat16Writes
  <2>2. <<a, b, c, d, e>> \in Seq({a, b, c, d, e})  OBVIOUS
  <2>3. Plan = <<a, b, c, d, e>>  BY <1>2, <2>1 DEF Plan
  <2> QED BY <2>2, <2>3
<1> QED BY <1>1, <1>2

LEMMA FormatStep == SizesAssumption /\ FormatInv /\ [FormatNext]_formatVars => FormatInv'
<1> SUFFICES ASSUME SizesAssumption, FormatInv, [FormatNext]_formatVars PROVE FormatInv'
  OBVIOUS
<1>1. cardSizeBlocks' = cardSizeBlocks /\ sdhc' = sdhc
  BY DEF FormatNext, formatVars
<1>2. CardInv /\ CardInv' /\ Plan' = Plan /\ (Formattable => Formattable')
  BY <1>1, Untouched DEF FormatInv
<1>3. CASE Choose
  <2>1. StepInv'  BY <1>3 DEF Choose, FormatInv, StepInv
  <2>2. PromiseInv' /\ IsStore(store, cardSizeBlocks)'  BY <1>1, <1>3, NotWritten DEF Choose
  <2>3. \E S : todo' \in Seq(S)  BY <1>3 DEF Choose, FormatInv
  <2> QED BY <1>2, <2>1, <2>2, <2>3 DEF FormatInv
<1>4. CASE Erase
  BY <1>1, <1>4, EraseTurn
<1>5. CASE EraseDone
  <2>1. StepInv'  BY <1>5 DEF EraseDone, FormatInv, StepInv
  <2>2. IsStore(store, cardSizeBlocks)' /\ (promised' = promised => PromiseInv')
    BY <1>1, <1>5, NotWritten DEF EraseDone
  <2>3. ASSUME promised' = "Erase done" PROVE PromiseInv'
    <3>1. cardSizeBlocks \in Nat \ {0}  BY <1>2, Capacity
    <3>2. bgn \in Nat /\ bgn >= cardSizeBlocks /\ bgn > 0
      <4>1. bgn \in Nat  BY <1>5 DEF EraseDone, FormatInv, StepInv
      <4>2. bgn >= cardSizeBlocks  BY <1>5 DEF EraseDone
      <4> QED BY <3>1, <4>1, <4>2
    <3>3. Erased(store, cardSizeBlocks)
      BY <1>5, <3>2 DEF EraseDone, FormatInv, StepInv
    <3>4. store' = store  BY <1>5 DEF EraseDone
    <3> QED BY <1>1, <2>3, <3>3, <3>4 DEF PromiseInv
  <2>4. \E S : todo' \in Seq(S)  BY <1>5 DEF EraseDone, FormatInv
  <2> QED BY <1>2, <1>5, <2>1, <2>2, <2>3, <2>4 DEF FormatInv, EraseDone
<1>6. CASE FormatCard
  <2>1. PromiseInv' /\ IsStore(store, cardSizeBlocks)'  BY <1>1, <1>6, NotWritten DEF FormatCard
  <2>2. CASE step' = "halted" /\ UNCHANGED todo
    <3>1. StepInv'  BY <2>2 DEF StepInv
    <3>2. \E S : todo' \in Seq(S)  BY <2>2 DEF FormatInv
    <3> QED BY <1>2, <2>1, <3>1, <3>2 DEF FormatInv
  <2>3. CASE step' = "write" /\ todo' = Plan /\ Formattable
    <3>1. Len(Plan) \in Nat /\ Len(Plan) >= 1  BY <1>2, <2>3, PlanFits
    <3>2. Done(Plan, store', 1)  BY <3>1 DEF Done
    <3>3. WriteInv'
      <4>1. PICK w : w = Plan  OBVIOUS
      <4>2. 1 \in 1 .. Len(w) + 1 /\ Len(w) = Len(w) + 1 - 1  BY <3>1, <4>1
      <4>3. \A i \in 1 .. Len(w) : w[i] = w[i + 1 - 1]
        <5> TAKE i \in 1 .. Len(w)
        <5>1. i + 1 - 1 = i  BY <3>1, <4>1
        <5> QED BY <5>1
      <4> QED BY <1>2, <2>3, <3>2, <4>1, <4>2, <4>3 DEF WriteInv
    <3>4. StepInv'  BY <2>3, <3>3 DEF StepInv
    <3>5. \E S : todo' \in Seq(S)  BY <2>3, PlanIsSeq
    <3> QED BY <1>2, <2>1, <3>4, <3>5 DEF FormatInv
  <2>4. \/ step' = "halted" /\ UNCHANGED todo
        \/ step' = "write" /\ todo' = Plan /\ Formattable
    <3>1. CASE CapacityMB <= 6
      BY <1>6, <3>1 DEF FormatCard
    <3>2. CASE ~(CapacityMB <= 6) /\ (~ClustersValid(G) \/ lbnToCylinder(G.relSector) > 1023)
      BY SMTT(30), <1>6, <3>2 DEF FormatCard, G
    <3>3. CASE ~(CapacityMB <= 6) /\ ClustersValid(G) /\ ~(lbnToCylinder(G.relSector) > 1023)
      <4>1. CapacityMB > 6
        <5>1. PICK c : c = CapacityMB  OBVIOUS
        <5>2. c \in Nat  BY <1>2, <5>1, Capacity
        <5> QED BY <3>3, <5>1, <5>2
      <4>2. step' = "write" /\ todo' = Plan
        BY <1>6, <3>3, Zenon DEF FormatCard, Plan, G
      <4> QED BY <3>3, <4>1, <4>2 DEF Formattable
    <3> QED BY <3>1, <3>2, <3>3
  <2> QED BY <2>2, <2>3, <2>4
<1>7. CASE WriteNext
  BY <1>1, <1>7, WriteTurn
<1>8. CASE FormatDone
  <2>1. StepInv'  BY <1>8 DEF FormatDone, StepInv
  <2>2. IsStore(store, cardSizeBlocks)'  BY <1>1, <1>8, NotWritten DEF FormatDone
  <2>3. PromiseInv'
    <3>1. WriteInv /\ todo = <<>> /\ promised' = "Format done" /\ store' = store
      BY <1>8 DEF FormatDone, FormatInv, StepInv
    <3>2. Len(Plan) \in Nat  BY <1>2, <3>1, PlanFits DEF WriteInv
    <3>3. PICK j \in 1 .. Len(Plan) + 1 : Len(todo) = Len(Plan) + 1 - j /\ Done(Plan, store, j)
      BY <3>1 DEF WriteInv
    <3>4. j = Len(Plan) + 1
      <4>1. PICK l : l = Len(Plan)  OBVIOUS
      <4>2. Len(todo) = 0  BY <3>1
      <4>3. l \in Nat /\ j \in Int /\ 0 = l + 1 - j  BY <3>2, <3>3, <4>1, <4>2
      <4> QED BY <4>1, <4>3
    <3>5. Formattable  BY <3>1 DEF WriteInv
    <3> QED BY <1>2, <3>1, <3>3, <3>4, <3>5 DEF PromiseInv
  <2>4. \E S : todo' \in Seq(S)  BY <1>8 DEF FormatDone, FormatInv
  <2> QED BY <1>2, <2>1, <2>2, <2>3, <2>4 DEF FormatInv
<1>9. CASE Reset
  <2>1. StepInv'  BY <1>9 DEF Reset, StepInv
  <2>2. PromiseInv' /\ IsStore(store, cardSizeBlocks)'  BY <1>1, <1>9, NotWritten DEF Reset
  <2>3. \E S : todo' \in Seq(S)
    <3>1. todo' = <<>> /\ <<>> \in Seq({})  BY <1>9 DEF Reset
    <3> QED BY <3>1
  <2> QED BY <1>2, <2>1, <2>2, <2>3 DEF FormatInv
<1>10. CASE UNCHANGED formatVars
  <2>1. StepInv'
    <3>1. StepInv  BY DEF FormatInv
    <3>2. WriteInv => WriteInv'  BY <1>2, <1>10 DEF formatVars, WriteInv
    <3> QED BY <1>10, <3>1, <3>2 DEF formatVars, StepInv
  <2>2. PromiseInv' /\ IsStore(store, cardSizeBlocks)'  BY <1>1, <1>10, NotWritten DEF formatVars
  <2>3. \E S : todo' \in Seq(S)  BY <1>10 DEF formatVars, FormatInv
  <2> QED BY <1>2, <2>1, <2>2, <2>3 DEF FormatInv
<1> QED BY <1>3, <1>4, <1>5, <1>6, <1>7, <1>8, <1>9, <1>10 DEF FormatNext

\* After "Format done" the card mounts, as a volume whose parts lie one behind the other
\* and on the card, and after "Erase done" it is empty and does not: on cards of every
\* size up to 4 GB (SD) and 64 GB (SDHC), whatever transfers fail and whenever the sketch
\* is reset.
THEOREM FormatKeptHolds == SizesAssumption => (FormatSpec => []FormatKept)
<1> SUFFICES ASSUME SizesAssumption PROVE FormatSpec => []FormatKept
  OBVIOUS
<1>1. FormatInit => FormatInv
  BY FormatInitInv
<1>2. FormatInv /\ [FormatNext]_formatVars => FormatInv'
  BY FormatStep
<1>3. FormatInv => FormatKept
  <2> SUFFICES ASSUME FormatInv PROVE FormatKept
    OBVIOUS
  <2>1. CardInv /\ IsStore(store, cardSizeBlocks)  BY DEF FormatInv
  <2>2. ASSUME promised = "Format done" PROVE Usable(Mount, On(0))
    BY <2>1, <2>2, FormattedIsUsable DEF FormatInv, PromiseInv
  <2>3. ASSUME promised = "Erase done"
        PROVE  /\ DOMAIN store.at = {}
               /\ Inside(0, cardSizeBlocks, store.zeros.from, store.zeros.n)
               /\ ~Mount.ok
    <3>1. cardSizeBlocks \in Nat \ {0}  BY <2>1, Capacity
    <3>2. Erased(store, cardSizeBlocks)  BY <2>3 DEF FormatInv, PromiseInv
    <3> QED BY <2>1, <3>1, <3>2, ErasedIsEmpty
  <2> QED BY <2>2, <2>3 DEF FormatKept
<1> QED BY <1>1, <1>2, <1>3, PTL DEF FormatSpec
=============================================================================
