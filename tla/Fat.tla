-------------------------------- MODULE Fat --------------------------------
(***************************************************************************)
(* The file system on the SD card: SdFat's SdVolume and SdBaseFile on a    *)
(* FAT16 volume with a fixed root directory, behind the one block of cache *)
(* that SdVolume has on an AVR.                                            *)
(*                                                                         *)
(* The code is sequential and returns early when a block transfer fails.   *)
(* An operation here takes the machine, a record with everything the       *)
(* library reads and writes, and returns the machine after the call:       *)
(*                                                                         *)
(*   disk     block -> what the card holds                                 *)
(*   cache    SdVolume's block cache                                       *)
(*   alloc    m_allocSearchStart                                           *)
(*   file     the members of the SdBaseFile in use                         *)
(*   dir      those of the SdBaseFile of the directory it is in            *)
(*   ok       FALSE once a function has returned false                     *)
(*   val      the out parameter of the last call                           *)
(*   n, bad   transfers done so far; the numbers of those that fail        *)
(*   took     of those, the writes that the card has done all the same     *)
(*                                                                         *)
(* With ok = FALSE an operation does nothing, which is the `goto fail' of  *)
(* its caller. Functions that go on after a failure set ok again.          *)
(*                                                                         *)
(* A directory holds entries where a file holds bytes: a position in a     *)
(* directory counts entries (of 32 bytes in the code).                     *)
(***************************************************************************)
EXTENDS Integers, Sequences, FiniteSets

CONSTANTS ClusterCount,      \* m_clusterCount
          EntriesPerFatBlock,
          BlocksPerCluster,
          BlockSize,         \* bytes
          RootBlocks, EntriesPerBlock,
          MultiBlock,        \* USE_MULTI_BLOCK_SD_IO
          Names              \* of files and directories

ASSUME FatAssumption ==
    /\ {ClusterCount, EntriesPerFatBlock, BlocksPerCluster, BlockSize,
        RootBlocks, EntriesPerBlock} \subseteq Nat \ {0}
    /\ ClusterCount < 65525
    /\ MultiBlock \in BOOLEAN
    /\ Names \cap {"free", "deleted", ".", ".."} = {}

Cluster == 2 .. ClusterCount + 1
EOC == 65535
IsEOC(c) == c >= 65528
ClusterSize == BlockSize * BlocksPerCluster

FatBlock(copy, c) == <<"fat", copy, c \div EntriesPerFatBlock>>
DirBlock(i) == <<"dir", i>>
DataBlock(c, i) == <<"data", c, i>>
NoBlock == <<"none", 0>>
BootBlock == <<"boot", 0>>
DirBlocks == {DirBlock(i) : i \in 1 .. RootBlocks}

\* times: which of the entry's times ("access", "create", "write") have been set
NoEntry(name) == [name |-> name, first |-> 0, size |-> 0, dir |-> FALSE, times |-> {}]

Closed == [open |-> FALSE, dir |-> FALSE, block |-> NoBlock, index |-> 0, first |-> 0, size |-> 0,
           cur |-> 0, pos |-> 0, dirty |-> FALSE, write |-> FALSE, append |-> FALSE]

\* openRoot: the object of the root directory, which has no entry.
Root == [Closed EXCEPT !.open = TRUE, !.dir = TRUE, !.size = RootBlocks * EntriesPerBlock]
IsRoot(f) == f.dir /\ f.block = NoBlock

Least(S) == CHOOSE k \in S : \A l \in S : k <= l
Lesser(i, j) == IF i < j THEN i ELSE j

NoCache == [block |-> NoBlock, data |-> <<>>, dirty |-> FALSE, fat |-> FALSE]

Fail(m) == [m EXCEPT !.ok = FALSE]

(***************************************************************************)
(* Sd2Card: one transfer of a block. A read that fails leaves the buffer   *)
(* as it was; a write that fails may have been done (the card's status is  *)
(* asked for last).                                                        *)
(***************************************************************************)
Transfer(m, done) ==
    IF ~m.ok THEN m
    ELSE IF m.n \in m.bad
      THEN [m EXCEPT !.n = @ + 1, !.ok = FALSE,
                     !.disk = IF m.n \in m.took THEN done.disk ELSE @]
    ELSE [done EXCEPT !.n = @ + 1]

ReadBlock(m, b, dirty, fat) ==
    Transfer(m, [m EXCEPT !.cache = [block |-> b, dirty |-> dirty, fat |-> fat,
                            data |-> IF b = BootBlock THEN <<>> ELSE m.disk[b]]])

WriteBlock(m, b, data) == Transfer(m, [m EXCEPT !.disk[b] = data])

(***************************************************************************)
(* SdVolume                                                                *)
(***************************************************************************)
SetCached(m, i, v) == IF m.ok THEN [m EXCEPT !.cache.data[i] = v] ELSE m

Cleaned(m) == IF m.ok THEN [m EXCEPT !.cache.dirty = FALSE] ELSE m
SecondFat(m) ==
    IF m.cache.fat THEN WriteBlock(m, <<"fat", 2, m.cache.block[3]>>, m.cache.data) ELSE m

\* The second FAT is written after the first; the block stays dirty unless
\* both are.
CacheSync(m) ==
    IF ~m.ok \/ ~m.cache.dirty THEN m
    ELSE Cleaned(SecondFat(WriteBlock(m, m.cache.block, m.cache.data)))

\* mode: "read", "write", or "reserve", which does not read and so leaves
\* in the buffer the bytes of whatever block it held (0 here).
CacheLoad(m, b, mode, fat) ==
    IF m.ok /\ mode = "reserve"
      THEN [m EXCEPT !.cache = [block |-> b, dirty |-> TRUE, fat |-> FALSE,
                                data |-> [i \in 1 .. BlockSize |-> 0]]]
    ELSE ReadBlock(m, b, mode # "read", fat)

CacheInvalidate(m) == IF m.ok THEN [m EXCEPT !.cache = NoCache] ELSE m

CacheFetch(m, b, mode, fat) ==
    IF ~m.ok THEN m
    ELSE IF m.cache.block = b
      THEN [m EXCEPT !.cache.dirty = @ \/ mode # "read", !.cache.fat = @ \/ fat]
    ELSE CacheLoad(CacheSync(m), b, mode, fat)

ValueAt(m, c) == IF m.ok THEN [m EXCEPT !.val = m.cache.data[c]] ELSE m
FatGet(m, c) ==
    IF ~m.ok \/ c \notin Cluster THEN Fail(m)
    ELSE ValueAt(CacheFetch(m, FatBlock(1, c), "read", TRUE), c)

FatPut(m, c, v) ==
    IF ~m.ok \/ c \notin Cluster THEN Fail(m)
    ELSE SetCached(CacheFetch(m, FatBlock(1, c), "write", TRUE), c, v)

\* The loop that looks for count free clusters in a row: bgn .. end is the
\* group so far. It gives up after ClusterCount entries.
Looked(s, g, count) ==
    IF ~g.ok THEN [s EXCEPT !.m = g]
    ELSE IF g.val # 0 THEN [s EXCEPT !.m = g, !.bgn = s.end + 1, !.end = s.end + 1]
    ELSE IF s.end - s.bgn + 1 = count THEN [s EXCEPT !.m = g, !.found = TRUE]
    ELSE [s EXCEPT !.m = g, !.end = @ + 1]
LookOn(s, count) ==
    IF s.found \/ ~s.m.ok THEN s
    ELSE IF s.end > ClusterCount + 1
      THEN Looked([s EXCEPT !.bgn = 2, !.end = 2], FatGet(s.m, 2), count)
    ELSE Looked(s, FatGet(s.m, s.end), count)
FindFree(m, count, start) ==
    LET look[n \in 0 .. ClusterCount] ==
          IF n = 0 THEN [m |-> m, bgn |-> start, end |-> start, found |-> FALSE]
          ELSE LookOn(look[n - 1], count)
    IN  look[ClusterCount]

\* The group is linked from its end, and last of all to the chain.
Allotted(m, s, count, cur) ==
    IF m.ok THEN [m EXCEPT !.val = s.bgn, !.alloc = IF cur = 0 /\ count = 1 THEN s.bgn + 1 ELSE @]
    ELSE m
Link(s, count, cur) ==
    LET link[i \in 0 .. count] ==
          IF i = 0 THEN s.m
          ELSE FatPut(link[i - 1], s.end - i + 1, IF i = 1 THEN EOC ELSE s.end - i + 2)
        linked == link[count]
    IN  IF ~s.found THEN Fail(s.m)
        ELSE Allotted(IF cur # 0 THEN FatPut(linked, cur, s.bgn) ELSE linked, s, count, cur)

AllocContiguous(m, count, cur) ==
    Link(FindFree(m, count, IF cur # 0 THEN cur + 1 ELSE m.alloc), count, cur)

\* Each entry is freed after its successor has been read.
Freed(g, c) == [m |-> FatPut(g, c, 0), c |-> IF g.ok THEN g.val ELSE c]
FreeOn(s) == IF ~s.m.ok \/ IsEOC(s.c) THEN s ELSE Freed(FatGet(s.m, s.c), s.c)
FreeChain(m, first) ==
    LET free[i \in 0 .. ClusterCount + 1] ==
          IF i = 0 THEN [m |-> [m EXCEPT !.alloc = 2], c |-> first] ELSE FreeOn(free[i - 1])
    IN  IF ~m.ok THEN m
        ELSE IF first \notin Cluster THEN Fail([m EXCEPT !.alloc = 2])
        ELSE free[ClusterCount + 1].m

\* Cluster by cluster from c, n times; val is where the walk has come to.
Follow(m, c, n) ==
    LET go[i \in 0 .. n] ==
          IF i = 0 THEN [m EXCEPT !.val = c] ELSE LET w == go[i - 1] IN FatGet(w, w.val)
    IN  go[n]

(***************************************************************************)
(* SdBaseFile                                                              *)
(***************************************************************************)
GoTo(m) == IF m.ok THEN [m EXCEPT !.file.cur = m.val] ELSE m

\* A first cluster belongs into the entry.
Noted(m) ==
    IF m.ok THEN [m EXCEPT !.file.first = IF @ = 0 THEN m.val ELSE @,
                           !.file.dirty = @ \/ m.file.first = 0]
    ELSE m

FaultyAddCluster(m) == GoTo(AllocContiguous(m, 1, m.file.cur))   \* forgets to note it
AddCluster(m) == Noted(GoTo(AllocContiguous(m, 1, m.file.cur)))

CacheDirEntry(m, mode) == CacheFetch(m, m.file.block, mode, FALSE)
SetEntry(m, e) == SetCached(m, m.file.index, e)

\* The size of a directory is not in its entry.
Entered(m) ==
    LET old == m.cache.data[m.file.index]
    IN  IF ~m.ok THEN m
        ELSE IF old.name = "deleted" THEN Fail(m)
        ELSE [SetEntry(m, [old EXCEPT !.first = m.file.first,
                                      !.size = IF m.file.dir THEN @ ELSE m.file.size])
                EXCEPT !.file.dirty = FALSE]

Sync(m) ==
    IF ~m.ok \/ ~m.file.open THEN Fail(m)
    ELSE CacheSync(IF m.file.dirty THEN Entered(CacheDirEntry(m, "write")) ELSE m)

Close(m) == [Sync(m) EXCEPT !.file = Closed]

\* A position lies in the cluster of the byte before it.
At(m, pos) == [m EXCEPT !.file.cur = m.val, !.file.pos = IF m.ok THEN pos ELSE @]
Restart(f, pos) == f.pos = 0 \/ (pos - 1) \div ClusterSize < (f.pos - 1) \div ClusterSize
SeekSet(m, pos) ==
    LET f == m.file
    IN  IF ~m.ok \/ ~f.open \/ pos > f.size THEN Fail(m)
        ELSE IF IsRoot(f) THEN [m EXCEPT !.file.pos = pos]
        ELSE IF pos = 0 THEN [m EXCEPT !.file.pos = 0, !.file.cur = 0]
        ELSE At(Follow(m, IF Restart(f, pos) THEN f.first ELSE f.cur,
                       (pos - 1) \div ClusterSize
                         - IF Restart(f, pos) THEN 0 ELSE (f.pos - 1) \div ClusterSize), pos)

FaultyNextCluster(m) ==     \* does not add to a chain
    IF ~m.ok \/ m.file.pos % ClusterSize # 0 THEN m
    ELSE IF m.file.cur # 0
      THEN LET g == FatGet(m, m.file.cur) IN IF g.ok /\ IsEOC(g.val) THEN Fail(g) ELSE GoTo(g)
    ELSE IF m.file.first = 0 THEN AddCluster(m) ELSE [m EXCEPT !.file.cur = m.file.first]
\* The cluster the next byte goes to; a new one at the end of the chain.
Extended(m) == IF m.ok /\ IsEOC(m.val) THEN AddCluster(m) ELSE GoTo(m)
NextCluster(m) ==
    IF ~m.ok \/ m.file.pos % ClusterSize # 0 THEN m
    ELSE IF m.file.cur # 0 THEN Extended(FatGet(m, m.file.cur))
    ELSE IF m.file.first = 0 THEN AddCluster(m) ELSE [m EXCEPT !.file.cur = m.file.first]

BlockOfCluster(f) == (f.pos % ClusterSize) \div BlockSize
BlockAt(f) == IF IsRoot(f) THEN DirBlock(f.pos \div EntriesPerBlock + 1)
              ELSE DataBlock(f.cur, BlockOfCluster(f))
OffsetOf(f) == f.pos % (IF IsRoot(f) THEN EntriesPerBlock ELSE BlockSize)

\* The bytes the next step of a transfer of left bytes takes: from the start
\* of a block, if there are enough, whole blocks go past the cache.
PastCache(f, left) == OffsetOf(f) = 0 /\ left >= BlockSize
Step(f, left) ==
    IF ~PastCache(f, left) THEN Lesser(BlockSize - OffsetOf(f), left)
    ELSE IF ~MultiBlock \/ left < 2 * BlockSize THEN BlockSize
    ELSE BlockSize * Lesser(left \div BlockSize, BlocksPerCluster - BlockOfCluster(f))

FilledBlock(byte) == [i \in 1 .. BlockSize |-> byte]
Filled(m, from, n, byte) ==
    IF m.ok THEN [m EXCEPT !.cache.data =
                    [i \in DOMAIN @ |-> IF i \in from + 1 .. from + n THEN byte ELSE @[i]]]
    ELSE m

\* What the cache holds of the block is worthless now.
WriteWhole(m, b, byte) ==
    WriteBlock(IF m.cache.block = b THEN CacheInvalidate(m) ELSE m, b, FilledBlock(byte))
WriteBlocks(m, nb, byte) ==
    LET put[b \in 0 .. nb] ==
          IF b = 0 THEN m
          ELSE WriteWhole(put[b - 1], DataBlock(m.file.cur, BlockOfCluster(m.file) + b - 1), byte)
    IN  put[nb]

Full(m, upTo) == IF upTo = BlockSize THEN CacheSync(m) ELSE m
WriteCached(m, n, byte) ==
    LET f    == m.file
        mode == IF OffsetOf(f) = 0 /\ f.pos >= f.size THEN "reserve" ELSE "write"
    IN  IF ~m.ok THEN m
        ELSE Full(Filled(CacheFetch(m, BlockAt(f), mode, FALSE), OffsetOf(f), n, byte),
                  OffsetOf(f) + n)

Moved(m, n) == IF m.ok THEN [m EXCEPT !.file.pos = @ + n] ELSE m

Written(m, n, past, byte) ==
    Moved(IF past THEN WriteBlocks(m, n \div BlockSize, byte) ELSE WriteCached(m, n, byte), n)
WriteStep(m, left, byte) == Written(m, Step(m.file, left), PastCache(m.file, left), byte)

Sized(m) == IF m.ok /\ m.file.pos > m.file.size
              THEN [m EXCEPT !.file.size = m.file.pos, !.file.dirty = TRUE] ELSE m
AtEnd(m) == IF m.file.append /\ m.file.pos # m.file.size THEN SeekSet(m, m.file.size) ELSE m

\* nbyte bytes, all the same here. (Print hands SdFile one at a time.) The
\* size is set when all are written: a failure leaves the position behind it.
WriteAll(m, byte, nbyte) ==
    LET write[i \in 0 .. nbyte] ==
          IF i = 0 THEN m
          ELSE LET w == write[i - 1]
               IN  IF ~w.ok \/ w.file.pos = m.file.pos + nbyte THEN w
                   ELSE WriteStep(NextCluster(w), m.file.pos + nbyte - w.file.pos, byte)
    IN  Sized(write[nbyte])
Write(m, byte, nbyte) ==
    IF ~m.file.open \/ m.file.dir \/ ~m.file.write THEN Fail(m)
    ELSE WriteAll(AtEnd(m), byte, nbyte)

\* The cluster of the next byte to read
ReadCluster(m) ==
    LET f == m.file
    IN  IF ~m.ok \/ IsRoot(f) \/ f.pos % ClusterSize # 0 THEN m
        ELSE IF f.pos = 0 THEN [m EXCEPT !.file.cur = f.first]
        ELSE [GoTo(FatGet(m, f.cur)) EXCEPT !.val = m.val]

Got(m, bytes) == IF m.ok THEN [m EXCEPT !.val = @ \o bytes, !.file.pos = @ + Len(bytes)] ELSE m

GotFrom(m, from, n) == Got(m, SubSeq(m.cache.data, from + 1, from + n))
ReadCached(m, n) ==
    IF m.ok THEN GotFrom(CacheFetch(m, BlockAt(m.file), "read", FALSE), OffsetOf(m.file), n) ELSE m

\* The transfers of whole blocks, past the cache
ReadWhole(m, b) == Transfer(m, [m EXCEPT !.val = @ \o m.disk[b]])
ReadBlocks(m, nb) ==
    LET get[b \in 0 .. nb] ==
          IF b = 0 THEN m
          ELSE ReadWhole(get[b - 1], DataBlock(m.file.cur, BlockOfCluster(m.file) + b - 1))
    IN  Moved(get[nb], nb * BlockSize)

\* Several blocks: what is dirty in the cache is to be written first. The
\* condition is met by a block in the cache at the start of the transfer or
\* before it, less than its length away.
FlushedFor(m, nb) ==
    IF nb > 1 /\ m.cache.block[1] = "data" /\ m.cache.block[2] = m.file.cur
         /\ m.cache.block[3] <= BlockOfCluster(m.file)
         /\ BlockOfCluster(m.file) < m.cache.block[3] + nb
      THEN CacheSync(m) ELSE m

ReadStep(m, left) ==
    IF ~m.ok THEN m
    ELSE IF PastCache(m.file, left) /\ BlockAt(m.file) # m.cache.block
      THEN ReadBlocks(FlushedFor(m, Step(m.file, left) \div BlockSize), Step(m.file, left) \div BlockSize)
    ELSE ReadCached(m, Lesser(BlockSize - OffsetOf(m.file), left))

\* At most nbyte bytes, as many as the file has left; val are the bytes.
ReadAll(m, nbyte) ==
    LET read[i \in 0 .. nbyte] ==
          IF i = 0 THEN [m EXCEPT !.val = <<>>]
          ELSE LET r == read[i - 1]
               IN  IF ~r.ok \/ r.file.pos = m.file.pos + nbyte THEN r
                   ELSE ReadStep(ReadCluster(r), m.file.pos + nbyte - r.file.pos)
    IN  read[nbyte]
Read(m, nbyte) ==
    IF ~m.ok \/ ~m.file.open THEN Fail(m)
    ELSE ReadAll(m, Lesser(nbyte, m.file.size - m.file.pos))

\* peek: getpos, read, setpos
Peek(m) ==
    LET r == Read(m, 1)
    IN  IF r.ok /\ r.val # <<>> THEN [r EXCEPT !.file.pos = m.file.pos, !.file.cur = m.file.cur] ELSE r

\* fgets: byte by byte up to the end of a line or of the file, at most
\* num - 1 bytes. (At the file's end a further read changes nothing.)
Joined(l, r) == IF r.ok THEN [r EXCEPT !.val = l.val \o @] ELSE r
NextOfLine(l, delim) ==
    IF ~l.ok \/ (l.val # <<>> /\ l.val[Len(l.val)] = delim) THEN l ELSE Joined(l, Read(l, 1))
Line(m, num, delim) ==
    LET get[i \in 0 .. num - 1] ==
          IF i = 0 THEN [m EXCEPT !.val = <<>>] ELSE NextOfLine(get[i - 1], delim)
    IN  get[num - 1]

(***************************************************************************)
(* Directories                                                             *)
(***************************************************************************)
\* A function called on the directory's object instead of the file's
Swap(m) == [m EXCEPT !.file = m.dir, !.dir = m.file]

Rewind(m) == [m EXCEPT !.file.pos = 0, !.file.cur = 0]

\* The block with the next entry is read into the cache; the position moves
\* on by n entries.
EntryBlock(m, n) ==
    IF m.ok THEN Moved(CacheFetch(m, BlockAt(m.file), "read", FALSE), n) ELSE m
ReadDirBlock(m, n) == EntryBlock(ReadCluster(m), n)

\* The size of a directory is the length of its chain.
SizeOn(s, g) == [m |-> g, c |-> g.val, size |-> s.size + ClusterSize]
EndSize(s) == IF s.m.ok /\ IsEOC(s.c) THEN [s.m EXCEPT !.file.size = s.size] ELSE Fail(s.m)
SetDirSize(m) ==
    LET go[i \in 0 .. ClusterCount] ==
          IF i = 0 THEN [m |-> m, c |-> m.file.first, size |-> 0]
          ELSE LET s == go[i - 1]
               IN  IF ~s.m.ok \/ IsEOC(s.c) THEN s ELSE SizeOn(s, FatGet(s.m, s.c))
    IN  EndSize(go[ClusterCount])

\* A new cluster of empty entries; its first block is in the cache.
FreeBlock == [k \in 1 .. EntriesPerBlock |-> NoEntry("free")]
Zeroed(m) ==
    LET zero[i \in 0 .. BlocksPerCluster - 1] ==
          IF i = 0 THEN m ELSE WriteBlock(zero[i - 1], DataBlock(m.file.cur, i), FreeBlock)
    IN  zero[BlocksPerCluster - 1]
Cleared(m) == IF m.ok THEN Zeroed([m EXCEPT !.cache.data = FreeBlock]) ELSE m
Grown(m) == IF m.ok THEN [m EXCEPT !.file.size = @ + ClusterSize] ELSE m
NewBlock(m) == IF m.ok THEN CacheFetch(m, DataBlock(m.file.cur, 0), "reserve", FALSE) ELSE m
AddDirCluster(m) == Grown(Cleared(NewBlock(AddCluster(m))))

\* One block of the directory is searched for the name, up to the first slot
\* that was never used; the first empty slot is remembered.
Searched(s, m, name) ==
    LET d      == m.cache.data
        stop   == {k \in 1 .. EntriesPerBlock : d[k].name \in {name, "free"}}
        empty  == {k \in 1 .. EntriesPerBlock :
                     /\ d[k].name \in {"free", "deleted"} /\ \A l \in stop : k <= l}
        found  == stop # {} /\ d[Least(stop)].name = name
    IN  IF ~m.ok THEN [s EXCEPT !.m = m]
        ELSE [m |-> m, done |-> stop # {}, found |-> found,
              at |-> IF found THEN <<m.cache.block, Least(stop)>> ELSE s.at,
              empty |-> IF s.empty[2] = 0 /\ empty # {}
                          THEN <<m.cache.block, Least(empty)>> ELSE s.empty]

\* Block by block through the directory
SearchOn(s, name) ==
    IF s.done \/ ~s.m.ok \/ s.m.file.pos >= s.m.file.size THEN s
    ELSE Searched(s, ReadDirBlock(s.m, EntriesPerBlock), name)
FindName(m, name) ==
    LET look[i \in 0 .. m.file.size \div EntriesPerBlock] ==
          IF i = 0 THEN [m |-> Rewind(m), done |-> FALSE, found |-> FALSE, at |-> <<NoBlock, 0>>,
                         empty |-> <<NoBlock, 0>>]
          ELSE SearchOn(look[i - 1], name)
    IN  look[m.file.size \div EntriesPerBlock]

\* From the position of the new end, all or what follows is freed.
Cut(g) == IF ~g.ok \/ IsEOC(g.val) THEN g ELSE FatPut(FreeChain(g, g.val), g.file.cur, EOC)
Emptied(m) == IF m.ok THEN [m EXCEPT !.file.first = 0] ELSE m
FreedFrom(m, length) == IF length = 0 THEN Emptied(FreeChain(m, m.file.first)) ELSE Cut(FatGet(m, m.file.cur))
Shortened(m, length) == IF m.ok THEN [m EXCEPT !.file.size = length, !.file.dirty = TRUE] ELSE m
Truncate(m, length) ==
    IF ~m.ok \/ ~m.file.open \/ m.file.dir \/ ~m.file.write \/ length > m.file.size THEN Fail(m)
    ELSE IF m.file.size = 0 THEN m
    ELSE SeekSet(Sync(Shortened(FreedFrom(SeekSet(m, length), length), length)),
                 Lesser(m.file.pos, length))

FaultyOpened(m, k, flags) ==                   \* forgets O_APPEND
    LET e == m.cache.data[k]
    IN  [m EXCEPT !.file = [Closed EXCEPT !.open = TRUE, !.dir = e.dir,
                              !.block = m.cache.block, !.index = k, !.first = e.first, !.size = e.size,
                              !.write = "write" \in flags]]
Opened(m, k, flags) ==
    LET e == m.cache.data[k]
    IN  [m EXCEPT !.file = [Closed EXCEPT !.open = TRUE, !.dir = e.dir,
                              !.block = m.cache.block, !.index = k, !.first = e.first, !.size = e.size,
                              !.write = "write" \in flags, !.append = "append" \in flags]]

\* The k-th entry of the block in the cache is opened.
DirSized(m) == IF m.file.dir THEN SetDirSize(m) ELSE m
Flagged(m, flags) ==
    IF "trunc" \in flags THEN Truncate(m, 0)
    ELSE IF "at_end" \in flags THEN SeekSet(m, m.file.size)
    ELSE m
OpenOrNot(m) == IF m.ok THEN m ELSE [m EXCEPT !.file = Closed]
OpenCachedEntry(m, k, flags) ==
    IF ~m.ok THEN m
    ELSE IF m.cache.data[k].dir /\ flags \cap {"write", "trunc"} # {} THEN Fail(m)
    ELSE OpenOrNot(Flagged(DirSized(Opened(m, k, flags)), flags))

\* dirEntry: what the file's entry says, once it is up to date; getFilename:
\* its name, wherever the entry is now in the cache.
EntryRead(m) == IF m.ok THEN [m EXCEPT !.val = m.cache.data[m.file.index]] ELSE m
DirEntry(m) == EntryRead(CacheDirEntry(Sync(m), "read"))

\* timestamp: the file's times that flags name are set, or all are taken from
\* another file's entry.
Stamped(m, times) == IF m.ok THEN CacheSync([m EXCEPT !.cache.data[m.file.index].times = times]) ELSE m
Stamp(m, flags) == IF m.ok THEN Stamped(m, m.cache.data[m.file.index].times \cup flags) ELSE m
Timestamp(m, flags, valid) ==
    IF ~m.ok \/ ~m.file.open \/ ~valid THEN Fail(m) ELSE Stamp(CacheDirEntry(Sync(m), "write"), flags)
TimesTaken(m, from) == Stamped(CacheDirEntry(Sync([m EXCEPT !.file = from]), "write"), m.val.times)
TimestampFrom(m, from) == IF m.ok THEN TimesTaken(DirEntry(m), from) ELSE m

Named(m) == IF m.ok THEN [m EXCEPT !.val = m.cache.data[m.file.index].name] ELSE m
Filename(m) ==
    IF ~m.file.open THEN Fail(m)
    ELSE IF IsRoot(m.file) THEN [m EXCEPT !.val = "/"]
    ELSE Named(CacheDirEntry(m, "read"))

\* An entry of the directory is opened or created by its name: in the first
\* empty slot, or in a new cluster of a directory that has none. val is the
\* place of the entry in the cache.
NewEntry(m, k, name) == [CacheSync(SetCached(m, k, NoEntry(name))) EXCEPT !.val = k]
Create(s, name) ==
    IF s.empty[2] # 0 THEN NewEntry(CacheFetch(s.m, s.empty[1], "write", FALSE), s.empty[2], name)
    ELSE IF IsRoot(s.m.file) THEN Fail(s.m)
    ELSE NewEntry(AddDirCluster(s.m), 1, name)
Located(s, name, flags) ==
    IF ~s.m.ok THEN s.m
    ELSE IF s.found THEN IF "excl" \in flags THEN Fail(s.m) ELSE [s.m EXCEPT !.val = s.at[2]]
    ELSE IF {"creat", "write"} \subseteq flags THEN Create(s, name)
    ELSE Fail(s.m)
OpenLocated(m, flags) == OpenCachedEntry(m, m.val, flags)
Open(m, name, flags) ==
    IF ~m.ok \/ m.file.open THEN Fail(m)
    ELSE OpenLocated(Swap(Located(FindName(Swap(m), name), name, flags)), flags)

\* Everything the volume knew is forgotten; what was dirty is lost.
VolumeInit(m) ==
    LET forgot == [m EXCEPT !.alloc = 2, !.cache = NoCache]
    IN  IF ~m.ok THEN m
        ELSE ReadBlock(ReadBlock(forgot, BootBlock, FALSE, FALSE), BootBlock, FALSE, FALSE)

Unlinked(m) ==
    IF m.ok
      THEN CacheSync([m EXCEPT !.cache.data[m.file.index].name = "deleted", !.file = Closed])
    ELSE m

FaultyRemove(m) == Unlinked(CacheDirEntry(m, "write"))       \* keeps the clusters
Remove(m) == Unlinked(CacheDirEntry(Truncate(m, 0), "write"))

Allocated(m, size) == AllocContiguous(m, (size - 1) \div ClusterSize + 1, 0)
Reserved(m, size) ==
    IF ~m.ok THEN Fail(Remove([m EXCEPT !.ok = TRUE]))
    ELSE Sync([m EXCEPT !.file.first = m.val, !.file.size = size, !.file.dirty = TRUE])
ReservedIn(m, size) == IF m.ok THEN Reserved(Allocated(m, size), size) ELSE m
CreateContiguous(m, name, size) ==
    IF ~m.ok \/ size = 0 THEN Fail(m)
    ELSE ReservedIn(Open(m, name, {"creat", "excl", "write"}), size)

(***************************************************************************)
(* What a card holds, for the properties: the chain of clusters from c,    *)
(* the files, their bytes, the clusters in use.                            *)
(***************************************************************************)
FatOf(d, c) == d[FatBlock(1, c)][c]

Chain(d, first) ==
    LET go[n \in 0 .. ClusterCount + 1] ==
          IF n = 0 THEN <<first>>
          ELSE LET before == go[n - 1]
                   c == before[Len(before)]
               IN  IF c \in Cluster THEN Append(before, FatOf(d, c)) ELSE before
        all == go[ClusterCount + 1]
    IN  SubSeq(all, 1, Len(all) - 1)

Places == DirBlocks \X (1 .. EntriesPerBlock)
FilesOn(d) == {p \in Places : d[p[1]][p[2]].name \in Names}
EntryAt(d, p) == d[p[1]][p[2]]

\* The n-th cluster of a chain; 0 if it has fewer.
Nth(d, first, n) ==
    LET go[i \in 1 .. n] ==
          IF i = 1 THEN first ELSE LET c == go[i - 1] IN IF c \in Cluster THEN FatOf(d, c) ELSE 0
    IN  go[n]

Bytes(d, e) ==
    [i \in 1 .. e.size |->
      d[DataBlock(Nth(d, e.first, (i - 1) \div ClusterSize + 1),
                  ((i - 1) % ClusterSize) \div BlockSize)][((i - 1) % BlockSize) + 1]]

InUse(d) == {c \in Cluster : FatOf(d, c) # 0}
ClustersOf(d, p) == LET chain == Chain(d, EntryAt(d, p).first)
                    IN  {chain[i] : i \in 1 .. Len(chain)}

\* Every chain of an entry is long enough for its size and ends properly.
Covered(d) ==
    \A p \in FilesOn(d) :
      LET e     == EntryAt(d, p)
          chain == Chain(d, e.first)
      IN  /\ Len(chain) * ClusterSize >= e.size
          /\ e.first # 0 => chain # <<>> /\ IsEOC(FatOf(d, chain[Len(chain)]))

\* No cluster has two owners: none is linked to twice, and none that is
\* linked to is the first of a file.
Unshared(d) ==
    /\ \A b, c \in Cluster : FatOf(d, b) \in Cluster /\ FatOf(d, b) = FatOf(d, c) => b = c
    /\ \A p, q \in FilesOn(d) : EntryAt(d, p).first \in Cluster =>
          /\ EntryAt(d, p).first = EntryAt(d, q).first => p = q
          /\ \A c \in Cluster : FatOf(d, c) # EntryAt(d, p).first

=============================================================================
