------------------------------- MODULE Format -------------------------------
(***************************************************************************)
(* The sketch SdFormatter (SdFat's examples), with which a card is erased  *)
(* and formatted, and SdVolume::init, which has to find the volume again.  *)
(* Each call of the card may fail, whereupon the sketch stops for good, and*)
(* the power may fail between two calls; then the sketch starts anew.      *)
(***************************************************************************)
EXTENDS Integers, Sequences, FiniteSets

CONSTANTS SDCards, SDHCCards    \* sizes of cards, in blocks

ASSUME FormatAssumption == SDCards \cup SDHCCards \subseteq Nat \ {0}

VARIABLES cardSizeBlocks, sdhc,   \* the card
          store,     \* what it holds: block -> contents, and the blocks of zeros
          step,      \* where the sketch is
          option,    \* what it was asked for
          todo,      \* the blocks that formatCard still has to write
          geo,       \* relSector, dataStart and the other sizes of the format
          bgn,       \* firstBlock of eraseCard
          promised   \* what the sketch has reported last: "Format done", "Erase done"

formatVars == <<cardSizeBlocks, sdhc, store, step, option, todo, geo, bgn, promised>>

BU16 == 128
BU32 == 8192
EraseSize == 262144
Zeros == [kind |-> "zeros"]
Unknown == [kind |-> "unknown"]
NoGeo == [kind |-> "none"]

\* The least k that ends a loop
First(S) == CHOOSE k \in S : \A l \in S : k <= l

-----------------------------------------------------------------------------
(***************************************************************************)
(* Sizes                                                                   *)
(***************************************************************************)
CapacityMB == ((cardSizeBlocks + 2047) \div 2048) % 2^16

\* The value that belongs to the first limit that capacity does not exceed
Upto(limits, values, else) ==
    LET fits == {i \in DOMAIN limits : CapacityMB <= limits[i]}
    IN  IF fits = {} THEN else ELSE values[First(fits)]

SectorsPerCluster == Upto(<<6, 16, 32, 64, 128, 1024, 32768>>, <<0, 2, 4, 8, 16, 32, 64>>, 128)
SectorsPerTrack == IF CapacityMB <= 256 THEN 32 ELSE 63
NumberOfHeads == Upto(<<16, 32, 128, 504, 1008, 2016, 4032>>, <<2, 4, 8, 16, 32, 64, 128>>, 255)

lbnToCylinder(lbn) == (lbn \div (NumberOfHeads * SectorsPerTrack)) % 2^16
lbnToHead(lbn) == (lbn % (NumberOfHeads * SectorsPerTrack)) \div SectorsPerTrack
lbnToSector(lbn) == (lbn % SectorsPerTrack) + 1

\* The clusters behind dataStart, and the blocks of a FAT for them
Clusters(dataStart) == (cardSizeBlocks - dataStart) \div SectorsPerCluster
FatSize(nc, perBlock) == (nc + 2 + perBlock - 1) \div perBlock

\* The partition ends with the card's last cluster; dataStart lies on a
\* boundary, the first one with room enough before it.
FaultyFat16Sizes ==         \* forgets the second FAT
    LET size(ds) == FatSize(Clusters(ds), 256)
        need(ds) == BU16 + 1 + size(ds) + 32
        ds == BU16 * First({k \in 2 .. 16 : BU16 * k >= need(BU16 * k)})
    IN  [fat |-> 16, nc |-> Clusters(ds), dataStart |-> ds, fatSize |-> size(ds),
         relSector |-> ds - need(ds) + BU16, reservedSectors |-> 1]
Fat16Sizes ==
    LET size(ds) == FatSize(Clusters(ds), 256)
        need(ds) == BU16 + 1 + 2 * size(ds) + 32
        ds == BU16 * First({k \in 2 .. 16 : BU16 * k >= need(BU16 * k)})
    IN  [fat |-> 16, nc |-> Clusters(ds), dataStart |-> ds, fatSize |-> size(ds),
         relSector |-> ds - need(ds) + BU16, reservedSectors |-> 1]
Fat32Sizes ==
    LET size(ds) == FatSize(Clusters(ds), 128)
        ds == BU32 * First({k \in 2 .. 16 : BU32 * k >= BU32 + 9 + 2 * size(BU32 * k)})
    IN  [fat |-> 32, nc |-> Clusters(ds), dataStart |-> ds, fatSize |-> size(ds),
         relSector |-> BU32, reservedSectors |-> (ds - BU32 - 2 * size(ds)) % 2^16]

FatStart(g) == g.relSector + g.reservedSectors
PartSize(g) ==
    g.nc * SectorsPerCluster
      + IF g.fat = 16 THEN 2 * g.fatSize + g.reservedSectors + 32 ELSE g.dataStart - g.relSector
ClustersValid(g) == IF g.fat = 16 THEN g.nc >= 4085 /\ g.nc < 65525 ELSE g.nc >= 65525

-----------------------------------------------------------------------------
(***************************************************************************)
(* What is written                                                         *)
(***************************************************************************)
PartType(g) ==
    IF g.fat = 32 THEN IF g.relSector + PartSize(g) <= 16450560 THEN 11 ELSE 12
    ELSE IF PartSize(g) < 32680 THEN 1 ELSE IF PartSize(g) < 65536 THEN 4 ELSE 6

CHS(lbn) == <<lbnToCylinder(lbn), lbnToHead(lbn), lbnToSector(lbn)>>
TooBig == <<1023, 254, 63>>
Mbr(g) ==
    LET last == g.relSector + PartSize(g) - 1
    IN  [kind |-> "mbr", boot |-> 0, type |-> PartType(g),
         begin |-> CHS(g.relSector),
         end |-> IF lbnToCylinder(last) <= 1023 THEN CHS(last) ELSE TooBig,
         firstSector |-> g.relSector, totalSectors |-> PartSize(g)]

BootSector(g) ==
    [kind |-> "boot", bytesPerSector |-> 512, sectorsPerCluster |-> SectorsPerCluster,
     reservedSectorCount |-> g.reservedSectors, fatCount |-> 2,
     rootDirEntryCount |-> IF g.fat = 16 THEN 512 ELSE 0, totalSectors16 |-> 0,
     sectorsPerFat16 |-> IF g.fat = 16 THEN g.fatSize ELSE 0,
     totalSectors32 |-> PartSize(g),
     sectorsPerFat32 |-> IF g.fat = 32 THEN g.fatSize ELSE 0,
     fat32RootCluster |-> IF g.fat = 32 THEN 2 ELSE 0]

Extra == [kind |-> "signature"]
FsInfo == [kind |-> "fsinfo", freeCount |-> "unknown", nextFree |-> "unknown"]
\* The entries 0 and 1, and 2 of a FAT32: the root directory
ReservedEntries(g) == [kind |-> "fat", entries |-> IF g.fat = 16 THEN <<"EOC", "EOC">> ELSE <<"EOC", "EOC", "EOC">>]

Put(lbn, data) == [lbn |-> lbn, count |-> 1, data |-> data]
\* clearFatDir, a multiple block write
Clear(bgnBlock, count) == [lbn |-> bgnBlock, count |-> count, data |-> Zeros]

\* makeFat16 and makeFat32: the calls of the card, in this order
Fat16Writes(g) ==
    <<Put(0, Mbr(g)), Put(g.relSector, BootSector(g)),
      Clear(FatStart(g), g.dataStart - FatStart(g)),
      Put(FatStart(g), ReservedEntries(g)), Put(FatStart(g) + g.fatSize, ReservedEntries(g))>>
Fat32Writes(g) ==
    <<Put(0, Mbr(g)), Put(g.relSector, BootSector(g)), Put(g.relSector + 6, BootSector(g)),
      Put(g.relSector + 2, Extra), Put(g.relSector + 8, Extra),
      Put(g.relSector + 1, FsInfo), Put(g.relSector + 7, FsInfo),
      Clear(FatStart(g), 2 * g.fatSize + SectorsPerCluster),
      Put(FatStart(g), ReservedEntries(g)), Put(FatStart(g) + g.fatSize, ReservedEntries(g))>>

\* The card after a write of the blocks from .. from + n - 1: single blocks,
\* and the zeros that were written last.
Overwritten(s, from, n, data) ==
    LET keep == {b \in DOMAIN s.at : b < from \/ b >= from + n}
    IN  IF data = Zeros
          THEN [at |-> [b \in keep |-> s.at[b]], zeros |-> [from |-> from, n |-> n]]
        ELSE [s EXCEPT !.at = [b \in keep \cup {from} |-> IF b = from THEN data ELSE s.at[b]]]

On(b) == IF b \in DOMAIN store.at THEN store.at[b]
         ELSE IF b >= store.zeros.from /\ b < store.zeros.from + store.zeros.n THEN Zeros
         ELSE Unknown

-----------------------------------------------------------------------------
(***************************************************************************)
(* The sketch                                                              *)
(***************************************************************************)
FormatInit ==
    /\ \E c \in ({FALSE} \X SDCards) \cup ({TRUE} \X SDHCCards) : sdhc = c[1] /\ cardSizeBlocks = c[2]
    /\ store = [at |-> [b \in {} |-> Zeros], zeros |-> [from |-> 0, n |-> 0]]
    /\ step = "menu" /\ option = "none" /\ todo = <<>> /\ geo = NoGeo /\ bgn = 0
    /\ promised = "nothing"

\* setup: the option is read, the card is initialised and asked for its size.
Choose ==
    /\ step = "menu"
    /\ \/ /\ step' \in {"halted", "quit"}
          /\ UNCHANGED option
       \/ /\ option' \in {"E", "F", "Q"}
          /\ step' = IF option' = "Q" THEN "sizes" ELSE "erase"
    /\ UNCHANGED <<store, todo, geo, bgn, promised>>

\* One turn of eraseCard's loop
LastBlock == IF bgn + EraseSize - 1 >= cardSizeBlocks THEN cardSizeBlocks - 1 ELSE bgn + EraseSize - 1
Erase ==
    /\ step = "erase" /\ bgn < cardSizeBlocks
    /\ promised' = "nothing"
    /\ \/ /\ store' = Overwritten(store, 0, LastBlock + 1, Zeros)
          /\ bgn' = bgn + EraseSize /\ UNCHANGED step
       \/ step' = "halted" /\ UNCHANGED <<store, bgn>>
    /\ UNCHANGED <<option, todo, geo>>

\* A block is read to see what erased data look like.
EraseDone ==
    /\ step = "erase" /\ bgn >= cardSizeBlocks
    /\ \/ step' = "halted" /\ UNCHANGED promised
       \/ /\ step' = IF option = "F" THEN "sizes" ELSE "quit"
          /\ promised' = "Erase done"
    /\ UNCHANGED <<store, option, todo, geo, bgn>>

\* initSizes and the sizes of the format, with their errors
FormatCard ==
    LET g == IF sdhc THEN Fat32Sizes ELSE Fat16Sizes
    IN  /\ step = "sizes"
        /\ IF CapacityMB <= 6 THEN step' = "halted" /\ UNCHANGED <<geo, todo>>
           ELSE IF ~ClustersValid(g) \/ lbnToCylinder(g.relSector) > 1023
             THEN step' = "halted" /\ UNCHANGED <<geo, todo>>
           ELSE /\ step' = "write" /\ geo' = g
                /\ todo' = IF sdhc THEN Fat32Writes(g) ELSE Fat16Writes(g)
        /\ UNCHANGED <<store, option, bgn, promised>>

\* A call that fails may have written some of its blocks.
WriteNext ==
    /\ step = "write" /\ todo # <<>>
    /\ promised' = "nothing"
    /\ \/ /\ store' = Overwritten(store, Head(todo).lbn, Head(todo).count, Head(todo).data)
          /\ todo' = Tail(todo) /\ UNCHANGED step
       \/ /\ step' = "halted" /\ UNCHANGED todo
          /\ \E n \in {0, 1, Head(todo).count - 1, Head(todo).count} :
               store' = IF n = 0 THEN store ELSE Overwritten(store, Head(todo).lbn, n, Head(todo).data)
    /\ UNCHANGED <<option, geo, bgn>>

FormatDone ==
    /\ step = "write" /\ todo = <<>>
    /\ step' = "quit" /\ promised' = "Format done"
    /\ UNCHANGED <<store, option, todo, geo, bgn>>

\* Reset, or power off and on: the card keeps what it has.
Reset ==
    /\ step' = "menu" /\ option' = "none" /\ todo' = <<>> /\ geo' = NoGeo /\ bgn' = 0
    /\ UNCHANGED <<store, promised>>

FormatNext ==
    /\ \/ Choose \/ Erase \/ EraseDone \/ FormatCard \/ WriteNext \/ FormatDone \/ Reset
    /\ UNCHANGED <<cardSizeBlocks, sdhc>>

FormatSpec == FormatInit /\ [][FormatNext]_formatVars

-----------------------------------------------------------------------------
(***************************************************************************)
(* SdVolume::init: the partition, or the whole card as one (part 0)        *)
(***************************************************************************)
NotMounted == [ok |-> FALSE]

\* The FAT type is a matter of the count of clusters; there is no FAT12.
Volume(start, b) ==
    LET fatSize   == IF b.sectorsPerFat16 # 0 THEN b.sectorsPerFat16 ELSE b.sectorsPerFat32
        fatStart  == start + b.reservedSectorCount
        rootStart == fatStart + b.fatCount * fatSize
        dataStart == rootStart + (32 * b.rootDirEntryCount + 511) \div 512
        total     == IF b.totalSectors16 # 0 THEN b.totalSectors16 ELSE b.totalSectors32
        count     == (total - (dataStart - start)) \div b.sectorsPerCluster
    IN  IF count < 4085 THEN NotMounted
        ELSE [ok |-> TRUE, fatType |-> IF count < 65525 THEN 16 ELSE 32,
              blocksPerCluster |-> b.sectorsPerCluster, blocksPerFat |-> fatSize,
              fatStartBlock |-> fatStart, dataStartBlock |-> dataStart, clusterCount |-> count,
              rootDirStart |-> IF count < 65525 THEN rootStart ELSE b.fat32RootCluster]

PowerOfTwo(n) == \E i \in 0 .. 7 : n = 2^i
MountAt(start) ==
    LET b == On(start)
    IN  IF b.kind # "boot" THEN NotMounted
        ELSE IF b.bytesPerSector # 512 \/ b.fatCount = 0 \/ b.reservedSectorCount = 0 THEN NotMounted
        ELSE IF ~PowerOfTwo(b.sectorsPerCluster) THEN NotMounted
        ELSE Volume(start, b)
MountPart ==
    LET p == On(0)
    IN  IF p.kind # "mbr" \/ p.boot % 128 # 0 \/ p.firstSector = 0 THEN NotMounted
        ELSE MountAt(p.firstSector)
Mount == IF MountPart.ok THEN MountPart ELSE MountAt(0)

-----------------------------------------------------------------------------
Inside(from, n, start, count) == start <= from /\ from + n <= start + count

\* Cylinder, head and sector lead to the block.
Leads(chs, lbn) ==
    \/ chs = TooBig /\ lbn >= 1023 * NumberOfHeads * SectorsPerTrack
    \/ (chs[1] * NumberOfHeads + chs[2]) * SectorsPerTrack + chs[3] - 1 = lbn

\* A volume found on the card is one that SdFat and a computer can use: its
\* parts lie one behind the other in the partition and on the card, the FAT
\* has an entry for every cluster, only the reserved ones are in use, both
\* copies are the same, and the root directory is empty.
Usable(v, p) ==
    LET entries == IF v.fatType = 16 THEN 256 ELSE 128
        second  == v.fatStartBlock + v.blocksPerFat
        root    == v.fatStartBlock + 2 * v.blocksPerFat
        rootLen == IF v.fatType = 16 THEN 32 ELSE v.blocksPerCluster
    IN  /\ v.ok /\ v.fatType = (IF sdhc THEN 32 ELSE 16)
        /\ Inside(p.firstSector, p.totalSectors, 1, cardSizeBlocks - 1)
        /\ Leads(p.begin, p.firstSector)
        /\ Leads(p.end, p.firstSector + p.totalSectors - 1)
        /\ p.firstSector < v.fatStartBlock /\ root + (IF sdhc THEN 0 ELSE 32) <= v.dataStartBlock
        /\ Inside(v.dataStartBlock, v.clusterCount * v.blocksPerCluster, p.firstSector, p.totalSectors)
        /\ v.clusterCount + 2 <= v.blocksPerFat * entries
        /\ On(v.fatStartBlock).kind = "fat" /\ On(second) = On(v.fatStartBlock)
        /\ Inside(v.fatStartBlock, 2 * v.blocksPerFat + rootLen, store.zeros.from, store.zeros.n)
        /\ {b \in DOMAIN store.at : b > v.fatStartBlock /\ b < root + rootLen} = {second}

\* After "Format done", and for as long as nothing is written, the card
\* mounts as a usable volume; after "Erase done" no block has old data.
FormatKept ==
    /\ promised = "Format done" => Usable(Mount, On(0))
    /\ promised = "Erase done" => /\ DOMAIN store.at = {}
                                  /\ Inside(0, cardSizeBlocks, store.zeros.from, store.zeros.n)
                                  /\ ~Mount.ok
=============================================================================
