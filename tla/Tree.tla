-------------------------------- MODULE Tree --------------------------------
(***************************************************************************)
(* SdFat's calls on paths: directories are made, entered, listed, renamed  *)
(* and removed while files come and go in them. Each call has SdBaseFile   *)
(* objects of its own; what stays is the volume, with its cache, and the   *)
(* object of the working directory. The card works.                        *)
(*                                                                         *)
(* What the library leaves to its caller is left out: a path leads through *)
(* directories only; the working directory is not renamed, removed or      *)
(* written to through another object (by a longer path); no directory is   *)
(* moved into itself, and none is renamed on a card without a free cluster.*)
(***************************************************************************)
EXTENDS Dirs

CONSTANTS MaxDepth,    \* names in the longest path
          MaxChanges   \* bound: calls that change the tree

ASSUME TreeAssumption ==
    /\ {MaxDepth, MaxChanges} \subseteq Nat \ {0}
    /\ EntriesPerBlock >= 2 /\ BlockSize = EntriesPerBlock

VARIABLES disk, cache, alloc,  \* as in Fat
          vwd,                 \* the object of the working directory
          cwd,                 \* what the program takes for the working directory
          tree,                \* what it has made: path -> [dir, size]
          wrong,               \* a call has failed without a reason or answered wrongly
          changes              \* calls so far that change the tree

treeVars == <<disk, cache, alloc, vwd, cwd, tree, wrong, changes>>

Whole(p) == IF p.abs THEN p.names ELSE cwd \o p.names
FullPaths == UNION {[1 .. n -> Names] : n \in 1 .. MaxDepth}
Up1(x) == SubSeq(x, 1, Len(x) - 1)
Under(x, y) == Len(x) >= Len(y) /\ SubSeq(x, 1, Len(y)) = y
\* The paths to x: from the root, with a slash that says so (and makes no
\* difference in the root itself), and from the working directory.
FromRoot(x) == IF cwd = <<>> THEN {} ELSE {[abs |-> TRUE, names |-> x]}
FromCwd(x) == IF x # cwd /\ Under(x, cwd)
                THEN {[abs |-> FALSE, names |-> SubSeq(x, Len(cwd) + 1, Len(x))]} ELSE {}
PathsTo(x) == FromRoot(x) \cup FromCwd(x)

There == DOMAIN tree
IsDir(x) == x = <<>> \/ (x \in There /\ tree[x].dir)
Children(x) == {y \in There : y # <<>> /\ Up1(y) = x}
ThroughDirs(x) == \A n \in 1 .. Len(x) - 1 : SubSeq(x, 1, n) \in There => IsDir(SubSeq(x, 1, n))

Plus(t, x, node) == [y \in DOMAIN t \cup {x} |-> IF y = x THEN node ELSE t[y]]
Minus(t, S) == [y \in DOMAIN t \ S |-> t[y]]
DirNode == [dir |-> TRUE, size |-> 0]
FileNode(size) == [dir |-> FALSE, size |-> size]

-----------------------------------------------------------------------------
(***************************************************************************)
(* What is on the card                                                     *)
(***************************************************************************)
View == IF cache.dirty THEN [disk EXCEPT ![cache.block] = cache.data] ELSE disk

BlocksOf(d, first) ==
    IF first = 0 THEN [i \in 1 .. RootBlocks |-> DirBlock(i)]
    ELSE LET chain == Chain(d, first)
         IN  [i \in 1 .. Len(chain) * BlocksPerCluster |->
                DataBlock(chain[((i - 1) \div BlocksPerCluster) + 1], (i - 1) % BlocksPerCluster)]

\* The entries of a directory, from its first cluster (0: the root), up to
\* the first slot that was never used.
Slots(d, first) ==
    LET blocks == BlocksOf(d, first)
    IN  [i \in 1 .. Len(blocks) * EntriesPerBlock |->
           d[blocks[((i - 1) \div EntriesPerBlock) + 1]][((i - 1) % EntriesPerBlock) + 1]]
EntriesOf(slots) ==
    {i \in DOMAIN slots : /\ ~Skipped(slots[i].name)
                          /\ \A j \in 1 .. i : slots[j].name # "free"}
NoSlot(d, first) == \A i \in DOMAIN Slots(d, first) : Slots(d, first)[i].name \notin {"free", "deleted"}

\* The first cluster of a directory, by its path
FirstOf(d, x) ==
    LET go[n \in 0 .. Len(x)] ==
          IF n = 0 THEN 0
          ELSE LET slots == Slots(d, go[n - 1])
               IN  slots[CHOOSE i \in EntriesOf(slots) : slots[i].name = x[n]].first
    IN  go[Len(x)]

Room == Cardinality(Cluster \ InUse(View))
\* The directory has to grow for a new entry.
Grows(x) == IF NoSlot(View, FirstOf(View, x)) THEN 1 ELSE 0

-----------------------------------------------------------------------------
Formatted ==
    [b \in {FatBlock(k, c) : k \in {1, 2}, c \in Cluster} \cup DirBlocks
           \cup {DataBlock(c, i) : c \in Cluster, i \in 0 .. BlocksPerCluster - 1} |->
      CASE b[1] = "fat"  -> [c \in {y \in Cluster : FatBlock(b[2], y) = b} |-> 0]
        [] b[1] = "data" -> FilledBlock(0)
        [] OTHER         -> FreeBlock]

TreeInit ==
    /\ disk = Formatted /\ cache = NoCache /\ alloc = 2
    /\ vwd = Root /\ cwd = <<>>
    /\ tree = [x \in {} |-> DirNode] /\ wrong = FALSE /\ changes = 0

Machine == [disk |-> disk, cache |-> cache, alloc |-> alloc, file |-> Closed, dir |-> vwd,
            ok |-> TRUE, val |-> 0, n |-> 1, bad |-> {}, took |-> {}]

\* Every call rewinds the working directory before it reads it.
Result(m) == disk' = m.disk /\ cache' = m.cache /\ alloc' = m.alloc /\ vwd' = Rewind(Swap(m)).file
Same(m) == disk' = m.disk /\ cache' = m.cache /\ alloc' = m.alloc /\ vwd' = vwd

\* A call may put an entry into the directory of the path's last name.
MayAdd(p) ==
    LET x == Whole(p)
    IN  /\ ThroughDirs(x)
        /\ Up1(x) = cwd => cwd = <<>> \/ (~p.abs /\ Len(p.names) = 1)

\* What is renamed or removed is there, and no object is open on it. (A call
\* on what is not there ends with its open, as Exists does.)
Taken(x) == x \in There /\ ThroughDirs(x) /\ ~Under(cwd, x)

-----------------------------------------------------------------------------
IsDirFile(m) == IF m.ok /\ ~m.file.dir THEN Fail(m) ELSE m
Chdir(p) ==
    /\ ThroughDirs(Whole(p))
    /\ \E m \in {IsDirFile(OpenPath(Machine, p, {}))} :
         /\ disk' = m.disk /\ cache' = m.cache /\ alloc' = m.alloc
         /\ vwd' = IF m.ok THEN m.file ELSE vwd
         /\ cwd' = IF m.ok THEN Whole(p) ELSE cwd
         /\ wrong' = (m.ok # IsDir(Whole(p)))
    /\ UNCHANGED tree

ChdirRoot ==
    /\ vwd' = Root /\ cwd' = <<>>
    /\ \E m \in {Close([Machine EXCEPT !.file = vwd])} :
         disk' = m.disk /\ cache' = m.cache /\ alloc' = m.alloc
    /\ wrong' = FALSE /\ UNCHANGED tree

\* What mkdir makes: with pFlag first the directories that are missing. Each
\* takes a cluster, and one more if its parent has to grow. On a full card
\* it leaves the file behind that it wanted to turn into a directory.
MadeOf(s, x) ==
    LET need == IF Up1(x) \in s.new THEN (IF ClusterSize = 2 THEN 1 ELSE 0) ELSE Grows(Up1(x))
    IN  IF s.room < need THEN [s EXCEPT !.ok = FALSE]
        ELSE IF s.room = need
          THEN [s EXCEPT !.ok = FALSE, !.tree = Plus(@, x, FileNode(0))]
        ELSE [s EXCEPT !.tree = Plus(@, x, DirNode), !.room = @ - need - 1, !.new = @ \cup {x}]
MakeNext(s, y, last, pFlag) ==
    IF ~s.ok \/ (~last /\ IsDir(y)) THEN s
    ELSE IF (last /\ y \in There) \/ (~last /\ (~pFlag \/ y \in There)) THEN [s EXCEPT !.ok = FALSE]
    ELSE MadeOf(s, y)
Making(x, pFlag) ==
    LET go[n \in 0 .. Len(x)] ==
          IF n = 0 THEN [ok |-> TRUE, tree |-> tree, room |-> Room, new |-> {}]
          ELSE MakeNext(go[n - 1], SubSeq(x, 1, n), n = Len(x), pFlag)
    IN  go[Len(x)]

MakeDir(p, pFlag) ==
    /\ MayAdd(p)
    /\ pFlag => MayAdd([abs |-> TRUE, names |-> Whole(p)]) \/ Len(p.names) = 1
    /\ \E m \in {Mkdir(Machine, p, pFlag)}, s \in {Making(Whole(p), pFlag)} :
         /\ Result(m)
         /\ tree' = s.tree
         /\ wrong' = (m.ok # s.ok)
    /\ UNCHANGED cwd

\* A file is opened or created, one byte is written to it, and it is closed.
Written1(m) == IF m.ok THEN Write(m, 0, 1) ELSE m
CloseFile(m) == [Close([m EXCEPT !.ok = TRUE]) EXCEPT !.val = m.ok]
WriteFile(p) ==
    LET x    == Whole(p)
        node == IF x \in There THEN tree[x] ELSE FileNode(0)
        need == IF x \in There THEN 0 ELSE Grows(Up1(x))
        able == IsDir(Up1(x)) /\ ~node.dir /\ need <= Room
        fits == able /\ (node.size > 0 \/ need < Room)
    IN  /\ MayAdd(p) /\ IsDir(Up1(x))
        /\ \E m \in {CloseFile(Written1(OpenPath(Machine, p, {"creat", "write"})))} :
             /\ Result(m)
             /\ tree' = IF able THEN Plus(tree, x, FileNode(IF fits THEN 1 ELSE 0)) ELSE tree
             /\ wrong' = (m.val # fits)
        /\ UNCHANGED cwd

Cut0(m) == IF m.ok THEN Truncate(m, 0) ELSE m
TruncateFile(p) ==
    LET x == Whole(p)
    IN  /\ x \in There /\ ThroughDirs(x)
        /\ \E m \in {Cut0(OpenPath(Machine, p, {"write"}))} :
             /\ Result(m)
             /\ tree' = IF m.ok THEN Plus(tree, x, FileNode(0)) ELSE tree
             /\ wrong' = (m.ok = IsDir(x))
        /\ UNCHANGED cwd

RemoveFile(p) ==
    LET x == Whole(p)
    IN  /\ x \in There /\ ThroughDirs(x)
        /\ \E m \in {RemovePath(Machine, p)} :
             /\ Result(m)
             /\ tree' = IF m.ok THEN Minus(tree, {x}) ELSE tree
             /\ wrong' = (m.ok = IsDir(x))
        /\ UNCHANGED cwd

RmdirOpened(m) == IF m.ok THEN Rmdir(m) ELSE m
RemoveDir(p) ==
    LET x == Whole(p)
    IN  /\ Taken(x)
        /\ \E m \in {RmdirOpened(OpenPath(Machine, p, {}))} :
             /\ Result(m)
             /\ tree' = IF m.ok THEN Minus(tree, {x}) ELSE tree
             /\ wrong' = (m.ok # (IsDir(x) /\ Children(x) = {}))
        /\ UNCHANGED cwd

\* Called on a directory, or on the working directory if it is the root.
RmRfOpened(m) == IF m.ok THEN RmRfStar(m) ELSE m
RemoveAll(p) ==
    LET x == Whole(p)
    IN  /\ Taken(x) /\ IsDir(x)
        /\ \E m \in {RmRfOpened(OpenPath(Machine, p, {}))} :
             /\ Result(m)
             /\ tree' = Minus(tree, {y \in There : Under(y, x)})
             /\ wrong' = ~m.ok
        /\ UNCHANGED cwd

RemoveAllOfRoot ==
    /\ cwd = <<>>
    /\ \E m \in {RmRfStar([Machine EXCEPT !.file = vwd])} :
         /\ Same(m)
         /\ tree' = Minus(tree, There)
         /\ wrong' = ~m.ok
    /\ UNCHANGED cwd

\* The new entry takes the slot of the old one if there is none before it.
RenamedTree(x, y) ==
    LET moved == {z \in There : Under(z, x)}
        new(z) == y \o SubSeq(z, Len(x) + 1, Len(z))
    IN  [w \in (There \ moved) \cup {new(z) : z \in moved} |->
           IF Under(w, y) THEN tree[x \o SubSeq(w, Len(y) + 1, Len(w))] ELSE tree[w]]
RenameOpened(m, q) == IF m.ok THEN Rename(m, q) ELSE m
RenamePath(p, q) ==
    LET x    == Whole(p)
        y    == Whole(q)
        need == IF Up1(x) = Up1(y) \/ ~IsDir(Up1(y)) THEN 0 ELSE Grows(Up1(y))
    IN  /\ MayAdd(q)
        /\ ~Under(y, x)
        /\ IsDir(x) => need < Room /\ \A z \in There : Under(z, x) => Len(y) + Len(z) - Len(x) <= MaxDepth
        /\ \E m \in {RenameOpened(OpenPath(Machine, p, {}), q)} :
             /\ Result(m)
             /\ tree' = IF m.ok THEN RenamedTree(x, y) ELSE tree
             /\ wrong' = (m.ok # (y \notin There /\ IsDir(Up1(y)) /\ need <= Room))
        /\ UNCHANGED cwd

-----------------------------------------------------------------------------
(***************************************************************************)
(* Calls that only look                                                    *)
(***************************************************************************)
Exists(p) ==
    /\ ThroughDirs(Whole(p))
    /\ \E m \in {OpenPath(Machine, p, {})} :
         Result(m) /\ wrong' = (m.ok # (Whole(p) \in There))
    /\ UNCHANGED <<cwd, tree>>

ParentOpened(m) == IF m.ok THEN OpenParent([Sub(m) EXCEPT !.dir = m.file]) ELSE m
ParentOf(p) ==
    LET x == Whole(p)
    IN  /\ IsDir(x) /\ ThroughDirs(x)
        /\ \E m \in {ParentOpened(OpenPath(Machine, p, {}))} :
             /\ Same(m)
             /\ wrong' = ~(m.ok /\ m.file.dir /\ m.file.first = FirstOf(View, Up1(x)))
        /\ UNCHANGED <<cwd, tree>>

LsCwd ==
    /\ \E m \in {Ls([Machine EXCEPT !.file = vwd], cwd)} :
         Same(m) /\ wrong' = (m.val # {x \in There : Under(x, cwd) /\ x # cwd})
    /\ UNCHANGED <<cwd, tree>>

\* The first entry of the working directory is opened.
OpenFirst ==
    /\ \E m \in {OpenNext([Machine EXCEPT !.dir = Rewind([Machine EXCEPT !.file = vwd]).file], {})} :
         /\ Same(m)
         /\ wrong' = ~IF m.ok THEN \E x \in Children(cwd) : IsDir(x) = m.file.dir
                      ELSE Children(cwd) = {}
    /\ UNCHANGED <<cwd, tree>>

CountFree ==
    /\ \E m \in {FreeClusterCount(Machine)} :
         Same(m) /\ wrong' = (m.val # Room)
    /\ UNCHANGED <<cwd, tree>>

Change(p) ==
    \/ WriteFile(p) \/ TruncateFile(p) \/ RemoveFile(p) \/ RemoveDir(p) \/ RemoveAll(p)
    \/ \E pFlag \in BOOLEAN : MakeDir(p, pFlag)
    \/ Taken(Whole(p)) /\ \E y \in FullPaths : \E q \in PathsTo(y) : RenamePath(p, q)

TreeNext ==
    \/ /\ changes < MaxChanges /\ changes' = changes + 1
       /\ RemoveAllOfRoot \/ \E x \in FullPaths : \E p \in PathsTo(x) : Change(p)
    \/ /\ UNCHANGED changes
       /\ \/ \E x \in FullPaths : \E p \in PathsTo(x) : Chdir(p) \/ Exists(p) \/ ParentOf(p)
          \/ ChdirRoot \/ LsCwd \/ OpenFirst \/ CountFree

TreeSpec == TreeInit /\ [][TreeNext]_treeVars

-----------------------------------------------------------------------------
\* The tree on the card, read from its root
OnCard(d) ==
    LET named(x, e) == <<Append(x, e.name), e>>
        below(x, first) ==
          LET slots == Slots(d, first) IN {named(x, slots[i]) : i \in EntriesOf(slots)}
        level[n \in 1 .. MaxDepth] ==
          IF n = 1 THEN below(<<>>, 0)
          ELSE UNION {below(y[1], y[2].first) : y \in {z \in level[n - 1] : z[2].dir}}
    IN  UNION {level[n] : n \in 1 .. MaxDepth}

\* '.' and '..' lead where they should.
DotsRight(d, x, e) ==
    LET slots == Slots(d, e.first)
    IN  /\ slots[1].name = "." /\ slots[1].first = e.first
        /\ slots[2].name = ".." /\ slots[2].first = FirstOf(d, Up1(x))

\* Every call does what it is for and answers what is true, whatever the
\* calls before it: the card holds the tree that they have made, each name
\* once, '.' and '..' in every directory, every cluster in use belongs to one
\* file or directory, nothing waits in the cache, both copies of the FAT
\* agree, and the working directory's object is as its entry.
TreeKept ==
    LET all == OnCard(View)
        chains == [y \in all |-> Chain(View, y[2].first)]
    IN  /\ ~wrong
        /\ {y[1] : y \in all} = There /\ Cardinality(all) = Cardinality(There)
        /\ \A y \in all : y[2].dir = tree[y[1]].dir /\ y[2].size = tree[y[1]].size
        /\ \A y \in all : y[2].dir => DotsRight(View, y[1], y[2])
        /\ \A y \in all : ~y[2].dir => Len(chains[y]) = y[2].size
        /\ InUse(View) = UNION {{chains[y][i] : i \in DOMAIN chains[y]} : y \in all}
        /\ \A y, z \in all : y # z => \A i \in DOMAIN chains[y], j \in DOMAIN chains[z] :
                                         chains[y][i] # chains[z][j]
        /\ ~cache.dirty /\ \A c \in Cluster : FatOf(disk, c) = disk[FatBlock(2, c)][c]
        /\ vwd.open /\ vwd.dir /\ vwd.first = FirstOf(View, cwd)
        /\ cwd # <<>> => vwd.size = Len(Chain(View, vwd.first)) * ClusterSize
=============================================================================
