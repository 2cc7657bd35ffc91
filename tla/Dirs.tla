-------------------------------- MODULE Dirs --------------------------------
(***************************************************************************)
(* SdFat's directories: paths, and the calls of SdBaseFile that make,      *)
(* rename, search, list and remove directories, on the machine of Fat.     *)
(* A call that takes a directory object (dirFile, parent) finds it in dir. *)
(***************************************************************************)
EXTENDS Fat

\* A path has names between its slashes; with abs it starts at the root.
Path(name) == [abs |-> FALSE, names |-> <<name>>]

Sub(m) == [m EXCEPT !.file = Closed]       \* another SdBaseFile of the same volume

(***************************************************************************)
(* mkdir in the directory dir: an empty file is made a directory           *)
(***************************************************************************)
UpTo(parent) == IF IsRoot(parent) THEN 0 ELSE parent.first
PutDots(m, entry) ==
    SetCached(SetCached(m, 1, [entry EXCEPT !.name = "."]),
              2, [entry EXCEPT !.name = "..", !.first = UpTo(m.dir)])
Dotted(m, entry) ==
    CacheSync(PutDots(CacheFetch(m, DataBlock(m.file.first, 0), "write", FALSE), entry))

Marked(m) == IF m.ok THEN [m EXCEPT !.cache.data[m.file.index].dir = TRUE] ELSE m
WithDots(m) == IF m.ok THEN Dotted(m, m.cache.data[m.file.index]) ELSE m
Turned(m) ==
    IF m.ok
      THEN WithDots(Marked(CacheDirEntry(
             Sync(AddDirCluster([m EXCEPT !.file.dir = TRUE, !.file.write = FALSE])), "write")))
    ELSE m
MkdirIn(m, name) == Turned(Open(m, name, {"creat", "excl", "write"}))

(***************************************************************************)
(* A path is walked from dir, or from the root if it says so, through      *)
(* objects of the call's own; with pFlag a directory that is missing is    *)
(* made. In the last directory the last name is opened ("open") or made a  *)
(* directory ("mkdir").                                                    *)
(***************************************************************************)
CloseDir(m) == [Swap(Close(Swap(m))) EXCEPT !.ok = TRUE]

MadeIfMissing(m, name, pFlag) ==
    IF m.ok \/ ~pFlag THEN m ELSE MkdirIn([Sub(m) EXCEPT !.ok = TRUE], name)

\* The directory that was left is closed, but for the caller's own (mine).
InDir(s, m, mine) ==
    IF ~m.ok THEN [s EXCEPT !.m = m]
    ELSE [m |-> [Sub(IF mine THEN m ELSE CloseDir(m)) EXCEPT !.dir = m.file],
          from |-> IF mine THEN m.dir ELSE s.from]
Enter(s, name, mine, pFlag) ==
    IF s.m.ok THEN InDir(s, MadeIfMissing(Open(s.m, name, {}), name, pFlag), mine) ELSE s

Walk(m, path, pFlag) ==
    LET own == ~path.abs \/ IsRoot(m.dir)
        walk[i \in 0 .. Len(path.names) - 1] ==
          IF i = 0 THEN [m |-> IF own THEN m ELSE [m EXCEPT !.dir = Root], from |-> m.dir]
          ELSE Enter(walk[i - 1], path.names[i], own /\ i = 1, pFlag)
    IN  walk[Len(path.names) - 1]

\* Back to the caller's directory object, which grows with the directory.
Return(m, s, own) == IF own THEN m ELSE [m EXCEPT !.dir = s.from]
Do(s, name, call, flags) ==
    IF ~s.m.ok THEN s.m
    ELSE IF call = "mkdir" THEN MkdirIn(s.m, name) ELSE Open(s.m, name, flags)
Last(s, path, call, flags) ==
    Return(Do(s, path.names[Len(path.names)], call, flags), s,
           Len(path.names) = 1 /\ (~path.abs \/ IsRoot(s.from)))
Along(m, path, pFlag, call, flags) ==
    IF ~m.ok \/ m.file.open THEN Fail(m) ELSE Last(Walk(m, path, pFlag), path, call, flags)

OpenPath(m, path, flags) == Along(m, path, FALSE, "open", flags)
Mkdir(m, path, pFlag) == Along(m, path, pFlag, "mkdir", {})

(***************************************************************************)
(* rename: the old entry is marked, a new one made (perhaps in the same    *)
(* slot), and all but the name copied to it. For a directory mkdir makes   *)
(* the new entry; only the '..' of its cluster is kept.                    *)
(***************************************************************************)
Up(m) == IF m.ok THEN [m EXCEPT !.val = m.cache.data[2]] ELSE m
PutUp(m, entry) == SetCached(CacheFetch(m, DataBlock(m.file.first, 0), "write", FALSE), 2, entry)
DotDot(m, made) == PutUp(FreeChain(m, made), m.val)
FaultyNewDotDot(m, made) == IF m.file.dir THEN FreeChain(m, made) ELSE m    \* leaves the old '..'
NewDotDot(m, made) ==
    IF m.ok /\ m.file.dir THEN DotDot(Up(CacheFetch(m, DataBlock(made, 0), "read", FALSE)), made)
    ELSE m

Copied(m, entry) ==
    IF m.ok THEN SetEntry(m, [entry EXCEPT !.name = m.cache.data[m.file.index].name]) ELSE m
NameRestored(m, entry) ==
    IF m.ok THEN CacheSync([m EXCEPT !.cache.data[m.file.index].name = entry.name]) ELSE m
\* f is the object of the file that is renamed, entry its old entry.
MovedTo(m, f, entry) ==
    IF m.ok
      THEN CacheSync(NewDotDot(Copied(CacheDirEntry(
             [m EXCEPT !.file = [f EXCEPT !.block = m.file.block, !.index = m.file.index]],
             "write"), entry), m.file.first))
    ELSE Fail(NameRestored(CacheDirEntry([m EXCEPT !.ok = TRUE, !.file = f], "write"), entry))
RenameEntry(m, path, entry) ==
    MovedTo(Along(Sub(SetEntry(m, [entry EXCEPT !.name = "deleted"])), path, FALSE,
                  IF m.file.dir THEN "mkdir" ELSE "open", {"creat", "excl", "write"}),
            m.file, entry)
RenameCached(m, path) == IF m.ok THEN RenameEntry(m, path, m.cache.data[m.file.index]) ELSE m
Rename(m, path) ==
    IF ~m.ok \/ ~m.file.open \/ IsRoot(m.file) THEN Fail(m)
    ELSE RenameCached(CacheDirEntry([Sync(m) EXCEPT !.ok = TRUE], "write"), path)

(***************************************************************************)
(* Entry by entry                                                          *)
(***************************************************************************)
\* readDirCache: the next entry of the directory file; val is its place in
\* the cache. The position moves to the one behind it.
ReadDirCache(m) ==
    IF ~m.ok \/ ~m.file.dir \/ m.file.pos >= m.file.size THEN Fail(m)
    ELSE [ReadDirBlock(m, 1) EXCEPT !.val = (m.file.pos % EntriesPerBlock) + 1]

\* The entry that the cache holds at val
Entry(m) == m.cache.data[m.val]
Skipped(name) == name \in {"deleted", ".", ".."}

\* readDir, lsPrintNext and the loops of openNext, rmdir and rmRfStar: the
\* next entry in use; val is 0 at the end.
Judged(m) ==
    IF ~m.ok THEN [m |-> m, done |-> TRUE]
    ELSE IF Entry(m).name = "free" THEN [m |-> [m EXCEPT !.val = 0], done |-> TRUE]
    ELSE [m |-> m, done |-> ~Skipped(Entry(m).name)]
NextEntry(m) ==
    LET look[i \in 0 .. m.file.size + 1] ==
          IF i = 0 THEN [m |-> m, done |-> ~m.ok]
          ELSE LET s == look[i - 1]
               IN  IF s.done THEN s
                   ELSE IF s.m.file.pos >= s.m.file.size
                     THEN [m |-> [s.m EXCEPT !.val = 0], done |-> TRUE]
                   ELSE Judged(ReadDirCache(s.m))
    IN  look[m.file.size + 1].m

\* open by the index of an entry in the directory dir
OpenEntry(m, flags) ==
    IF ~m.ok THEN m
    ELSE IF m.val = 0 \/ Skipped(Entry(m).name) \/ Entry(m).name = "free" THEN Fail(m)
    ELSE OpenCachedEntry(m, m.val, flags)
OpenIndex(m, index, flags) ==
    IF m.file.open \/ "excl" \in flags THEN Fail(m)
    ELSE OpenEntry(Swap(ReadDirCache(SeekSet(Swap(m), index))), flags)

\* open the next file or directory of the directory dir
OpenNext(m, flags) ==
    IF m.file.open THEN Fail(m) ELSE OpenEntry(Swap(NextEntry(Swap(m))), flags)

(***************************************************************************)
(* openParent: the '..' of the directory dir gives its parent's first      *)
(* cluster, and the parent is looked for in '../..'. (If that is not the   *)
(* root, SdBaseFile.cpp:953 opens it by its entry in the cache, and        *)
(* setDirSize asks a volume that was never set. AboveParent does as if it  *)
(* were set; it comes to that at the third level only.)                    *)
(***************************************************************************)
ParentIn(m, cluster) ==
    LET look[i \in 0 .. m.file.size + 1] ==
          IF i = 0 THEN [m EXCEPT !.val = -1]
          ELSE LET f == look[i - 1]
               IN  IF ~f.ok \/ f.val = 0 \/ (f.val > 0 /\ Entry(f).first = cluster) THEN f
                   ELSE NextEntry(f)
    IN  look[m.file.size + 1]
OpenFound(m) == IF ~m.ok \/ m.val = 0 THEN Fail(m) ELSE OpenIndex(Sub(Swap(m)), m.file.pos - 1, {})
AboveParent(m) ==
    IF ~m.ok \/ m.cache.data[2].name # ".." THEN Fail(m)
    ELSE IF m.cache.data[2].first = 0 THEN [m EXCEPT !.file = Root]
    ELSE OpenCachedEntry(m, 2, {})
FoundParent(m, cluster) == IF m.ok THEN OpenFound(ParentIn(m, cluster)) ELSE m
ByDotDot(m) ==
    IF ~m.ok \/ Entry(m).name # ".." THEN Fail(m)
    ELSE IF Entry(m).first = 0 THEN [m EXCEPT !.file = Root]
    ELSE FoundParent(AboveParent(CacheFetch(m, DataBlock(Entry(m).first, 0), "read", FALSE)),
                     Entry(m).first)
OpenParent(m) ==
    IF ~m.ok \/ m.file.open \/ IsRoot(m.dir) \/ ~m.dir.dir THEN Fail(m)
    ELSE ByDotDot(Swap(ReadDirCache(SeekSet(Swap(m), 1))))

(***************************************************************************)
(* Removing                                                                *)
(***************************************************************************)
RemoveOpened(m) == IF m.ok THEN Remove(m) ELSE m
RemovePath(m, path) == RemoveOpened(OpenPath(m, path, {"write"}))

\* An empty directory is removed as a file.
RemoveEmpty(m) ==
    IF ~m.ok \/ m.val # 0 THEN Fail(m)
    ELSE Remove([m EXCEPT !.file.dir = FALSE, !.file.write = TRUE])
Rmdir(m) ==
    IF ~m.ok \/ ~m.file.dir \/ IsRoot(m.file) THEN Fail(m)
    ELSE RemoveEmpty(NextEntry(Rewind(m)))

\* rmRfStar: every entry, and then the directory itself unless it is the root
BackTo(m, pos, outer) ==
    [(IF m.ok /\ m.dir.pos # pos THEN SeekSet(Swap(m), pos) ELSE Swap(m)) EXCEPT !.dir = outer]
RECURSIVE RmRfStar(_)
Gone(m) == IF ~m.ok THEN m
           ELSE IF m.file.dir THEN RmRfStar(m)
           ELSE Remove([m EXCEPT !.file.write = TRUE])
RemoveEntry(m) ==
    IF ~m.ok \/ m.val = 0 THEN [m |-> m, done |-> TRUE]
    ELSE [m |-> BackTo(Gone(OpenIndex([Sub(m) EXCEPT !.dir = m.file], m.file.pos - 1, {})),
                       m.file.pos, m.dir),
          done |-> FALSE]
RmRfStar(m) ==
    LET loop[i \in 0 .. m.file.size + 1] ==
          IF i = 0 THEN [m |-> Rewind(m), done |-> FALSE]
          ELSE LET s == loop[i - 1]
               IN  IF s.done \/ ~s.m.ok THEN s ELSE RemoveEntry(NextEntry(s.m))
        emptied == loop[m.file.size + 1].m
    IN  IF IsRoot(m.file) THEN emptied ELSE IF emptied.ok THEN Rmdir(emptied) ELSE emptied

(***************************************************************************)
(* Reading                                                                 *)
(***************************************************************************)
\* ls with LS_R: the paths it prints, each behind the path it started from
RECURSIVE Ls(_, _)
LsBack(l, pos, outer) ==
    [SeekSet([Swap(l) EXCEPT !.ok = TRUE], pos) EXCEPT !.val = IF l.ok THEN l.val ELSE {}, !.dir = outer]
LsBelow(o, path) == IF o.ok THEN Ls(o, path) ELSE o
LsEntry(s, m, path) ==
    IF ~m.cache.data[m.val].dir THEN [m |-> m, done |-> FALSE, paths |-> s.paths \cup {path}]
    ELSE LET b == LsBack(LsBelow(OpenIndex([Sub(m) EXCEPT !.dir = m.file], m.file.pos - 1, {}), path),
                         m.file.pos, m.dir)
         IN  [m |-> b, done |-> FALSE, paths |-> s.paths \cup {path} \cup b.val]
LsNext(s, m, from) ==
    IF ~m.ok \/ m.val = 0 THEN [s EXCEPT !.m = m, !.done = TRUE]
    ELSE LsEntry(s, m, Append(from, Entry(m).name))
LsAll(m, from) ==
    LET loop[i \in 0 .. m.file.size + 1] ==
          IF i = 0 THEN [m |-> Rewind(m), done |-> FALSE, paths |-> {}]
          ELSE LET s == loop[i - 1] IN IF s.done THEN s ELSE LsNext(s, NextEntry(s.m), from)
    IN  loop[m.file.size + 1]
LsResult(s) == [s.m EXCEPT !.val = s.paths]
Ls(m, from) == LsResult(LsAll(m, from))

\* The FAT block by block
Counted(s, m) ==
    [m |-> m, free |-> IF m.ok THEN s.free + Cardinality({c \in DOMAIN m.cache.data : m.cache.data[c] = 0})
                       ELSE s.free]
CountResult(s) == [s.m EXCEPT !.val = s.free]
FatBlocks == {c \div EntriesPerFatBlock : c \in Cluster}
FreeClusterCount(m) ==
    LET end == (ClusterCount + 1) \div EntriesPerFatBlock
        count[i \in 0 .. end + 1] ==
          IF i = 0 THEN [m |-> m, free |-> 0]
          ELSE LET s == count[i - 1]
               IN  IF i - 1 \in FatBlocks
                     THEN Counted(s, CacheFetch(s.m, <<"fat", 1, i - 1>>, "read", TRUE)) ELSE s
    IN  CountResult(count[end + 1])

\* contiguousRange: val is the last cluster of a file that lies in a row
InRow(c, g) ==
    IF ~g.ok THEN [m |-> g, c |-> c, done |-> TRUE]
    ELSE IF g.val = c + 1 THEN [m |-> g, c |-> c + 1, done |-> FALSE]
    ELSE IF IsEOC(g.val) THEN [m |-> [g EXCEPT !.val = c], c |-> c, done |-> TRUE]
    ELSE [m |-> Fail(g), c |-> c, done |-> TRUE]
ContiguousRange(m) ==
    LET look[i \in 0 .. ClusterCount] ==
          IF i = 0 THEN [m |-> m, c |-> m.file.first, done |-> FALSE]
          ELSE LET s == look[i - 1] IN IF s.done THEN s ELSE InRow(s.c, FatGet(s.m, s.c))
    IN  IF ~m.ok \/ m.file.first = 0 THEN Fail(m) ELSE look[ClusterCount].m
=============================================================================
