------------------------------- MODULE Files -------------------------------
(***************************************************************************)
(* The calls of SdFat and SdBaseFile as a program may mix them: one open   *)
(* file that is written, read, moved in and cut, while other files are     *)
(* removed, renamed and reserved through the same one block of cache. The  *)
(* card works. (A file is not removed or renamed while it is open, which   *)
(* the library leaves to its caller.)                                      *)
(***************************************************************************)
EXTENDS Dirs

CONSTANTS MaxSize,     \* of a file
          Stamps,      \* the times that a call sets
          Overfull     \* writes of several bytes are tried that do not fit

ASSUME FilesAssumption == MaxSize \in Nat /\ Stamps \subseteq SUBSET {"access", "create", "write"} /\ Overfull \in BOOLEAN

VARIABLES disk, cache, alloc, file,   \* as in Fat
          name,                       \* of the open file
          files,                      \* what the program has done to its files: name -> bytes, times
          wrong                       \* a call has failed without a reason or read a wrong byte

vars == <<disk, cache, alloc, file, name, files, wrong>>

Nobody == "deleted"
There == DOMAIN files
Mark == 1   \* what is written; 0 is what a reserved block holds
Content(n) == files[n].bytes
With(n, bytes, times) ==
    [x \in There \cup {n} |-> IF x = n THEN [bytes |-> bytes, times |-> times] ELSE files[x]]
Keep(n, bytes) == With(n, bytes, IF n \in There THEN files[n].times ELSE {})

FormattedCard ==
    [b \in {FatBlock(k, c) : k \in {1, 2}, c \in Cluster} \cup DirBlocks
           \cup {DataBlock(c, i) : c \in Cluster, i \in 0 .. BlocksPerCluster - 1} |->
      CASE b[1] = "fat"  -> [x \in {y \in Cluster : FatBlock(b[2], y) = b} |-> 0]
        [] b[1] = "data" -> [i \in 1 .. BlockSize |-> 0]
        [] OTHER         -> [k \in 1 .. EntriesPerBlock |-> NoEntry("free")]]

Init ==
    /\ disk = FormattedCard
    /\ cache = NoCache /\ alloc = 2 /\ file = Closed /\ name = Nobody
    /\ files = [x \in {} |-> <<>>] /\ wrong = FALSE

\* What the program would find: the card, the cache over it, and over both
\* what the open file has not yet put into its entry.
View ==
    LET d == IF cache.dirty THEN [disk EXCEPT ![cache.block] = cache.data] ELSE disk
    IN  IF ~file.open THEN d
        ELSE [d EXCEPT ![file.block][file.index].first = file.first,
                       ![file.block][file.index].size = file.size]

Room == Cardinality(Cluster \ InUse(View))
Slots == RootBlocks * EntriesPerBlock

Machine(f) == [disk |-> disk, cache |-> cache, alloc |-> alloc, file |-> f, dir |-> Root,
               ok |-> TRUE, val |-> 0, n |-> 1, bad |-> {}, took |-> {}]

Result(m) == disk' = m.disk /\ cache' = m.cache /\ alloc' = m.alloc

-----------------------------------------------------------------------------
\* sd.begin(), between two uses
Begin ==
    /\ ~file.open
    /\ Result(VolumeInit(Machine(file)))
    /\ UNCHANGED <<file, name, files, wrong>>

OpenFile(n, flags) ==
    /\ ~file.open
    /\ \E m \in {Open(Machine(file), n, {"creat", "write"} \cup flags)} :
         /\ Result(m) /\ file' = m.file
         /\ IF m.ok
              THEN /\ name' = n
                   /\ files' = IF n \in There /\ "trunc" \notin flags THEN files ELSE Keep(n, <<>>)
              ELSE UNCHANGED <<name, files>>
         /\ wrong' = (m.ok # IF n \in There THEN "excl" \notin flags ELSE Cardinality(There) < Slots)

\* After a write that failed for want of room the position may be behind the
\* end: what it has written becomes part of the file with the next write.
Overwritten(old, pos, n) ==
    [i \in 1 .. (IF pos + n > Len(old) THEN pos + n ELSE Len(old)) |->
       IF i <= Len(old) /\ i \notin pos + 1 .. pos + n THEN old[i] ELSE Mark]
NewClusters(pos, n) ==
    (pos + n + ClusterSize - 1) \div ClusterSize - (file.size + ClusterSize - 1) \div ClusterSize
WriteBytes(n) ==
    LET pos == IF file.append THEN file.size ELSE file.pos
        old == Content(name)
    IN  /\ file.open /\ pos + n <= MaxSize
        /\ n = 1 \/ Overfull \/ NewClusters(pos, n) <= Room
        /\ \E m \in {Write(Machine(file), Mark, n)} :
             /\ Result(m) /\ file' = m.file
             /\ files' = Keep(name, IF m.ok THEN Overwritten(old, pos, n)
                                    ELSE SubSeq(Overwritten(old, pos, n), 1, Len(old)))
             /\ wrong' = (~m.ok /\ NewClusters(pos, n) <= Room)
        /\ UNCHANGED name

\* (A position behind the end makes read() take what is left for huge.)
ReadBytes(n) ==
    /\ file.open /\ file.pos <= file.size
    /\ \E m \in {Read(Machine(file), n)} :
         /\ Result(m) /\ file' = m.file
         /\ wrong' = ~(m.ok /\ m.val = SubSeq(Content(name) \o <<0>>, file.pos + 1,
                                              Lesser(Len(Content(name)), file.pos + n)))
    /\ UNCHANGED <<name, files>>

PeekByte ==
    /\ file.open /\ file.pos <= file.size
    /\ \E m \in {Peek(Machine(file))} :
         /\ Result(m) /\ file' = m.file
         /\ wrong' = ~(/\ m.ok /\ m.file.pos = file.pos
                       /\ m.val = SubSeq(Content(name), file.pos + 1, Lesser(Len(Content(name)), file.pos + 1)))
    /\ UNCHANGED <<name, files>>

\* A line ends with the mark.
ReadLine(num) ==
    /\ file.open /\ file.pos <= file.size
    /\ \E m \in {Line(Machine(file), num, Mark)} :
         /\ Result(m) /\ file' = m.file
         /\ wrong' = ~(/\ m.ok
                       /\ m.val = SubSeq(Content(name), file.pos + 1, file.pos + Len(m.val))
                       /\ \A i \in 1 .. Len(m.val) - 1 : m.val[i] # Mark
                       /\ \/ Len(m.val) = num - 1 \/ file.pos + Len(m.val) = Len(Content(name))
                          \/ m.val[Len(m.val)] = Mark)
    /\ UNCHANGED <<name, files>>

SeekTo(pos) ==
    /\ file.open
    /\ \E m \in {SeekSet(Machine(file), pos)} :
         /\ Result(m) /\ file' = m.file
         /\ wrong' = (m.ok # (pos <= Len(Content(name))))
    /\ UNCHANGED <<name, files>>

TruncateTo(length) ==
    /\ file.open
    /\ \E m \in {Truncate(Machine(file), length)} :
         /\ Result(m) /\ file' = m.file
         /\ files' = IF m.ok THEN Keep(name, SubSeq(Content(name), 1, length)) ELSE files
         /\ wrong' = (m.ok # (length <= Len(Content(name))))
    /\ UNCHANGED name

SyncFile ==
    /\ file.open
    /\ \E m \in {Sync(Machine(file))} :
         /\ Result(m) /\ file' = m.file
         /\ wrong' = ~m.ok
    /\ UNCHANGED <<name, files>>

\* What the file's entry says of it, its name, and whether it lies in a row
EntryOf ==
    /\ file.open
    /\ \E m \in {DirEntry(Machine(file))} :
         /\ Result(m) /\ file' = m.file
         /\ wrong' = ~(/\ m.ok /\ m.val.name = name
                       /\ m.val.size = Len(Content(name)) /\ m.val.first = file.first
                       /\ m.val.times = files[name].times)
    /\ UNCHANGED <<name, files>>

\* timestamp: with a date, valid or not, or with the times of another file,
\* which has an object of its own
StampFile(flags, valid) ==
    /\ file.open
    /\ \E m \in {Timestamp(Machine(file), flags, valid)} :
         /\ Result(m) /\ file' = m.file
         /\ files' = IF m.ok THEN With(name, Content(name), files[name].times \cup flags) ELSE files
         /\ wrong' = (m.ok # valid)
    /\ UNCHANGED name
StampFrom(n) ==
    /\ file.open /\ n # name
    /\ \E m \in {TimestampFrom(OpenPath(Machine(Closed), Path(n), {}), file)} :
         /\ Result(m)
         /\ file' = IF m.ok THEN m.file ELSE file
         /\ files' = IF m.ok THEN With(name, Content(name), files[n].times) ELSE files
         /\ wrong' = (m.ok # (n \in There))
    /\ UNCHANGED name
NameOf ==
    /\ file.open
    /\ \E m \in {Filename(Machine(file))} :
         Result(m) /\ wrong' = ~(m.ok /\ m.val = name)
    /\ UNCHANGED <<file, name, files>>
RangeOf ==
    LET chain == Chain(View, file.first)
        inRow == file.first # 0 /\ \A i \in 1 .. Len(chain) - 1 : chain[i + 1] = chain[i] + 1
    IN  /\ file.open
        /\ \E m \in {ContiguousRange(Machine(file))} :
             Result(m) /\ wrong' = ~(m.ok = inRow /\ (m.ok => m.val = chain[Len(chain)]))
        /\ UNCHANGED <<file, name, files>>

CloseFile ==
    /\ file.open
    /\ \E m \in {Close(Machine(file))} :
         /\ Result(m) /\ file' = m.file /\ name' = Nobody
         /\ wrong' = ~m.ok
    /\ UNCHANGED files

\* SdFat::remove, rename and SdBaseFile::createContiguous each use an object
\* of their own.
RemoveFile(n) ==
    /\ n # name
    /\ \E m \in {RemovePath(Machine(Closed), Path(n))} :
         /\ Result(m)
         /\ files' = IF m.ok THEN [x \in There \ {n} |-> files[x]] ELSE files
         /\ wrong' = (m.ok # (n \in There))
    /\ UNCHANGED <<file, name>>

RenameOpened(m, new) == IF m.ok THEN Rename(m, Path(new)) ELSE m
RenameFile(n, new) ==
    /\ n # name /\ new # n
    /\ \E m \in {RenameOpened(OpenPath(Machine(Closed), Path(n), {}), new)} :
         /\ Result(m)
         /\ files' = IF m.ok THEN [x \in (There \ {n}) \cup {new} |->
                                     IF x = new THEN files[n] ELSE files[x]]
                     ELSE files
         /\ wrong' = (m.ok # (n \in There /\ new \notin There))
    /\ UNCHANGED <<file, name>>

\* The bytes are what the clusters held. It may find no room although there
\* is some: the clusters must lie in a row, and the search does not join
\* what lies before its start to what lies behind.
ReserveAndClose(m) == [Close([m EXCEPT !.ok = TRUE]) EXCEPT !.val = IF m.ok THEN m.file ELSE Closed]
Reserve(n, size) ==
    /\ n # name
    /\ \E m \in {ReserveAndClose(CreateContiguous(Machine(Closed), n, size))} :
         /\ Result(m)
         /\ files' = IF m.val.open THEN Keep(n, Bytes(m.disk, m.val)) ELSE files
         /\ wrong' = (~m.val.open /\ n \notin There /\ Cardinality(There) < Slots
                        /\ Room = ClusterCount /\ alloc = 2)
    /\ UNCHANGED <<file, name>>

Next ==
    \/ Begin
    \/ \E n \in Names : \E flags \in {{}, {"append"}, {"excl"}, {"trunc"}, {"at_end"}} : OpenFile(n, flags)
    \/ \E n \in 1 .. MaxSize : WriteBytes(n) \/ ReadBytes(n)
    \/ PeekByte \/ \E num \in {2, MaxSize + 1} : ReadLine(num)
    \/ \E flags \in Stamps, valid \in BOOLEAN : StampFile(flags, valid)
    \/ \E n \in Names : StampFrom(n)
    \/ SyncFile \/ CloseFile \/ EntryOf \/ NameOf \/ RangeOf
    \/ \E size \in 0 .. MaxSize : SeekTo(size) \/ TruncateTo(size)
    \/ \E n \in Names : RemoveFile(n) \/ \E new \in Names : RenameFile(n, new)
    \/ \E n \in Names, size \in 1 .. MaxSize : Reserve(n, size)

Spec == Init /\ [][Next]_vars

-----------------------------------------------------------------------------
\* What the variables hold: a file is open exactly while the program names one.
TypeOK ==
    /\ wrong \in BOOLEAN
    /\ file.open = (name # Nobody)
    /\ There \subseteq Names
    /\ alloc \in 2 .. ClusterCount + 2

\* Every call does what the promise says, and refuses what it does not allow: the
\* card holds exactly the files, with exactly the bytes and times, that the calls have made.
AsPromised ==
    /\ {EntryAt(View, p).name : p \in FilesOn(View)} = There
    /\ \A p \in FilesOn(View) :
         [bytes |-> Bytes(View, EntryAt(View, p)), times |-> EntryAt(View, p).times]
           = files[EntryAt(View, p).name]
    /\ ~wrong

\* With no file open nothing waits in the cache, and both copies of the FAT agree:
\* the power may go without a loss.
ClosedIsWritten ==
    ~file.open => ~cache.dirty /\ \A c \in Cluster : FatOf(disk, c) = disk[FatBlock(2, c)][c]

\* No cluster is lost or shared by any sequence of calls, every file has clusters
\* for its size, the open file's current cluster is the one its position is in, and
\* all of it is on the card, in both copies, when no file is open.
ChainsKept ==
    /\ TypeOK
    /\ Unshared(View) /\ Covered(View)
    /\ InUse(View) = UNION {ClustersOf(View, p) : p \in FilesOn(View)}
    /\ file.open /\ file.pos > 0 =>
         file.cur = Nth(View, file.first, (file.pos - 1) \div ClusterSize + 1)
    /\ ClosedIsWritten
=============================================================================
