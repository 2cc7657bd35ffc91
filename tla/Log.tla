-------------------------------- MODULE Log --------------------------------
(***************************************************************************)
(* The log on the SD card: in every pass the main loop begins the card     *)
(* anew, opens data.log, prints one line to it and closes it. The power    *)
(* may fail, and the card may be pulled, at every transfer of a block.     *)
(* A byte of the log is the number of its line.                            *)
(***************************************************************************)
EXTENDS Fat

CONSTANTS DataLog, Other,    \* data.log, and a file that was on the card before
          LineLength, MaxLines,
          MaxTransfers,      \* more than any call makes
          FaultKinds,        \* "power", "pulled", "glitch"
          MaxFaults

\* The begin of the card alone makes two transfers. A line (a time and seven
\* values of nine characters at most) is shorter than a block of 512 bytes.
ASSUME LogAssumption ==
    /\ {LineLength, MaxLines, MaxTransfers} \subseteq Nat \ {0}
    /\ MaxFaults \in Nat
    /\ MaxTransfers > 2
    /\ BlockSize > 1 /\ LineLength <= ClusterSize
    /\ Names = {DataLog, Other}

VARIABLES disk, cache, alloc, file,   \* as in Fat
          at,                         \* the next call of the pass
          SDwrite,                    \* as in the sketch
          line,                       \* the number of the line of this pass
          pulled,                     \* the card is out for the rest of the pass
          glitched,                   \* a single transfer of the pass has failed
          faults

vars == <<disk, cache, alloc, file, at, SDwrite, line, pulled, glitched, faults>>

\* A formatted card, with nothing or one file of one cluster on it.
Card(c) ==
    LET fat == [b \in Cluster |-> IF b = c THEN EOC ELSE 0]
        Fats == {FatBlock(k, b) : k \in {1, 2}, b \in Cluster}
        Data == {DataBlock(b, i) : b \in Cluster, i \in 0 .. BlocksPerCluster - 1}
    IN  [b \in Fats \cup DirBlocks \cup Data |->
          CASE b \in Fats -> [x \in {y \in Cluster : FatBlock(b[2], y) = b} |-> fat[x]]
            [] b \in Data -> [i \in 1 .. BlockSize |-> 0]
            [] OTHER -> [k \in 1 .. EntriesPerBlock |->
                 IF c # 0 /\ b = DirBlock(1) /\ k = 1
                   THEN [NoEntry(Other) EXCEPT !.first = c, !.size = 1] ELSE NoEntry("free")]]

Init ==
    /\ \E c \in Cluster \cup {0} : disk = Card(c)
    /\ cache = NoCache /\ alloc = 2 /\ file = Closed
    /\ at = "begin" /\ SDwrite = FALSE
    /\ line = 1 /\ pulled = FALSE /\ glitched = FALSE /\ faults = 0

-----------------------------------------------------------------------------
All == 1 .. MaxTransfers

\* The transfers of a call that fail.
Bad ==
    IF pulled THEN {All}
    ELSE {{}} \cup (IF faults = MaxFaults THEN {} ELSE
           (IF "glitch" \in FaultKinds THEN {{k} : k \in All} ELSE {})
           \cup (IF FaultKinds \cap {"power", "pulled"} # {} THEN {k .. MaxTransfers : k \in All}
                 ELSE {}))

\* After a power failure or without the card the failed write is the last,
\* and done or not is the same as the next or this one failing.
Took(bad) == IF Cardinality(bad) = 1 THEN {{}, bad} ELSE {{}}

Machine(bad, took) ==
    [disk |-> disk, cache |-> cache, alloc |-> alloc, file |-> file, dir |-> Root,
     ok |-> TRUE, val |-> 0, n |-> 1, bad |-> bad, took |-> took]

\* The call returns, within MaxTransfers. (A fault that met no transfer was none.)
Return(m, next) ==
    /\ m.n <= MaxTransfers + 1
    /\ Cardinality(m.bad) > 1 => pulled \/ "pulled" \in FaultKinds
    /\ m.bad # {} => \E k \in m.bad : k < m.n
    /\ disk' = m.disk /\ cache' = m.cache /\ alloc' = m.alloc /\ file' = m.file
    /\ at' = next
    /\ pulled' = (next # "begin" /\ (pulled \/ MaxTransfers \in m.bad))
    /\ glitched' = (next # "begin" /\ (glitched \/ Cardinality(m.bad) = 1))
    /\ faults' = IF m.bad # {} /\ ~pulled THEN faults + 1 ELSE faults
    /\ line' = IF next = "begin" THEN line + 1 ELSE line

\* The power fails during the call, or right after it, and comes back.
PowerFails(m) ==
    /\ "power" \in FaultKinds /\ faults < MaxFaults
    /\ Cardinality(m.bad) # 1
    /\ m.n <= MaxTransfers + 1
    /\ disk' = m.disk
    /\ cache' = NoCache /\ alloc' = 2 /\ file' = Closed /\ SDwrite' = FALSE
    /\ at' = "begin" /\ pulled' = FALSE /\ glitched' = FALSE
    /\ line' = line + 1 /\ faults' = faults + 1

Begin ==
    /\ at = "begin" /\ line <= MaxLines
    /\ \E bad \in Bad : \E took \in Took(bad) : LET m == VolumeInit(Machine(bad, took)) IN
         \/ /\ Return(m, IF m.ok THEN "open" ELSE "begin")
            /\ SDwrite' = (m.ok /\ SDwrite)
         \/ PowerFails(m)

\* Sd2Card::begin finds no card.
NoCard ==
    /\ at = "begin" /\ line <= MaxLines
    /\ SDwrite' = FALSE
    /\ line' = line + 1
    /\ UNCHANGED <<disk, cache, alloc, file, at, pulled, glitched, faults>>

OpenLog ==
    /\ at = "open"
    /\ \E bad \in Bad : \E took \in Took(bad) : LET m == Open(Machine(bad, took), DataLog, {"creat", "append", "write"}) IN
         \/ /\ Return(m, IF m.ok THEN "print" ELSE "begin")
            /\ UNCHANGED SDwrite
         \/ PowerFails(m)

\* Byte by byte; nobody looks at what a byte's write returns.
PrintLine(m) ==
    LET print[i \in 0 .. LineLength] ==
          IF i = 0 THEN m ELSE Write([print[i - 1] EXCEPT !.ok = TRUE], line, 1)
    IN  print[LineLength]

PrintTheLine ==
    /\ at = "print"
    /\ \E bad \in Bad : \E took \in Took(bad) : LET m == PrintLine(Machine(bad, took)) IN
         \/ Return(m, "close") /\ SDwrite' = TRUE
         \/ PowerFails(m)

CloseLog ==
    /\ at = "close"
    /\ \E bad \in Bad : \E took \in Took(bad) : LET m == Close(Machine(bad, took)) IN
         \/ Return(m, "begin") /\ UNCHANGED SDwrite
         \/ PowerFails(m)

Next == Begin \/ NoCard \/ OpenLog \/ PrintTheLine \/ CloseLog

Spec == Init /\ [][Next]_vars

-----------------------------------------------------------------------------
\* What the variables hold: a file is open between the open and the close of a pass.
TypeOK ==
    /\ at \in {"begin", "open", "print", "close"}
    /\ {SDwrite, pulled, glitched} \subseteq BOOLEAN
    /\ line \in 1 .. MaxLines + 1 /\ faults \in 0 .. MaxFaults
    /\ alloc \in 2 .. ClusterCount + 2
    /\ file.open = (at \in {"print", "close"})
    /\ \A c \in Cluster : FatOf(disk, c) \in {0, EOC} \cup Cluster

\* A failure costs at most one cluster that nobody owns.
LeakBounded ==
    at = "begin" =>
      Cardinality(InUse(disk) \ UNION {ClustersOf(disk, p) : p \in FilesOn(disk)}) <= faults

\* At every moment a power failure would leave a sound card behind: no
\* cluster belongs to two files, every file's chain covers its size, and
\* between two passes a fault has cost at most one cluster.
SoundCard == TypeOK /\ Unshared(disk) /\ Covered(disk) /\ LeakBounded

\* The bytes of data.log, as whoever reads the card finds them.
Stored ==
    LET there == {p \in FilesOn(disk) : EntryAt(disk, p).name = DataLog}
    IN  IF there = {} THEN <<>> ELSE Bytes(disk, EntryAt(disk, CHOOSE p \in there : TRUE))

\* Whatever has gone wrong before, a pass without a fault stores its whole
\* line while there is room.
GoodPassStores ==
    [][(/\ at = "close" /\ at' = "begin"
        /\ ~pulled /\ ~glitched /\ faults' = faults /\ InUse(disk) # Cluster)
       => \A i \in 0 .. LineLength - 1 : Stored'[Len(Stored') - i] = line]_vars

Promise == INSTANCE LogPromise WITH
               log <- Stored, full <- InUse(disk) = Cluster, spoiled <- glitched, Numbers <- 1 .. MaxLines
PromiseKept == Promise!Spec

=============================================================================
