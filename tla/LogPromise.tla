----------------------------- MODULE LogPromise -----------------------------
(***************************************************************************)
(* What the log on the SD card promises its reader: it only grows, a whole *)
(* line at a time and in the order the lines were measured; a line that    *)
(* was not finished is not there at all, whatever happened to the power or *)
(* the card. Only the line that fills the card may be cut, and only in a   *)
(* pass in which a single transfer failed may the new bytes be anything.   *)
(***************************************************************************)
EXTENDS Naturals, Sequences

CONSTANTS LineLength,
          Numbers     \* of lines

VARIABLES log,       \* the bytes of the log, each of them the number of its line
          full,      \* no space is left on the card
          spoiled    \* a transfer has failed while others went on

\* Line n comes after the lines that are there, whole or its beginning.
Added(n, length) ==
    /\ log' = log \o [i \in 1 .. length |-> n]
    /\ log # <<>> => log[Len(log)] < n

Init == log = <<>> /\ {full, spoiled} \subseteq BOOLEAN

Unchanged == log' = log

AddLine == \E n \in Numbers : Added(n, LineLength)

CutLine ==
    /\ full'
    /\ \E n \in Numbers, length \in 1 .. LineLength - 1 : Added(n, length)

Spoil ==
    /\ spoiled
    /\ Len(log') \in Len(log) .. Len(log) + LineLength
    /\ SubSeq(log', 1, Len(log)) = log

Next == Unchanged \/ AddLine \/ CutLine \/ Spoil

Spec == Init /\ [][Next]_<<log, full, spoiled>>

=============================================================================
