------------------------------- MODULE Volume -------------------------------
(***************************************************************************)
(* A card's life: SdFormatter makes the volume, SdFat's calls keep the     *)
(* tree of files and directories on it, and its streams write and read     *)
(* one of the files. The first works with the sizes of real cards, the     *)
(* second on a volume of a few clusters, the third with the bytes of a     *)
(* file; every behaviour is about one of them.                             *)
(***************************************************************************)
EXTENDS Tree, Format, Stream

VARIABLE of      \* "format", "tree" or "stream"

vars == <<treeVars, formatVars, streamVars, of>>

\* The parts that are not looked at stand still at one state.
Init ==
    /\ TreeInit /\ FormatInit /\ StreamInit
    /\ of \in {"format", "tree", "stream"}
    /\ of # "format" => ~sdhc /\ cardSizeBlocks = CHOOSE n \in SDCards : TRUE
    /\ of # "stream" => file = <<>> /\ ~binary

Next ==
    /\ \/ of = "tree" /\ TreeNext /\ UNCHANGED <<formatVars, streamVars>>
       \/ of = "format" /\ FormatNext /\ UNCHANGED <<treeVars, streamVars>>
       \/ of = "stream" /\ StreamNext /\ UNCHANGED <<treeVars, formatVars>>
    /\ UNCHANGED of

Spec == Init /\ [][Next]_vars
=============================================================================
