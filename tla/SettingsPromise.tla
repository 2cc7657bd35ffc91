--------------------------- MODULE SettingsPromise ---------------------------
(***************************************************************************)
(* What the three type tables promise the user of the station: a table     *)
(* the user reads in the menu, or that a client is told of, is changed one *)
(* pin at a time; the change is in use at once and is kept a moment later; *)
(* when the power fails the station comes back with the tables that were   *)
(* kept, each of them exactly the one before or the one after the last     *)
(* change, never a mixture.                                                *)
(***************************************************************************)

CONSTANTS Tables,     \* the names of the tables
          Sockets,    \* the pins in each table
          Kinds       \* what a pin of each table can be set to

VARIABLES inUse,       \* the tables the program works with
          kept         \* the tables a power failure leaves behind

Init ==
    /\ inUse = [t \in Tables |-> inUse[t]]
    /\ \A t \in Tables : inUse[t] \in [Sockets[t] -> Kinds[t]]
    /\ kept = inUse

\* Somebody changes one pin. The change before it has been kept.
Change ==
    /\ kept = inUse
    /\ \E t \in Tables : \E p \in Sockets[t], k \in Kinds[t] :
          inUse' = [inUse EXCEPT ![t] = [inUse[t] EXCEPT ![p] = k]]
    /\ UNCHANGED kept

\* The change is kept.
Keep ==
    /\ kept' = inUse
    /\ UNCHANGED inUse

\* The power fails and comes back.
Restart ==
    /\ inUse' = kept
    /\ UNCHANGED kept

Next == Change \/ Keep \/ Restart

Spec == Init /\ [][Next]_<<inUse, kept>>

=============================================================================
