----------------------------- MODULE MCSettings -----------------------------
(***************************************************************************)
(* Values of Settings' constants for TLC, and a restriction of its steps   *)
(* to three kinds of behaviours, each without what multiplies the others'  *)
(* states: about the tables and the calibrations, in which everybody asks  *)
(* for the factory's delay; about the delay and all that the keys of its   *)
(* menu can do; and about the delay when the power fails, in which the     *)
(* menu is opened, confirmed and left, but nobody counts in it.            *)
(***************************************************************************)
EXTENDS Settings

VARIABLE about

\* The factory pair (1.0, 1.0) and a calibration that changes its first float,
\* to 2.0, in two bytes: a write cut short leaves a third pair behind.
MCCalibrations == {Ones, <<0, 0, 0, 64, 0, 0, 128, 63>>}

Counts == newDelay # Closed /\ newDelay' \notin {Closed, newDelay}

MCInit == Init /\ about \in {"tables", "keys", "power"}
MCNext ==
    /\ Next
    /\ UNCHANGED about
    /\ about = "tables" => ~Counts /\ Value(live'[Delay]) = 1000
    /\ about # "tables" => job'.item \in {-1, Delay}
    /\ about = "keys" => UNCHANGED failures
    /\ about = "power" => ~Counts
MCSpec == MCInit /\ [][MCNext]_<<vars, about>>

=============================================================================
