------------------------------- MODULE Buses -------------------------------
(***************************************************************************)
(* The drivers of the two buses: the I2C bus with the station as master or *)
(* as slave, and the SD card on the SPI bus. The program waits for each of *)
(* their calls, and they share neither variables nor pins, so that every   *)
(* behaviour uses one of them.                                             *)
(***************************************************************************)
EXTENDS TwiSlave, Card

VARIABLE used

vars == <<twiVars, slaveVars, cardVars, used>>

\* A part that is not used stands still at one state.
SlaveAtRest == ~listens
CardAtRest == ms = 0 /\ card = [Fresh("SDHC") EXCEPT !.in = FALSE]

Init ==
    /\ TwiInit /\ SlaveInit /\ CardInit
    /\ used \in {"master", "slave", "card"}
    /\ used # "slave" => SlaveAtRest
    /\ used # "card" => CardAtRest

Next ==
    /\ \/ used = "master" /\ TwiNext /\ UNCHANGED <<slaveVars, cardVars>>
       \/ used = "slave" /\ SlaveNext /\ UNCHANGED cardVars
       \/ used = "card" /\ CardNext /\ UNCHANGED <<twiVars, slaveVars>>
    /\ UNCHANGED used

\* The I2C hardware reports how each step has gone, and the program goes on in
\* its waits; nobody has to begin a call, and the card owes nothing.
Fairness ==
    /\ WF_vars(used = "master" /\ Interrupt /\ UNCHANGED <<slaveVars, cardVars, used>>)
    /\ WF_vars(used = "master" /\ Returns /\ UNCHANGED <<slaveVars, cardVars, used>>)
    /\ WF_vars(used = "card" /\ Runs /\ UNCHANGED <<twiVars, slaveVars, used>>)

Spec == Init /\ [][Next]_vars /\ Fairness

-----------------------------------------------------------------------------
\* As a master the station leaves the I2C bus between its calls.
BusLeftByMaster == used = "master" => BusLeft

\* As a slave it keeps to Served between any two events, and delivers whole
\* messages only.
SlaveServed == [][used = "slave" => Delivered /\ Served']_vars

=============================================================================
