------------------------------ MODULE Session ------------------------------
(***************************************************************************)
(* A station and SensApl on one serial line. The station's user presses    *)
(* keys, uses the menu and may cut the power, the client's user presses    *)
(* buttons and may close the window at any time, bytes arrive when they    *)
(* arrive.                                                                 *)
(***************************************************************************)
EXTENDS Device, App

vars == <<wireVars, deviceVars, appVars>>

Init == DeviceInit /\ AppInit

Next ==
    \/ (DeviceStep \/ UserStep) /\ UNCHANGED appVars
    \/ (Commands \/ EdtStep \/ ReaderStep) /\ UNCHANGED deviceVars
    \/ Deliver /\ UNCHANGED <<deviceVars, appVars>>

\* The station's one thread, the line, and SensApl's two threads go on; no user has to
\* do anything.
Fairness ==
    /\ WF_vars(DeviceStep /\ UNCHANGED appVars)
    /\ WF_vars(EdtStep /\ UNCHANGED deviceVars)
    /\ WF_vars(ReaderStep /\ UNCHANGED deviceVars)
    /\ WF_vars(Deliver /\ UNCHANGED <<deviceVars, appVars>>)

Spec == Init /\ [][Next]_vars /\ Fairness

-----------------------------------------------------------------------------

\* What the line, the station and SensApl may hold.
TypeOK ==
    /\ toDevice \in Seq(0..255 \cup {NumberText, TimeText})
    /\ rx \in Seq(0..255 \cup {NumberText, TimeText}) /\ Available(rx) <= RxCap
    /\ \A i \in DOMAIN toApp : toApp[i].k \in {"Y", "TA", "TD", "C", "D", "V", "A", "M"}
    /\ serialOn \in BOOLEAN /\ portOpen \in BOOLEAN
    /\ conected \in BOOLEAN /\ clockSet \in BOOLEAN
    /\ types \in [Directors -> SensorTypes] /\ kept \in [Directors -> SensorTypes]
    /\ failures \in 0..MaxFailures
    /\ at \in Places /\ left \in 0..Ticks /\ ticks \in 0..Ticks
    /\ firstContact \in BOOLEAN
    /\ appTypes \in [Directors -> {0} \cup SensorTypes]
    /\ edt \in {"idle", "connecting", "closing", "sendTime"}
    /\ reader \in {"out", "in", "TA", "TD", "C", "V"}
    /\ given \in 0..MaxCommands

\* SensApl shows values according to its own tables of types. Whenever it is about to
\* read a message of values (Serial.java:528-541), those tables are the ones the
\* station measured under, whatever was retyped at either end, lost, repeated,
\* or restarted before.
ValuesMeetTheirTypes == reader = "V" => appTypes = current.types

\* When SensApl has contact, the station has a client and nothing is on its way, both
\* have the same tables ...
TablesAgree ==
    portOpen /\ firstContact /\ conected /\ toApp = <<>> /\ reader \in {"out", "in"} => appTypes = types

\* ... and every buffer and variable holds what it may hold.
InSync == TypeOK /\ TablesAgree

\* A station that has a client has its line started and keeps its one thread out of
\* the menu, where it would answer nothing: every way in which a client may come and go
\* keeps the three consistent (Sensuino.ino:103, 117-125, Serial.h:112, 120).
ClientServed == conected => serialOn /\ at # "menu"

\* No byte comes to a full receive buffer. (One that does is lost, and serialEvent waits
\* without end for what was lost.)
Room == serialOn /\ toDevice # <<>> => Available(rx) + Width(Head(toDevice)) <= RxCap

\* The station's one thread hangs in serialEvent, which waits without end for bytes
\* (Serial.h:88 and 125), only for a byte that a full buffer has lost: again and again it
\* comes to its next pass, or serves the user or the client who keeps it, in the menu, at
\* the key or with a stream of readings. And it looks at its keys again and again, unless
\* a delay of less than a second stays in force, with which the wait of loop() is empty
\* (Sensuino.ino:100): only a client can then change it (Serial.h:104).
Busy == at \in {"menu", "released", "stream"}
KeysLookedAt ==
    []Room =>
      /\ []<>(at = "pass" \/ Busy)
      /\ <>[](ticks = 0) \/ []<>(at = "sel" \/ Busy)

\* A stream of readings ends once the stop button's 'W' is on its way: the loop that
\* sends them (Serial.h:145-172) eats every other byte, and must not eat this one.
StreamEnds ==
    []Room => ((at = "stream" /\ Contains(toDevice \o rx, W)) ~> (at # "stream"))

\* SensApl's reader, which waits for ten bytes after a 'T' although nine belong to it
\* and for forty after a 'V' although fewer may (Serial.java:471 and 530), is released
\* by what the station sends in its next pass, as long as the station has a client.
ReaderReleased ==
    []Room =>
      ((reader \in {"TA", "TD", "C", "V"} /\ conected)
         ~> (reader \in {"out", "in"} \/ ~conected \/ at \in {"released", "stream"}))

=============================================================================
