--------------------------------- MODULE App ---------------------------------
(***************************************************************************)
(* SensApl at the serial line (Serial.java, SensApl.java). Two threads     *)
(* meet in one Serial object: the event dispatch thread of Swing, which    *)
(* runs the listeners of the buttons to their end, and the thread of the   *)
(* serial library, which calls serialEvent when data have come. serialEvent*)
(* and close are synchronized: they share one monitor.                     *)
(***************************************************************************)
EXTENDS Wire

CONSTANTS
    MaxCommands,    \* bounds the commands the user gives
    Buttons         \* the buttons the user presses
ASSUME MaxCommandsAssumption == MaxCommands \in Nat
ASSUME ButtonsAssumption ==
    Buttons \subseteq {"connect", "disconnect", "upload", "delay", "time", "start", "stop", "exit"}

VARIABLES
    firstContact,   \* has a 'Y' been read
    appTypes,       \* analogType, digitalType and I2CType, one pin of each
    edt,            \* what the event dispatch thread is doing
    reader,         \* what the library's thread is doing; not "out": it has the monitor
    current,        \* the message of which reader has read the first byte
    given           \* the commands given so far

appVars == <<firstContact, appTypes, edt, reader, current, given>>

NoMessage == Message("none", 0, <<>>)

AppInit ==
    /\ portOpen = FALSE
    /\ firstContact = FALSE
    /\ appTypes = [d \in Directors |-> 0]
    /\ edt = "idle"
    /\ reader = "out"
    /\ current = NoMessage
    /\ given = 0

-----------------------------------------------------------------------------
(* The event dispatch thread. *)

Command(button) ==
    /\ edt = "idle"
    /\ button \in Buttons
    /\ given < MaxCommands
    /\ given' = given + 1

\* The connect button: the port is opened, unless it is open; two seconds later the
\* handshake is asked for.
Connect ==
    /\ Command("connect")
    /\ portOpen' = TRUE
    /\ edt' = "connecting"
    /\ UNCHANGED <<toDevice, rx, toApp, serialOn, firstContact, appTypes, reader, current>>
ConnectEnd ==
    /\ edt = "connecting"
    /\ ToDevice(<<Y>>)
    /\ edt' = "idle"
    /\ UNCHANGED <<rx, toApp, serialOn, portOpen, firstContact, appTypes, reader, current, given>>

\* The disconnect button, stopComunication(): nothing without contact; else 'X', and
\* close(), which waits for the monitor.
Disconnect ==
    /\ Command("disconnect")
    /\ firstContact
    /\ ToDevice(<<X>>)
    /\ firstContact' = FALSE
    /\ edt' = "closing"
    /\ UNCHANGED <<rx, toApp, serialOn, portOpen, appTypes, reader, current>>
Close ==
    /\ edt = "closing"
    /\ reader = "out"
    /\ portOpen' = FALSE
    /\ toApp' = <<>>
    /\ edt' = "idle"
    /\ UNCHANGED <<toDevice, rx, serialOn, firstContact, appTypes, reader, current, given>>

\* The upload button of a pin: sendAnalogType(), sendDigitalType(), sendI2CType(). The
\* tables of SensApl change only with the reply.
Retype ==
    /\ Command("upload")
    /\ \E d \in Directors, t \in SensorTypes : ToDevice(<<T, d, 1, t>>)
    /\ UNCHANGED <<rx, toApp, serialOn, portOpen, firstContact, appTypes, edt, reader, current>>

\* setDelay(), and setTime(), which sends the digits half a second after the letter.
SetDelay ==
    /\ Command("delay")
    /\ ToDevice(<<D, NumberText>>)
    /\ UNCHANGED <<rx, toApp, serialOn, portOpen, firstContact, appTypes, edt, reader, current>>
SetTime ==
    /\ Command("time")
    /\ ToDevice(<<B>>)
    /\ edt' = "sendTime"
    /\ UNCHANGED <<rx, toApp, serialOn, portOpen, firstContact, appTypes, reader, current>>
FaultySetTimeEnd ==         \* sends the digits of the day only
    /\ edt = "sendTime"
    /\ ToDevice(<<NumberText>>)
    /\ edt' = "idle"
    /\ UNCHANGED <<rx, toApp, serialOn, portOpen, firstContact, appTypes, reader, current, given>>
SetTimeEnd ==
    /\ edt = "sendTime"
    /\ ToDevice(<<TimeText>>)
    /\ edt' = "idle"
    /\ UNCHANGED <<rx, toApp, serialOn, portOpen, firstContact, appTypes, reader, current, given>>

\* The start and stop button of a calibration bar.
StartReading ==
    /\ Command("start")
    /\ ToDevice(<<M, 1>>)
    /\ UNCHANGED <<rx, toApp, serialOn, portOpen, firstContact, appTypes, edt, reader, current>>
StopReading ==
    /\ Command("stop")
    /\ ToDevice(<<W>>)
    /\ UNCHANGED <<rx, toApp, serialOn, portOpen, firstContact, appTypes, edt, reader, current>>

\* The window is closed and SensApl ends, with no word to the station; it is started anew.
\* (Not counted among the commands: without a port there is nothing to end.)
Exit ==
    /\ edt = "idle" /\ "exit" \in Buttons /\ portOpen
    /\ portOpen' = FALSE
    /\ toApp' = <<>>
    /\ firstContact' = FALSE
    /\ appTypes' = [d \in Directors |-> 0]
    /\ reader' = "out"
    /\ current' = NoMessage
    /\ UNCHANGED <<toDevice, rx, serialOn, edt, given>>

-----------------------------------------------------------------------------
(* The library's thread: serialEvent(). *)

Enter ==
    /\ reader = "out" /\ portOpen /\ toApp # <<>>
    /\ reader' = "in"
    /\ UNCHANGED <<wireVars, firstContact, appTypes, edt, current, given>>

Leave ==
    /\ reader = "in" /\ toApp = <<>>
    /\ reader' = "out"
    /\ UNCHANGED <<wireVars, firstContact, appTypes, edt, current, given>>

\* The first byte of a message. Before the contact only 'Y' counts.
ReadFirst ==
    /\ reader = "in" /\ toApp # <<>>
    /\ toApp' = Tail(toApp)
    /\ LET m == Head(toApp) IN
       IF ~firstContact
       THEN /\ firstContact' = (m.k = "Y")
            /\ UNCHANGED <<reader, current>>
       ELSE /\ IF m.k \in {"TA", "TD", "C", "V"}
               THEN reader' = m.k /\ current' = [m EXCEPT !.n = @ - 1]
               ELSE UNCHANGED <<reader, current>>
            /\ UNCHANGED firstContact
    /\ UNCHANGED <<toDevice, rx, serialOn, portOpen, appTypes, edt, given>>

\* How many bytes serialEvent waits for, spinning, before it reads the rest.
Awaited(k) == CASE k \in {"TA", "TD"} -> 10 [] k = "C" -> 2 [] k = "V" -> 40

FaultyReadRest ==           \* reads only the analog table
    /\ reader \in {"TA", "TD", "C", "V"}
    /\ current.n + BytesIn(toApp) >= Awaited(reader)
    /\ IF reader = "TA"
       THEN appTypes' = [d \in Directors |->
               IF d \in DOMAIN current.types THEN current.types[d] ELSE appTypes[d]]
       ELSE UNCHANGED appTypes
    /\ reader' = "in" /\ current' = NoMessage
    /\ UNCHANGED <<wireVars, firstContact, edt, given>>
ReadRest ==
    /\ reader \in {"TA", "TD", "C", "V"}
    /\ current.n + BytesIn(toApp) >= Awaited(reader)
    /\ IF reader \in {"TA", "TD"}
       THEN appTypes' = [d \in Directors |->
               IF d \in DOMAIN current.types THEN current.types[d] ELSE appTypes[d]]
       ELSE UNCHANGED appTypes
    /\ reader' = "in" /\ current' = NoMessage
    /\ UNCHANGED <<wireVars, firstContact, edt, given>>

-----------------------------------------------------------------------------

Commands == \/ Connect \/ Disconnect \/ Retype \/ SetDelay \/ SetTime
            \/ StartReading \/ StopReading \/ Exit
EdtStep == ConnectEnd \/ Close \/ SetTimeEnd
ReaderStep == Enter \/ Leave \/ ReadFirst \/ ReadRest

=============================================================================
