-------------------------------- MODULE Wire --------------------------------
(***************************************************************************)
(* The serial line between the station and SensApl, and what travels on it.*)
(*                                                                         *)
(* To the station go single bytes: SensApl writes and flushes them one by  *)
(* one, and the station's receive buffer, which the Arduino core fills     *)
(* from an interrupt, takes them as they come or drops them when it is     *)
(* full. The text of a number (after the two bytes of its length) and the  *)
(* ten digits of a time are one token each, outside the range of a byte. To*)
(* SensApl go messages, each with the number of its bytes: SensApl waits   *)
(* for numbers of bytes.                                                   *)
(***************************************************************************)
EXTENDS Integers, FiniteSets, Sequences, SequencesExt

CONSTANTS
    Directors,      \* the type tables in play: subset of {'A', 'D', 'I'}
    SensorTypes,    \* the types a pin is given
    RxCap           \* what the receive buffer of the station holds, in bytes

\* The letters of the protocol (Serial.h:79-189).
A == 65
B == 66
D == 68
I == 73
M == 77
T == 84
W == 87
X == 88
Y == 89
NumberText == 300
TimeText == 301

ASSUME DirectorsAssumption == Directors \subseteq {A, D, I}
ASSUME SensorTypesAssumption == SensorTypes \subseteq 1..6 /\ 1 \in SensorTypes
ASSUME RxCapAssumption == RxCap \in Nat \ {0}

VARIABLES
    toDevice,   \* bytes SensApl has written, not yet arrived
    rx,         \* the receive buffer of the station
    toApp,      \* messages the station has sent, not yet read
    serialOn,   \* serialStatus: has the station started its end of the line
    portOpen    \* has SensApl opened its end

wireVars == <<toDevice, rx, toApp, serialOn, portOpen>>

\* The bytes behind a token, and those in a buffer: the widths of its tokens together.
Width(b) == IF b = TimeText THEN 10 ELSE IF b = NumberText THEN 6 ELSE 1
Occurrences(bytes, b) == Cardinality({i \in DOMAIN bytes : bytes[i] = b})
Available(bytes) ==
    Len(bytes) + 5 * Occurrences(bytes, NumberText) + 9 * Occurrences(bytes, TimeText)

\* A message: its letters, its bytes, and the types it tells of or was measured under.
Message(k, n, types) == [k |-> k, n |-> n, types |-> types]
BytesIn(messages) == FoldLeft(LAMBDA n, m : n + m.n, 0, messages)

\* SensApl writes; without an open port the output stream throws and nothing is sent.
\* The station sends; what nobody listens to is lost.
ToDevice(bytes) == toDevice' = IF portOpen THEN toDevice \o bytes ELSE toDevice
ToApp(messages) == toApp' = IF portOpen THEN toApp \o messages ELSE toApp

\* The next byte arrives: into the buffer, unless it is full or the line not started.
Deliver ==
    /\ toDevice # <<>>
    /\ toDevice' = Tail(toDevice)
    /\ rx' = IF serialOn /\ Available(rx) + Width(Head(toDevice)) <= RxCap
             THEN Append(rx, Head(toDevice)) ELSE rx
    /\ UNCHANGED <<toApp, serialOn, portOpen>>

=============================================================================
