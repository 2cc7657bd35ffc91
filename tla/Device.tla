------------------------------- MODULE Device -------------------------------
(***************************************************************************)
(* The station at the serial line: loop(), startSerial(), serialEvent() of *)
(* Sensuino.ino and Serial.h, and the menu as far as it takes the one      *)
(* thread away. serialEvent runs only between two passes of loop().        *)
(***************************************************************************)
EXTENDS Wire

CONSTANTS
    Ticks,          \* bounds delayTime/1000, the seconds the loop waits between two passes
    MaxBytes,       \* the station sends on its own while fewer are on the way
    MaxFailures     \* bounds the power failures of the station
ASSUME TicksAssumption == Ticks \in Nat \ {0}
ASSUME MaxBytesAssumption == MaxBytes \in Nat /\ MaxBytes >= 40   \* SensApl waits for 40
ASSUME MaxFailuresAssumption == MaxFailures \in Nat

VARIABLES
    conected,       \* a client has shaken hands
    types,          \* the type arrays, one pin of each
    kept,           \* their copies in the EEPROM
    clockSet,       \* has the clock been set, so that now() has ten digits
    ticks,          \* delayTime/1000, in RAM and in the EEPROM
    at,             \* what the thread is about to do
    left,           \* the seconds the wait in loop() still has
    failures        \* how often the power has failed; bounds the model only

deviceVars == <<conected, types, kept, clockSet, ticks, at, left, failures>>

Places == {"pass", "wait", "sel", "released", "menu", "event", "retype", "store", "delay", "time", "stream"}

DeviceInit ==
    /\ toDevice = <<>> /\ rx = <<>> /\ toApp = <<>>
    /\ serialOn = FALSE
    /\ conected = FALSE
    /\ types = [d \in Directors |-> 1]
    /\ kept = types
    /\ clockSet = FALSE
    /\ ticks = 1
    /\ at = "pass" /\ left = 0
    /\ failures = 0

-----------------------------------------------------------------------------
(* What the station sends. *)

\* sendAnalogType() and sendDigitalType(): two letters and four lines.
SendAnalogType(t) == Message("TA", 10, [d \in Directors \ {D} |-> t[d]])
SendDigitalType(t) == Message("TD", 10, [d \in Directors \cap {D} |-> t[d]])
SendType(d, t) == IF d = D THEN SendDigitalType(t) ELSE SendAnalogType(t)

\* sendTime(), sendDelay(), and the two tables of constants in one message.
SendTime == Message("A", IF clockSet THEN 12 ELSE 4, <<>>)
SendDelay == Message("D", 6, <<>>)
SendConstants == Message("C", 64, <<>>)

\* sendValues(): 'V' and seven lines ("N/A" each if nothing is connected), then the time.
SendValues == <<Message("V", 29, types), SendTime>>

Handshake ==
    <<Message("Y", 1, <<>>), SendAnalogType(types), SendDigitalType(types),
      SendConstants, SendDelay>>

-----------------------------------------------------------------------------
(* loop() *)

\* The sensors are read and, for a client, sent; then the wait begins.
FaultyPass ==               \* holds the values back until the clock is set
    /\ at = "pass"
    /\ IF serialOn /\ conected /\ clockSet
       THEN BytesIn(toApp) < MaxBytes /\ ToApp(SendValues)
       ELSE UNCHANGED toApp
    /\ at' = "wait" /\ left' = ticks
    /\ UNCHANGED <<toDevice, rx, serialOn, portOpen, conected, types, kept, clockSet, ticks, failures>>
Pass ==
    /\ at = "pass"
    /\ IF serialOn /\ conected
       THEN BytesIn(toApp) < MaxBytes /\ ToApp(SendValues)
       ELSE UNCHANGED toApp
    /\ at' = "wait" /\ left' = ticks
    /\ UNCHANGED <<toDevice, rx, serialOn, portOpen, conected, types, kept, clockSet, ticks, failures>>

\* A second passes, in which the user may come to hold a key. KeyBack opens the menu
\* unless a client is there.
Wait ==
    /\ at = "wait"
    /\ at' \in IF left = 0 THEN {"event"} ELSE IF conected THEN {"sel"} ELSE {"sel", "menu"}
    /\ UNCHANGED <<wireVars, conected, types, kept, clockSet, ticks, left, failures>>

\* Then KeySel starts or stops the line, startSerial(); Serial.end() empties the buffer.
StartStop ==
    /\ serialOn' = ~serialOn
    /\ conected' = (conected /\ serialOn')
    /\ rx' = <<>>
    /\ at' = "released"
NoKey == at' = "wait" /\ UNCHANGED <<serialOn, conected, rx>>

PollSel ==
    /\ at = "sel"
    /\ StartStop \/ NoKey
    /\ left' = IF left = 0 THEN 0 ELSE left - 1
    /\ UNCHANGED <<toDevice, toApp, portOpen, types, kept, clockSet, ticks, failures>>

\* startSerial() returns when the user releases the key.
Released ==
    /\ at = "released"
    /\ at' = "wait"
    /\ UNCHANGED <<wireVars, conected, types, kept, clockSet, ticks, left, failures>>

-----------------------------------------------------------------------------
(* The menu: the user retypes pins, with no word to a client, sets the     *)
(* clock and the delay, and leaves.                                        *)

MenuRetype ==
    /\ at = "menu"
    /\ \E d \in Directors, t \in SensorTypes : types' = [types EXCEPT ![d] = t]
    /\ kept' = types'
    /\ UNCHANGED <<wireVars, conected, clockSet, ticks, at, left, failures>>

MenuSetTime ==
    /\ at = "menu" /\ ~clockSet
    /\ clockSet' = TRUE
    /\ UNCHANGED <<wireVars, conected, types, kept, ticks, at, left, failures>>

\* The delay menu. (Which delays it sets is the matter of Settings.)
MenuSetDelay ==
    /\ at = "menu"
    /\ ticks' \in 0..Ticks
    /\ UNCHANGED <<wireVars, conected, types, kept, clockSet, at, left, failures>>

\* firstRun ends the wait after the look at KeySel that follows.
MenuLeave ==
    /\ at = "menu"
    /\ at' = "sel" /\ left' = 0
    /\ UNCHANGED <<wireVars, conected, types, kept, clockSet, ticks, failures>>

-----------------------------------------------------------------------------
(* serialEvent() *)

\* Nothing available: back to loop().
EventEnd ==
    /\ at = "event" /\ rx = <<>>
    /\ at' = "pass"
    /\ UNCHANGED <<wireVars, conected, types, kept, clockSet, ticks, left, failures>>

\* One byte is read and starts what it stands for; any other letter is skipped.
ReadY ==
    /\ at = "event" /\ rx # <<>> /\ Head(rx) = Y
    /\ rx' = Tail(rx)
    /\ conected' = TRUE
    /\ ToApp(Handshake)
    /\ UNCHANGED <<toDevice, serialOn, portOpen, types, kept, clockSet, ticks, at, left, failures>>

ReadX ==
    /\ at = "event" /\ rx # <<>> /\ Head(rx) = X
    /\ rx' = Tail(rx)
    /\ conected' = FALSE
    /\ UNCHANGED <<toDevice, toApp, serialOn, portOpen, types, kept, clockSet, ticks, at, left, failures>>

ReadOther ==
    /\ at = "event" /\ rx # <<>> /\ Head(rx) \notin {X, Y}
    /\ rx' = Tail(rx)
    /\ at' = CASE Head(rx) = T -> "retype" [] Head(rx) = D -> "delay"
               [] Head(rx) = B -> "time" [] Head(rx) = M -> "stream"
               [] OTHER -> "event"
    /\ UNCHANGED <<toDevice, toApp, serialOn, portOpen, conected, types, kept, clockSet, ticks, left, failures>>

\* 'T': waits, without end, for three bytes; array[pin] = type; replies with the table,
\* and stores it only then. Only pin 1 of a table is modelled. An unknown director costs
\* one byte only.
FaultyRetypeEvent ==        \* does not reply
    /\ at = "retype" /\ Len(rx) >= 3
    /\ IF Head(rx) \in Directors
       THEN /\ types' = IF rx[2] = 1 THEN [types EXCEPT ![Head(rx)] = rx[3]] ELSE types
            /\ rx' = SubSeq(rx, 4, Len(rx))
            /\ at' = "store"
       ELSE rx' = Tail(rx) /\ at' = "event" /\ UNCHANGED types
    /\ UNCHANGED <<toDevice, toApp, serialOn, portOpen, conected, kept, clockSet, ticks, left, failures>>
RetypeEvent ==
    /\ at = "retype" /\ Len(rx) >= 3
    /\ IF Head(rx) \in Directors
       THEN /\ types' = IF rx[2] = 1 THEN [types EXCEPT ![Head(rx)] = rx[3]] ELSE types
            /\ ToApp(<<SendType(Head(rx), types')>>)
            /\ rx' = SubSeq(rx, 4, Len(rx))
            /\ at' = "store"
       ELSE rx' = Tail(rx) /\ at' = "event" /\ UNCHANGED <<types, toApp>>
    /\ UNCHANGED <<toDevice, serialOn, portOpen, conected, kept, clockSet, ticks, left, failures>>
StoreEvent ==
    /\ at = "store"
    /\ kept' = types
    /\ at' = "event"
    /\ UNCHANGED <<wireVars, conected, types, clockSet, ticks, left, failures>>

\* 'D': parseInt() skips to a number, or gives up a second after the last byte: then
\* the delay is 0. A number may be any, so the wait of loop() may be left with no second
\* in it. (What exactly is stored, and when, is the matter of Settings.)
DelayEvent ==
    /\ at = "delay" /\ (Contains(rx, NumberText) \/ toDevice = <<>>)
    /\ \/ ~Contains(rx, NumberText) /\ rx' = <<>> /\ ticks' = 0
       \/ \E n \in 1..Len(rx) : /\ rx[n] = NumberText /\ \A i \in 1..n - 1 : rx[i] # NumberText
                               /\ rx' = SubSeq(rx, n + 1, Len(rx))
                               /\ ticks' \in 0..Ticks
    /\ ToApp(<<SendDelay>>)
    /\ at' = "event"
    /\ UNCHANGED <<toDevice, serialOn, portOpen, conected, types, kept, clockSet, left, failures>>

\* 'B': waits, without end, for ten bytes, and takes them for the digits of a time. Bytes
\* that are none set the clock to a number of fewer digits, as the first nine of a time do
\* behind a letter.
TimeEvent ==
    /\ at = "time" /\ Available(rx) >= 10
    /\ \E n \in 1..Len(rx) :
         /\ Available(SubSeq(rx, 1, n)) >= 10 /\ Available(SubSeq(rx, 1, n - 1)) < 10
         /\ rx' = SubSeq(rx, n + 1, Len(rx))
         /\ clockSet' \in IF rx[n] # TimeText THEN {FALSE} ELSE IF n = 1 THEN {TRUE} ELSE BOOLEAN
    /\ at' = "event"
    /\ UNCHANGED <<toDevice, toApp, serialOn, portOpen, conected, types, kept, ticks, left, failures>>

\* 'M' and 'N': a raw reading every 100 ms, and the next byte, until that is 'W'. (The
\* pin, read first, is a byte that is not 'W', whether it has arrived by then or not.)
FaultyStream ==             \* reads a byte more before it looks
    /\ at = "stream"
    /\ IF BytesIn(toApp) < MaxBytes THEN ToApp(<<Message("M", 6, <<>>)>>) ELSE UNCHANGED toApp
    /\ rx' = SubSeq(rx, 3, Len(rx))
    /\ at' = IF Len(rx) > 1 /\ rx[2] = W THEN "event" ELSE "stream"
    /\ UNCHANGED <<toDevice, serialOn, portOpen, conected, types, kept, clockSet, ticks, left, failures>>
Stream ==
    /\ at = "stream"
    /\ IF BytesIn(toApp) < MaxBytes THEN ToApp(<<Message("M", 6, <<>>)>>) ELSE UNCHANGED toApp
    /\ rx' = IF rx = <<>> THEN rx ELSE Tail(rx)
    /\ at' = IF rx # <<>> /\ Head(rx) = W THEN "event" ELSE "stream"
    /\ UNCHANGED <<toDevice, serialOn, portOpen, conected, types, kept, clockSet, ticks, left, failures>>

SerialEvent ==
    \/ EventEnd \/ ReadY \/ ReadX \/ ReadOther
    \/ RetypeEvent \/ StoreEvent \/ DelayEvent \/ TimeEvent \/ Stream

-----------------------------------------------------------------------------

\* The power fails, or the reset key is pressed, at any moment: setup() starts from the
\* EEPROM, without a client; the clock is lost, unless the RTC module keeps it. (What
\* an unfinished write leaves behind is the matter of Settings: a table as it was before
\* or after, but any delay.)
FaultyRestart ==            \* forgets that the client is gone
    /\ failures < MaxFailures
    /\ failures' = failures + 1
    /\ types' = kept
    /\ serialOn' = FALSE /\ rx' = <<>>
    /\ clockSet' \in {clockSet, FALSE} /\ ticks' \in 0..Ticks
    /\ at' = "pass" /\ left' = 0
    /\ UNCHANGED <<toDevice, toApp, portOpen, conected, kept>>
Restart ==
    /\ failures < MaxFailures
    /\ failures' = failures + 1
    /\ types' = kept
    /\ conected' = FALSE
    /\ serialOn' = FALSE /\ rx' = <<>>
    /\ clockSet' \in {clockSet, FALSE} /\ ticks' \in 0..Ticks
    /\ at' = "pass" /\ left' = 0
    /\ UNCHANGED <<toDevice, toApp, portOpen, kept>>

\* The thread goes on by itself; the user may hold a key or stay in the menu for ever.
DeviceStep == Pass \/ Wait \/ PollSel \/ SerialEvent
UserStep == Released \/ MenuRetype \/ MenuSetTime \/ MenuSetDelay \/ MenuLeave \/ Restart

=============================================================================
