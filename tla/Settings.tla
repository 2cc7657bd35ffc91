------------------------------- MODULE Settings -------------------------------
(***************************************************************************)
(* The settings of the station and their copies in the EEPROM of the       *)
(* microcontroller (Sensuino.ino, Menu.h, Serial.h, EEPROMAnything.h).     *)
(*                                                                         *)
(* Eleven items lie in the EEPROM, each at an address the code writes out: *)
(* the analog, digital and I2C type tables, the delay of the main loop,    *)
(* a pair of floats for each pH pin and a pair for each EC pin. An item is *)
(* named by its address. The first four also live in RAM and are read back *)
(* by setup(); the pairs are read from the EEPROM when they are needed.    *)
(*                                                                         *)
(* EEPROM_writeAnything writes one byte after the other, each taking       *)
(* milliseconds, so that the power may fail between any two of them: a     *)
(* write is a job of several steps here and Restart may interrupt it. The  *)
(* sketch is single-threaded: nothing else runs while a job is under way.  *)
(***************************************************************************)
EXTENDS Integers, Sequences, FiniteSets

CONSTANTS
    AnalogPins, DigitalPins,   \* the pins whose type is ever set
    AnalogTypes, DigitalTypes, I2CTypes,
    PHPins, ECPins,            \* the pins that are ever calibrated
    Delays,                    \* the delays, in milliseconds, ever asked for
    UpLimit,                   \* of the number in the delay menu; the code's is 58
    MaxFailures,               \* bounds the power failures of a behaviour
    Calibrations               \* the images of the pairs of floats ever stored

Byte == 0..255

\* The menus offer, and SensApl sends, the types that Sensuino.h:80-93 lists;
\* setDelayTime takes an unsigned long, which has 32 bits. A number that the keys
\* of the delay menu count to (58 or 59 at most in the code) is less than 66.
ASSUME PinsAssumption ==
    /\ AnalogPins \subseteq 1..3
    /\ DigitalPins \subseteq 1..4
    /\ PHPins \subseteq 0..2
    /\ ECPins \subseteq 0..3
ASSUME TypesAssumption ==
    /\ AnalogTypes \subseteq 1..4
    /\ DigitalTypes \subseteq 1..6
    /\ I2CTypes \subseteq 1..3
ASSUME UpLimitAssumption == UpLimit \in 1..64
ASSUME MaxFailuresAssumption == MaxFailures \in Nat
ASSUME DelaysAssumption == Delays \subseteq Nat /\ \A d \in Delays : d \div 65536 < 65536
ASSUME CalibrationsAssumption == Calibrations \subseteq [1..8 -> Byte]

VARIABLES
    live,      \* analogTypeArray, digitalTypeArray, I2CTypeArray, delayTime in RAM
    shown,     \* delayReadable and delayType
    newDelay,  \* the number DelayMenu shows, Closed when the menu is not open
    provider,  \* has setSyncProvider(RTC.get) been called since power-on
    eeprom,    \* the bytes of the EEPROM
    job,       \* the EEPROM_writeAnything under way
    failures   \* how often the power has failed; bounds the model only

vars == <<live, shown, newDelay, provider, eeprom, job, failures>>

-----------------------------------------------------------------------------
(* The layout of the EEPROM. *)

Analog  == 170
Digital == 180
I2C     == 190
Delay   == 200

PHAt(w) == w * 8
FaultyECAt(w) == w * 8 + 20      \* a pH pair too few counted
ECAt(w) == w * 8 + 24

Tables   == {Analog, Digital, I2C}
RAMItems == Tables \cup {Delay}
Pairs    == {PHAt(w) : w \in 0..2} \cup {ECAt(w) : w \in 0..3}
Items    == RAMItems \cup Pairs

\* The EEPROM has 1024 bytes and its address register ten bits. With no byte left
\* to read, Serial.read() returns -1, which is pin 255 as a uint8_t.
Wrapped(a) == a % 1024
StrayPH == Wrapped(PHAt(255))
StrayEC == Wrapped(ECAt(255))
Places == Items \cup {StrayPH, StrayEC}

\* sizeof of the variable stored at an address; a pair is two floats.
Size(at) == IF at = Analog THEN 4
            ELSE IF at = Digital THEN 5
            ELSE IF at = I2C THEN 2
            ELSE IF at = Delay THEN 4 ELSE 8

Slot(at) == at..(at + Size(at) - 1)
Addr == UNION {Slot(at) : at \in Places}
Image(at) == [1..Size(at) -> Byte]

\* EEPROM_readAnything: the bytes the EEPROM holds at an item's address.
Read(mem, at) == [i \in 1..Size(at) |-> mem[at + i - 1]]
Stored(at) == Read(eeprom, at)

\* An unsigned long in memory, the low byte first, and back.
Bytes(d) == <<d % 256, (d \div 256) % 256, (d \div 65536) % 256, (d \div 16777216) % 256>>
Value(b) == b[1] + 256 * b[2] + 65536 * b[3] + 16777216 * b[4]

-----------------------------------------------------------------------------

Closed == -1
Idle == [item |-> -1, at |-> -1, image |-> <<>>, n |-> 0, by |-> "none"]

\* A call of EEPROM_writeAnything(at, image), made by the menu or by serialEvent
\* to change an item; n bytes of it are written.
Job(item, at, image, by) ==
    [item |-> item, at |-> at, image |-> image, n |-> 0, by |-> by]

\* assignDelay(): how writeVal and DelayMenu show the delay. delayReadable is a uint8_t.
AssignDelay(d) ==
    IF d % 60000 = 0 THEN [readable |-> (d \div 60000) % 256, type |-> 1]
                     ELSE [readable |-> (d \div 1000) % 256,  type |-> 0]

Pins(t)  == IF t = Analog THEN AnalogPins ELSE IF t = Digital THEN DigitalPins ELSE {1}
Types(t) == IF t = Analog THEN AnalogTypes ELSE IF t = Digital THEN DigitalTypes ELSE I2CTypes

\* What BareLoader writes into a new station: every pin empty (type 1, position
\* 0 unused), every constant 1.0 and a delay of one second. A byte never written is 255.
Ones == <<0, 0, 128, 63, 0, 0, 128, 63>>
FactoryItem(at) ==
    IF at \in Tables THEN [i \in 1..Size(at) |-> IF i = 1 THEN 0 ELSE 1]
    ELSE IF at = Delay THEN Bytes(1000)
    ELSE IF at \in Pairs THEN Ones
    ELSE [i \in 1..8 |-> 255]
Holder(a) == CHOOSE at \in Places : a \in Slot(at)
Factory == [a \in Addr |-> FactoryItem(Holder(a))[a - Holder(a) + 1]]

\* What setup() leaves in RAM when it starts from the EEPROM mem.
FaultyLoaded(mem) ==           \* forgets the I2C table
    [at \in RAMItems |-> IF at = I2C THEN <<0, 0>> ELSE Read(mem, at)]
Loaded(mem) == [at \in RAMItems |-> Read(mem, at)]

Init ==
    /\ eeprom = Factory
    /\ live = Loaded(Factory)
    /\ shown = AssignDelay(1000)
    /\ newDelay = Closed
    /\ provider = FALSE
    /\ job = Idle
    /\ failures = 0

-----------------------------------------------------------------------------
(* Changes of a setting. Each changes the RAM copy and calls EEPROM_writeAnything. *)

\* Neither a write nor the delay menu keeps the one thread busy.
Free == job = Idle /\ newDelay = Closed

\* Assign() of the connection menu, and the 'T' message of a client.
\* (FaultyRetype calls EEPROM_writeAnything before it changes the array.)
FaultyRetype(by) ==
    /\ Free
    /\ \E t \in Tables : \E p \in Pins(t), k \in Types(t) :
          /\ live' = [live EXCEPT ![t] = [live[t] EXCEPT ![p + 1] = k]]
          /\ job' = Job(t, t, live[t], by)
    /\ UNCHANGED <<shown, newDelay, provider, eeprom, failures>>
Retype(by) ==
    /\ Free
    /\ \E t \in Tables : \E p \in Pins(t), k \in Types(t) :
          LET image == [live[t] EXCEPT ![p + 1] = k] IN
          /\ live' = [live EXCEPT ![t] = image]
          /\ job' = Job(t, t, image, by)
    /\ UNCHANGED <<shown, newDelay, provider, eeprom, failures>>

\* The statements that follow a new delayTime in setDelayTime() and in DelayMenu.
ChangeDelay(d, by) ==
    /\ live' = [live EXCEPT ![Delay] = Bytes(d)]
    /\ shown' = AssignDelay(d)
    /\ job' = Job(Delay, Delay, Bytes(d), by)

\* The 'D' message of a client: any number, 0 when parseInt finds none in time.
SetDelay ==
    /\ Free
    /\ \E d \in Delays : ChangeDelay(d, "serial")
    /\ UNCHANGED <<newDelay, provider, eeprom, failures>>

\* The arguments of setPHConstants(Serial.read(), parseFloat(), parseFloat()) are
\* evaluated in an order that is the compiler's choice at each call. Read from the left
\* they are the pin and the pair; from the right the pin's byte is skipped, the pair is
\* swapped and nothing is left for the pin. The menu's arguments are computed before.
Orders(by) == IF by = "menu" THEN {"LeftToRight"} ELSE {"LeftToRight", "RightToLeft"}
Landing(item, order) ==
    IF order = "LeftToRight" THEN item
    ELSE IF item \in {PHAt(w) : w \in 0..2} THEN StrayPH ELSE StrayEC
Swapped(image) == [i \in 1..8 |-> image[((i + 3) % 8) + 1]]
Pair(image, order) == IF order = "LeftToRight" THEN image ELSE Swapped(image)

\* setPHConstants() and setECConstants(): two writes of four bytes side by side,
\* at the end of a calibration in the menu or for the 'V' and 'U' messages.
SetConstants(by) ==
    /\ Free
    /\ \E item \in {PHAt(w) : w \in PHPins} \cup {ECAt(w) : w \in ECPins},
          image \in Calibrations, order \in Orders(by) :
          job' = Job(item, Landing(item, order), Pair(image, order), by)
    /\ UNCHANGED <<live, shown, newDelay, provider, eeprom, failures>>

-----------------------------------------------------------------------------
(* DelayMenu(). The unit under the number is delayType itself. *)

InMenu == newDelay # Closed /\ job = Idle

OpenDelayMenu ==
    /\ Free
    /\ newDelay' = shown.readable
    /\ UNCHANGED <<live, shown, provider, eeprom, job, failures>>

\* KeyDown and KeyUp count through 1..UpLimit, and change the unit at the ends.
FaultyDelayDown ==             \* counts down to 0
    /\ InMenu
    /\ IF newDelay <= 0
       THEN newDelay' = UpLimit /\ shown' = [shown EXCEPT !.type = 0]
       ELSE newDelay' = newDelay - 1 /\ UNCHANGED shown
    /\ UNCHANGED <<live, provider, eeprom, job, failures>>
DelayDown ==
    /\ InMenu
    /\ IF newDelay <= 1
       THEN newDelay' = UpLimit /\ shown' = [shown EXCEPT !.type = 0]
       ELSE newDelay' = newDelay - 1 /\ UNCHANGED shown
    /\ UNCHANGED <<live, provider, eeprom, job, failures>>
FaultyDelayUp ==               \* counts up without end
    /\ InMenu
    /\ newDelay' = newDelay + 1
    /\ UNCHANGED <<live, shown, provider, eeprom, job, failures>>
DelayUp ==
    /\ InMenu
    /\ IF newDelay > UpLimit
       THEN newDelay' = 1 /\ shown' = [shown EXCEPT !.type = 1]
       ELSE newDelay' = newDelay + 1 /\ UNCHANGED shown
    /\ UNCHANGED <<live, provider, eeprom, job, failures>>

\* KeySel: newDelay*1000 is computed in 16 bits, newDelay*60000 in 32.
Chosen == IF shown.type = 0 THEN (newDelay * 1000) % 65536 ELSE newDelay * 60000
DelaySel ==
    /\ InMenu
    /\ ChangeDelay(Chosen, "menu")
    /\ newDelay' = Closed
    /\ UNCHANGED <<provider, eeprom, failures>>

\* KeyBack leaves everything as it is, the unit included.
DelayBack ==
    /\ InMenu
    /\ newDelay' = Closed
    /\ UNCHANGED <<live, shown, provider, eeprom, job, failures>>

-----------------------------------------------------------------------------
(* The write, and what interrupts it. *)

LastByte == job.n + 1 = Size(job.at)

\* After the write of the I2C table Assign() goes on to make the RTC the source
\* of the time; serialEvent does not.
FaultyRegisters == job.by = "menu" /\ job.at = I2C /\ live[I2C][2] = 3   \* before the write ends
Registers == LastByte /\ job.by = "menu" /\ job.at = I2C /\ live[I2C][2] = 3

WriteByte ==
    /\ job # Idle
    /\ eeprom' = [eeprom EXCEPT ![job.at + job.n] = job.image[job.n + 1]]
    /\ job' = IF LastByte THEN Idle ELSE [job EXCEPT !.n = @ + 1]
    /\ provider' = (provider \/ Registers)
    /\ UNCHANGED <<live, shown, newDelay, failures>>

\* The power fails, or the reset key is pressed, at any moment; setup() reads the
\* settings back and registers the RTC if the I2C table says there is one.
Restart ==
    /\ failures < MaxFailures
    /\ failures' = failures + 1
    /\ live' = Loaded(eeprom)
    /\ shown' = AssignDelay(Value(Read(eeprom, Delay)))
    /\ provider' = (Read(eeprom, I2C)[2] = 3)
    /\ newDelay' = Closed
    /\ job' = Idle
    /\ UNCHANGED eeprom

Callers == {"menu", "serial"}

Next ==
    \/ \E by \in Callers : Retype(by) \/ SetConstants(by)
    \/ SetDelay
    \/ OpenDelayMenu \/ DelayDown \/ DelayUp \/ DelaySel \/ DelayBack
    \/ WriteByte
    \/ Restart

Spec == Init /\ [][Next]_vars

-----------------------------------------------------------------------------
(* Properties. *)

TypeOK ==
    /\ live = [at \in RAMItems |-> live[at]]
    /\ \A at \in RAMItems : live[at] \in Image(at)
    /\ shown \in [readable : Byte, type : {0, 1}]
    /\ newDelay \in {Closed} \cup Byte
    /\ provider \in BOOLEAN
    /\ failures \in 0..MaxFailures
    /\ eeprom \in [Addr -> Byte]
    /\ \/ job = Idle
       \/ /\ job.item \in Items
          /\ job.at \in Places
          /\ job.by \in Callers
          /\ job.n \in 0..(Size(job.at) - 1)
          /\ job = [item |-> job.item, at |-> job.at, image |-> job.image,
                    n |-> job.n, by |-> job.by]
          /\ job.image \in Image(job.at)

\* Whenever no write is under way, what the EEPROM holds of the type tables and of
\* the delay is what the program works with: a restart then changes nothing. 
\* (Sensuino.ino:50-53 reads what Menu.h:61-71, Serial.h:124-142 and 
\* Sensuino.ino:240-244 wrote, each naming address and size once more.)
StoredWhenIdle == job = Idle => \A at \in RAMItems : Stored(at) = live[at]

\* A write stays in the place it was called for: the eleven items lie side by side at
\* addresses written out in three files (Sensuino.ino:230-243, Menu.h:63-70, Serial.h:133-140),
\* and no byte of another item changes, whatever was being written when the power failed.
\* (The place itself may be another than the pin's: when the compiler reads the arguments
\* from the right, EC constants are stored at 16, where pH pin 3 has its pair.)
OthersUntouched ==
    [][\A at \in Items : at # job.at => Stored(at)' = Stored(at)]_vars

\* The wait of loop() (Sensuino.ino:97-116) looks at the keys once a second, so not at all
\* below a second. One of a second or more becomes shorter than that only because a client
\* asks for it (Serial.h:104), because the power fails while a delay is being stored, or
\* because the delay menu was opened on more than 65 seconds, which it cannot show or set
\* again (Menu.h:326, 349): its keys alone never do it.
Waits == Value(live[Delay]) >= 1000
WaitKept ==
    [][Waits /\ ~Waits' =>
          \/ job'.by = "serial" /\ job'.item = Delay
          \/ job.at = Delay /\ failures' # failures
          \/ Value(live[Delay]) >= 66000]_vars

\* Confirming the delay menu sets the number and the unit it shows, although the number
\* is multiplied in 16 bits (Menu.h:349), delayReadable has eight and KeyBack leaves the
\* unit tried out on delayType: all but a number above 65 that stands there because the
\* delay in force is at least as many seconds, never one that the keys have counted to.
ConfirmedDelay ==
    [][job'.by = "menu" /\ job'.item = Delay /\ job = Idle =>
          \/ Value(live'[Delay]) = newDelay * (IF shown.type = 0 THEN 1000 ELSE 60000)
          \/ /\ shown.type = 0 /\ newDelay > 65
             /\ newDelay * 1000 <= Value(live[Delay])]_vars

\* When the RTC becomes the source of the time, the I2C table that names it is in use
\* and stored already: Assign() writes first and registers afterwards, so that the
\* next setup() (Sensuino.ino:55) comes to the same source.
RegisteredIsKept ==
    [][~provider /\ provider' => live'[I2C][2] = 3 /\ Stored(I2C)' = live'[I2C]]_vars

\* Why they hold: of an item that is also in RAM, the write under way writes the
\* copy in RAM, in place, and has written its first n bytes; every other copy is in
\* step. A table differs from its copy in at most one slot.
Written == \A i \in 1..job.n : Stored(job.at)[i] = job.image[i]
OneSlotAhead ==
    job.at \in Tables =>
      \E q \in 2..Size(job.at) : \A i \in 1..Size(job.at) :
          i # q => Stored(job.at)[i] = job.image[i]
WriteInv ==
    /\ job # Idle =>
         /\ job.at \in RAMItems \/ job.item \in RAMItems =>
               job.at = job.item /\ job.image = live[job.at]
         /\ Written
         /\ OneSlotAhead
    /\ \A at \in RAMItems : at # job.at => Stored(at) = live[at]

\* The type tables behave, over any interruptions by power failures, as tables
\* changed atomically and kept a moment later.
Promise == INSTANCE SettingsPromise WITH
    Sockets <- [t \in Tables |-> 1..(Size(t) - 1)],
    Kinds <- [t \in Tables |-> 1..(IF t = Analog THEN 4 ELSE IF t = Digital THEN 6 ELSE 3)],
    inUse <- [t \in Tables |-> [p \in 1..(Size(t) - 1) |-> live[t][p + 1]]],
    kept <- [t \in Tables |-> [p \in 1..(Size(t) - 1) |-> Stored(t)[p + 1]]]
PromiseKept == Promise!Spec

=============================================================================
