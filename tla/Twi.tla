-------------------------------- MODULE Twi --------------------------------
(***************************************************************************)
(* The I2C bus as its only master: TwoWire (Wire.cpp) on top of twi.c,     *)
(* whose calls start a transaction and wait while TWI_vect, the interrupt  *)
(* handler, carries it on event by event. The RTC and the light sensor     *)
(* hang on it. Every event may also be a NACK, a lost arbitration or a bus *)
(* error. (TwiSlave models the half of TWI_vect that serves a master.)     *)
(***************************************************************************)
EXTENDS Naturals, Sequences

CONSTANTS Address,        \* of the devices one may talk to
          Byte,
          BufferLength,   \* BUFFER_LENGTH and TWI_BUFFER_LENGTH
          MaxQuantity     \* bound on what is asked for in the model

ASSUME TwiAssumption == BufferLength \in 1 .. 255 /\ MaxQuantity \in Nat \ {0}

VARIABLES tx, txAddress, transmitting,   \* TwoWire: what is to be sent
          rx, rxIndex,                   \* TwoWire: what was received, up to rxBufferLength
          state, error, inRepStart, sendStop, slarw,    \* twi_...
          buffer, index, length,         \* twi_masterBuffer...
          bus,       \* what the TWI hardware is at
          ack,       \* TWEA: the next byte received will be acknowledged
          call,      \* what the program is waiting in
          ret,       \* what the last call returned
          device     \* the device addressed: bytes it took and gave, and whether it was disturbed

twi == <<state, error, inRepStart, sendStop, slarw, buffer, index, length>>
wire == <<tx, txAddress, transmitting, rx, rxIndex>>
twiVars == <<wire, twi, bus, ack, call, ret, device>>

Untouched == [answers |-> FALSE, took |-> <<>>, gave |-> <<>>, disturbed |-> FALSE]

\* DS1307RTC::DS1307RTC and setup() have called Wire.begin().
TwiInit ==
    /\ tx = <<>> /\ transmitting = FALSE /\ txAddress \in Address
    /\ rx = <<>> /\ rxIndex = 0
    /\ state = "READY" /\ sendStop = TRUE /\ inRepStart = FALSE
    /\ error = "none" /\ slarw = <<txAddress, "W">>
    /\ buffer = <<>> /\ index = 0 /\ length = 0
    /\ bus = "free" /\ ack = TRUE /\ call = "none" /\ ret = 0 /\ device = Untouched

-----------------------------------------------------------------------------
\* The program.

BeginTransmission(a) ==
    /\ call = "none"
    /\ transmitting' = TRUE /\ txAddress' = a /\ tx' = <<>>
    /\ UNCHANGED <<rx, rxIndex, twi, bus, ack, call, ret, device>>

\* Outside of a transmission write() is a slave's and does nothing.
WireWrite(b) ==
    /\ call = "none" /\ transmitting
    /\ tx' = IF Len(tx) >= BufferLength THEN tx ELSE Append(tx, b)
    /\ UNCHANGED <<txAddress, transmitting, rx, rxIndex, twi, bus, ack, call, ret, device>>

WireRead ==
    /\ call = "none" /\ rxIndex < Len(rx)
    /\ rxIndex' = rxIndex + 1
    /\ UNCHANGED <<tx, txAddress, transmitting, rx, twi, bus, ack, call, ret, device>>

\* After a repeated start the START is out already (which twi.c hopes for,
\* and so does this).
StartTransaction(a, rw, stop) ==
    /\ state = "READY"
    /\ sendStop' = stop /\ error' = "none" /\ slarw' = <<a, rw>> /\ index' = 0
    /\ bus' = IF inRepStart THEN "address" ELSE "start"
    /\ inRepStart' = FALSE /\ ack' = TRUE
    /\ device' = Untouched

EndTransmission(stop) ==
    /\ call = "none"
    /\ StartTransaction(txAddress, "W", stop)
    /\ state' = "MTX" /\ call' = "write"
    /\ buffer' = tx /\ length' = Len(tx)
    /\ UNCHANGED <<wire, ret>>

\* length is a uint8_t: a quantity of 0 would make it 255. Of what is left in
\* twi_masterBuffer nothing is read again.
RequestFrom(a, quantity, stop) ==
    LET q == IF quantity > BufferLength THEN BufferLength ELSE quantity
    IN  /\ call = "none"
        /\ StartTransaction(a, "R", stop)
        /\ state' = "MRX" /\ call' = "read"
        /\ length' = q - 1 /\ ret' = q /\ buffer' = <<>>
        /\ UNCHANGED wire

\* The loops on twi_state end.
ReturnFromWrite ==
    /\ call = "write" /\ state # "MTX"
    /\ ret' = CASE error = "none" -> 0 [] error = "MT_SLA_NACK" -> 2
                [] error = "MT_DATA_NACK" -> 3 [] OTHER -> 4
    /\ tx' = <<>> /\ transmitting' = FALSE
    /\ call' = "none" /\ device' = Untouched
    /\ UNCHANGED <<txAddress, rx, rxIndex, twi, bus, ack>>

\* ret holds the length asked for so far.
ReturnFromRead ==
    LET n == IF index < ret THEN index ELSE ret
    IN  /\ call = "read" /\ state # "MRX"
        /\ rx' = SubSeq(buffer, 1, n) /\ rxIndex' = 0 /\ ret' = n
        /\ call' = "none" /\ device' = Untouched
        /\ UNCHANGED <<tx, txAddress, transmitting, twi, bus, ack>>

-----------------------------------------------------------------------------
\* TWI_vect. (What the program holds in its own variables it leaves alone.)

Stop == state' = "READY" /\ bus' = "free"

FaultyFinish ==       \* the START of a repeated start is sent again
    IF sendStop THEN Stop /\ UNCHANGED inRepStart
    ELSE state' = "READY" /\ bus' = "held" /\ UNCHANGED inRepStart
\* The last byte is through: stop, or send the START of what comes next.
Finish ==
    IF sendStop THEN Stop /\ UNCHANGED inRepStart
    ELSE inRepStart' = TRUE /\ state' = "READY" /\ bus' = "held"

FaultySendNext ==     \* sends one byte less
    /\ IF index + 1 < length
         THEN /\ index' = index + 1 /\ bus' = "send"
              /\ UNCHANGED <<state, inRepStart>>
         ELSE Finish /\ UNCHANGED index
    /\ UNCHANGED <<ack, buffer, error>>
SendNext ==
    /\ IF index < length
         THEN /\ index' = index + 1 /\ bus' = "send"
              /\ UNCHANGED <<state, inRepStart>>
         ELSE Finish /\ UNCHANGED index
    /\ UNCHANGED <<ack, buffer, error>>

\* twi_reply: acknowledge what comes next if more is to come after it.
AckNext == ack' = (index' < length) /\ bus' = "receive"

Failed(e) ==
    /\ error' = e /\ Stop
    /\ UNCHANGED <<inRepStart, ack, buffer, index>>

StartSent ==
    /\ bus = "start"
    /\ bus' = "address" /\ ack' = TRUE
    /\ UNCHANGED <<state, error, inRepStart, buffer, index, device>>

AddressAcked ==
    /\ bus = "address"
    /\ device' = [device EXCEPT !.answers = TRUE]
    /\ IF slarw[2] = "W" THEN SendNext
       ELSE /\ index' = index /\ AckNext
            /\ UNCHANGED <<state, error, inRepStart, buffer>>

FaultyAddressNacked ==      \* addresses a device anew until it answers
    /\ bus = "address"
    /\ IF slarw[2] = "W" THEN Failed("MT_SLA_NACK")
       ELSE bus' = "start" /\ UNCHANGED <<state, error, inRepStart, ack, buffer, index>>
    /\ UNCHANGED device
\* A device that does not answer a read leaves twi_error alone.
AddressNacked ==
    /\ bus = "address"
    /\ IF slarw[2] = "W" THEN Failed("MT_SLA_NACK") ELSE Failed(error)
    /\ UNCHANGED device

ByteAcked ==
    /\ bus = "send"
    /\ device' = [device EXCEPT !.took = Append(@, buffer[index])]
    /\ SendNext

ByteNacked ==
    /\ bus = "send"
    /\ Failed("MT_DATA_NACK")
    /\ UNCHANGED device

\* The byte goes to masterBuffer[index].
ByteReceived(b) ==
    /\ bus = "receive"
    /\ device' = [device EXCEPT !.gave = Append(@, b)]
    /\ buffer' = Append(buffer, b)
    /\ index' = index + 1
    /\ IF ack THEN AckNext /\ UNCHANGED <<state, inRepStart>>
       ELSE Finish /\ UNCHANGED ack
    /\ UNCHANGED error

\* Lost arbitration or a bus error, at any event.
Disturbed ==
    /\ bus \in {"start", "address", "send", "receive"}
    /\ \/ bus # "start" /\ Failed("MT_ARB_LOST")
       \/ Failed("BUS_ERROR")
    /\ device' = [device EXCEPT !.disturbed = TRUE]

Event == StartSent \/ AddressAcked \/ AddressNacked \/ ByteAcked \/ ByteNacked
         \/ (\E b \in Byte : ByteReceived(b)) \/ Disturbed
Interrupt == Event /\ UNCHANGED <<wire, sendStop, slarw, length, call, ret>>

Program ==
    \/ \E a \in Address : BeginTransmission(a)
    \/ \E b \in Byte : WireWrite(b)
    \/ WireRead
    \/ \E stop \in BOOLEAN : EndTransmission(stop)
    \/ \E a \in Address, q \in 1 .. MaxQuantity, stop \in BOOLEAN : RequestFrom(a, q, stop)
    \/ ReturnFromWrite \/ ReturnFromRead

TwiNext == Program \/ Interrupt

Returns == ReturnFromWrite \/ ReturnFromRead

\* The hardware reports how each step on the bus has gone, and the program
\* looks at twi_state all the time.
TwiFairness == WF_twiVars(Interrupt) /\ WF_twiVars(Returns)

TwiSpec == TwiInit /\ [][TwiNext]_twiVars /\ TwiFairness

-----------------------------------------------------------------------------
\* What the variables of Wire and twi.c hold; no buffer ever grows past its array.
TwiTypes ==
    /\ {tx, rx, buffer} \subseteq Seq(Byte)
    /\ rxIndex \in 0 .. Len(rx)
    /\ state \in {"READY", "MTX", "MRX"}
    /\ error \in {"none", "MT_SLA_NACK", "MT_DATA_NACK", "MT_ARB_LOST", "BUS_ERROR"}
    /\ {transmitting, inRepStart, sendStop, ack} \subseteq BOOLEAN
    /\ bus \in {"free", "start", "address", "send", "receive", "held"}
    /\ call \in {"none", "write", "read"}
    /\ index \in 0 .. BufferLength /\ length \in 0 .. BufferLength
    /\ \A b \in {tx, rx, buffer} : Len(b) <= BufferLength

\* Between two calls nobody is on the bus but a START that waits for the
\* next transaction, which then does not send another.
BusLeft ==
    /\ TwiTypes
    /\ call = "none" => state = "READY" /\ bus = IF inRepStart THEN "held" ELSE "free"

\* endTransmission says 0 exactly if the device has taken all that was
\* written to it, in order. Whatever requestFrom returns, read() delivers the
\* bytes the device gave, in order and no others; fewer than asked for only if
\* the device did not answer or was disturbed.
ResultsTrue ==
    [][/\ ReturnFromWrite => (ret' = 0 <=> device.answers /\ device.took = tx /\ ~device.disturbed)
       /\ ReturnFromRead => /\ rx' = device.gave /\ ret' = Len(rx')
                            /\ (device.answers /\ ~device.disturbed => ret' = ret)]_twiVars

\* No call hangs as long as the hardware reports.
CallsReturn == (call # "none") ~> (call = "none")

=============================================================================
