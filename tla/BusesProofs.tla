---------------------------- MODULE BusesProofs ----------------------------
(***************************************************************************)
(* What holds of TwoWire, as a master and as a slave, for buffers of any   *)
(* length and all messages, addresses and disturbances, and of the SD      *)
(* driver for any timeouts, clock width and number of exchanges.           *)
(***************************************************************************)
EXTENDS Buses, TLAPS

-----------------------------------------------------------------------------
(* The master *)

Addressed == [answers : BOOLEAN, took : Seq(Byte), gave : Seq(Byte), disturbed : BOOLEAN]

\* In endTransmission the device has taken what stands before index; when it is over the
\* error tells the truth.
WriteInv ==
    call = "write" =>
        /\ slarw[2] = "W" /\ buffer = tx /\ length = Len(tx) /\ state \in {"READY", "MTX"}
        /\ state = "READY" =>
             (error = "none" <=> device.answers /\ device.took = tx /\ ~device.disturbed)
        /\ state = "MTX" =>
             /\ bus \in {"start", "address", "send"} /\ ~inRepStart
             /\ error = "none" /\ ~device.disturbed
             /\ bus # "send" => ~device.answers /\ device.took = <<>> /\ index = 0
             /\ bus = "send" => /\ device.answers /\ index \in 1..Len(tx)
                                /\ device.took = SubSeq(tx, 1, index - 1)

\* In requestFrom the buffer holds what the device has given, and the next byte is
\* acknowledged if it is not the last.
ReadInv ==
    call = "read" =>
        /\ slarw[2] = "R" /\ state \in {"READY", "MRX"}
        /\ device.gave = buffer /\ index = Len(buffer)
        /\ ret = length + 1 /\ ret <= BufferLength /\ index <= ret
        /\ state = "READY" => (device.answers /\ ~device.disturbed => index = ret)
        /\ state = "MRX" =>
             /\ bus \in {"start", "address", "receive"} /\ ~inRepStart /\ ~device.disturbed
             /\ bus # "receive" => ~device.answers /\ index = 0
             /\ bus = "receive" => index <= length /\ ack = (index < length)

CallInv ==
    /\ call = "none" => state = "READY"
    /\ state = "READY" => bus = IF inRepStart THEN "held" ELSE "free"

TypesInv ==
    /\ tx \in Seq(Byte) /\ rx \in Seq(Byte) /\ buffer \in Seq(Byte)
    /\ Len(tx) <= BufferLength /\ Len(rx) <= BufferLength /\ Len(buffer) <= BufferLength
    /\ rxIndex \in 0 .. Len(rx)
    /\ state \in {"READY", "MTX", "MRX"}
    /\ error \in {"none", "MT_SLA_NACK", "MT_DATA_NACK", "MT_ARB_LOST", "BUS_ERROR"}
    /\ transmitting \in BOOLEAN /\ inRepStart \in BOOLEAN /\ sendStop \in BOOLEAN
    /\ ack \in BOOLEAN
    /\ bus \in {"free", "start", "address", "send", "receive", "held"}
    /\ call \in {"none", "write", "read"}
    /\ index \in 0 .. BufferLength /\ length \in 0 .. BufferLength
    /\ device \in Addressed

MasterInv == TypesInv /\ WriteInv /\ ReadInv /\ CallInv


LEMMA SequenceFacts ==
    ASSUME NEW S, NEW s \in Seq(S)
    PROVE  /\ SubSeq(s, 1, Len(s)) = s
           /\ SubSeq(s, 1, 0) = <<>>
           /\ \A i \in 1..Len(s) :
                /\ Append(SubSeq(s, 1, i - 1), s[i]) = SubSeq(s, 1, i)
                /\ Len(SubSeq(s, 1, i)) = i
                /\ SubSeq(s, 1, i - 1) # s
OBVIOUS

LEMMA Answers ==
    ASSUME NEW d \in Addressed, NEW e, e = [d EXCEPT !.answers = TRUE]
    PROVE  /\ e \in Addressed
           /\ e.answers /\ e.took = d.took /\ e.gave = d.gave /\ e.disturbed = d.disturbed
BY DEF Addressed

LEMMA IsDisturbed ==
    ASSUME NEW d \in Addressed, NEW e, e = [d EXCEPT !.disturbed = TRUE]
    PROVE  /\ e \in Addressed
           /\ e.answers = d.answers /\ e.took = d.took /\ e.gave = d.gave /\ e.disturbed
BY DEF Addressed

LEMMA Takes ==
    ASSUME NEW d \in Addressed, NEW b \in Byte, NEW e, e = [d EXCEPT !.took = Append(@, b)]
    PROVE  /\ e \in Addressed
           /\ e.answers = d.answers /\ e.took = Append(d.took, b) /\ e.gave = d.gave
           /\ e.disturbed = d.disturbed
<1>1. Append(d.took, b) \in Seq(Byte)  BY DEF Addressed
<1>2. e = [d EXCEPT !.took = Append(d.took, b)]  BY DEF Addressed
<1> DEFINE s == Append(d.took, b)
<1> HIDE DEF s
<1>3. s \in Seq(Byte) /\ e = [d EXCEPT !.took = s]  BY <1>1, <1>2 DEF s
<1>4. /\ e \in Addressed /\ e.answers = d.answers /\ e.took = s /\ e.gave = d.gave
      /\ e.disturbed = d.disturbed
    BY <1>3 DEF Addressed
<1>5. QED  BY <1>4 DEF s

LEMMA Gives ==
    ASSUME NEW d \in Addressed, NEW b \in Byte, NEW e, e = [d EXCEPT !.gave = Append(@, b)]
    PROVE  /\ e \in Addressed
           /\ e.answers = d.answers /\ e.took = d.took /\ e.gave = Append(d.gave, b)
           /\ e.disturbed = d.disturbed
<1>1. Append(d.gave, b) \in Seq(Byte)  BY DEF Addressed
<1>2. e = [d EXCEPT !.gave = Append(d.gave, b)]  BY DEF Addressed
<1> DEFINE s == Append(d.gave, b)
<1> HIDE DEF s
<1>3. s \in Seq(Byte) /\ e = [d EXCEPT !.gave = s]  BY <1>1, <1>2 DEF s
<1>4. /\ e \in Addressed /\ e.answers = d.answers /\ e.took = d.took /\ e.gave = s
      /\ e.disturbed = d.disturbed
    BY <1>3 DEF Addressed
<1>5. QED  BY <1>4 DEF s

LEMMA EmptyIs == <<>> \in Seq(Byte) /\ Len(<<>>) = 0
OBVIOUS

LEMMA UntouchedIs ==
    /\ Untouched \in Addressed
    /\ ~Untouched.answers /\ ~Untouched.disturbed
    /\ Untouched.took = <<>> /\ Untouched.gave = <<>>
BY DEF Untouched, Addressed

LEMMA MasterInit == ASSUME TwiInit PROVE MasterInv
<1>1. BufferLength \in Nat /\ BufferLength > 0  BY TwiAssumption
<1>2. transmitting \in BOOLEAN /\ inRepStart \in BOOLEAN /\ sendStop \in BOOLEAN /\ ack \in BOOLEAN
      /\ ~inRepStart
    BY Zenon DEF TwiInit
<1>3. TypesInv  BY <1>1, <1>2, EmptyIs, UntouchedIs DEF TwiInit, TypesInv
<1>4. WriteInv /\ ReadInv /\ CallInv  BY <1>2 DEF TwiInit, WriteInv, ReadInv, CallInv
<1>5. QED  BY <1>3, <1>4 DEF MasterInv

\* The program's own variables change between two calls only.
LEMMA MasterWire ==
    ASSUME MasterInv, call = "none",
           UNCHANGED <<twi, bus, ack, call, ret, device>>,
           tx' \in Seq(Byte), Len(tx') <= BufferLength, transmitting' \in BOOLEAN,
           rx' = rx, rxIndex' \in 0 .. Len(rx)
    PROVE  MasterInv'
<1>1. UNCHANGED <<state, error, inRepStart, sendStop, slarw, buffer, index, length, bus, ack,
                  call, ret, device>>
    BY DEF twi
<1>2. TypesInv'  BY <1>1, EmptyIs, UntouchedIs DEF MasterInv, TypesInv
<1>3. CallInv'  BY <1>1 DEF MasterInv, CallInv
<1>4. WriteInv' /\ ReadInv'  BY <1>1 DEF WriteInv, ReadInv
<1>5. QED  BY <1>2, <1>3, <1>4 DEF MasterInv

LEMMA MasterEndTransmission ==
    ASSUME MasterInv, NEW stop \in BOOLEAN, EndTransmission(stop) PROVE MasterInv'
<1> USE TwiAssumption
<1>1. /\ call = "none" /\ call' = "write" /\ state' = "MTX"
      /\ buffer' = tx /\ length' = Len(tx) /\ index' = 0 /\ error' = "none"
      /\ sendStop' = stop /\ inRepStart' = FALSE /\ ack' = TRUE /\ device' = Untouched
      /\ slarw'[2] = "W" /\ bus' \in {"start", "address"}
      /\ UNCHANGED <<tx, transmitting, rx, rxIndex>>
    BY DEF EndTransmission, StartTransaction, wire
<1>2. inRepStart' \in BOOLEAN /\ ~inRepStart' /\ sendStop' \in BOOLEAN /\ ack' \in BOOLEAN
    BY <1>1, Zenon
<1>3. TypesInv'  BY <1>1, <1>2, EmptyIs, UntouchedIs DEF MasterInv, TypesInv
<1>4. CallInv'  BY <1>1, UntouchedIs DEF CallInv
<1>5. WriteInv'  BY <1>1, <1>2, UntouchedIs DEF WriteInv
<1>6. ReadInv'  BY <1>1 DEF ReadInv
<1>7. QED  BY <1>3, <1>4, <1>5, <1>6 DEF MasterInv

LEMMA MasterRequestFrom ==
    ASSUME MasterInv, NEW a, NEW q \in 1 .. MaxQuantity, NEW stop \in BOOLEAN,
           RequestFrom(a, q, stop)
    PROVE  MasterInv'
<1> DEFINE r == IF q > BufferLength THEN BufferLength ELSE q
<1>1. r \in 1 .. BufferLength  BY TwiAssumption
<1> HIDE DEF r
<1>2. /\ call = "none" /\ call' = "read" /\ state' = "MRX"
      /\ buffer' = <<>> /\ length' = r - 1 /\ ret' = r /\ index' = 0 /\ error' = "none"
      /\ sendStop' = stop /\ inRepStart' = FALSE /\ ack' = TRUE /\ device' = Untouched
      /\ slarw'[2] = "R" /\ bus' \in {"start", "address"}
      /\ UNCHANGED <<tx, transmitting, rx, rxIndex>>
    BY DEF RequestFrom, StartTransaction, wire, r
<1>3. inRepStart' \in BOOLEAN /\ ~inRepStart' /\ sendStop' \in BOOLEAN /\ ack' \in BOOLEAN
    BY <1>2, Zenon
<1>4. TypesInv'  BY <1>1, <1>2, <1>3, EmptyIs, UntouchedIs, TwiAssumption DEF MasterInv, TypesInv
<1>5. CallInv'  BY <1>2, UntouchedIs DEF CallInv
<1>6. ReadInv'
    <2>1. Len(buffer') = 0 /\ device'.gave = buffer'  BY <1>2, EmptyIs, UntouchedIs
    <2>2. ~device'.answers /\ ~device'.disturbed  BY <1>2, UntouchedIs
    <2>3. r \in Nat /\ BufferLength \in Nat /\ r <= BufferLength  BY <1>1, TwiAssumption
    <2>4. ret' = length' + 1 /\ ret' <= BufferLength /\ index' <= ret' /\ index' = Len(buffer')
        BY <1>2, <2>1, <2>3
    <2>5. bus' # "receive" /\ state' # "READY"  BY <1>2
    <2>6. QED  BY <1>2, <1>3, <2>1, <2>2, <2>4, <2>5 DEF ReadInv
<1>7. WriteInv'  BY <1>2 DEF WriteInv
<1>8. QED  BY <1>4, <1>5, <1>6, <1>7 DEF MasterInv

LEMMA MasterReturnFromWrite == ASSUME MasterInv, ReturnFromWrite PROVE MasterInv'
<1>1. /\ call = "write" /\ state # "MTX" /\ call' = "none" /\ tx' = <<>>
      /\ transmitting' = FALSE /\ device' = Untouched
      /\ UNCHANGED <<rx, rxIndex, state, error, inRepStart, sendStop, buffer, index, length,
                     bus, ack>>
    BY DEF ReturnFromWrite, twi
<1>2. state = "READY"  BY <1>1 DEF MasterInv, WriteInv
<1>3. transmitting' \in BOOLEAN  BY <1>1, Zenon
<1>4. TypesInv'  BY <1>1, <1>3, EmptyIs, UntouchedIs, TwiAssumption DEF MasterInv, TypesInv
<1>5. CallInv'  BY <1>1, <1>2 DEF MasterInv, CallInv
<1>6. WriteInv' /\ ReadInv'  BY <1>1 DEF WriteInv, ReadInv
<1>7. QED  BY <1>4, <1>5, <1>6 DEF MasterInv

\* What requestFrom returns is what the device gave.
LEMMA Received ==
    ASSUME MasterInv, ReturnFromRead
    PROVE  /\ state = "READY" /\ rx' = buffer /\ rx' = device.gave
           /\ ret' = index /\ ret' = Len(rx')
<1>1. call = "read" /\ state # "MRX"  BY DEF ReturnFromRead
<1>2. /\ state = "READY" /\ device.gave = buffer /\ index = Len(buffer) /\ index <= ret
      /\ ret = length + 1 /\ length \in Nat
    BY <1>1 DEF MasterInv, TypesInv, ReadInv
<1>3. buffer \in Seq(Byte)  BY DEF MasterInv, TypesInv
<1>4. (IF index < ret THEN index ELSE ret) = Len(buffer)  BY <1>2, <1>3
<1>5. rx' = SubSeq(buffer, 1, Len(buffer)) /\ ret' = Len(buffer)
    BY <1>4 DEF ReturnFromRead
<1>6. rx' = buffer  BY <1>3, <1>5, SequenceFacts
<1>7. QED  BY <1>2, <1>5, <1>6

LEMMA MasterReturnFromRead == ASSUME MasterInv, ReturnFromRead PROVE MasterInv'
<1>1. /\ call = "read" /\ call' = "none" /\ rxIndex' = 0 /\ device' = Untouched
      /\ UNCHANGED <<tx, transmitting, state, error, inRepStart, sendStop, buffer, index, length,
                     bus, ack>>
    BY DEF ReturnFromRead, twi
<1>2. state = "READY" /\ rx' = buffer  BY Received
<1>3. TypesInv'  BY <1>1, <1>2, EmptyIs, UntouchedIs, TwiAssumption DEF MasterInv, TypesInv
<1>4. CallInv'  BY <1>1, <1>2 DEF MasterInv, CallInv
<1>5. WriteInv' /\ ReadInv'  BY <1>1 DEF WriteInv, ReadInv
<1>6. QED  BY <1>3, <1>4, <1>5 DEF MasterInv

-----------------------------------------------------------------------------
(* The interrupt handler *)

Waited == UNCHANGED <<wire, sendStop, slarw, length, call, ret>>

\* Something goes on on the bus only for a call.
LEMMA BusyBus ==
    ASSUME MasterInv, bus \in {"start", "address", "send", "receive"}
    PROVE  \/ call = "write" /\ state = "MTX"
           \/ call = "read" /\ state = "MRX"
<1>1. state # "READY"  BY DEF MasterInv, CallInv
<1>2. QED  BY <1>1 DEF MasterInv, TypesInv, CallInv, WriteInv, ReadInv

LEMMA SendingCall ==
    ASSUME MasterInv, bus \in {"start", "address", "send"}, slarw[2] = "W"
    PROVE  /\ call = "write" /\ state = "MTX" /\ buffer = tx /\ length = Len(tx)
           /\ ~inRepStart /\ error = "none" /\ ~device.disturbed
           /\ bus # "send" => ~device.answers /\ device.took = <<>> /\ index = 0
           /\ bus = "send" => /\ device.answers /\ index \in 1..Len(tx)
                              /\ device.took = SubSeq(tx, 1, index - 1)
<1>1. call = "write" /\ state = "MTX"  BY BusyBus DEF MasterInv, ReadInv
<1>2. QED  BY <1>1 DEF MasterInv, WriteInv

LEMMA ReceivingCall ==
    ASSUME MasterInv, bus \in {"start", "address", "receive"}, slarw[2] # "W"
    PROVE  /\ call = "read" /\ state = "MRX" /\ slarw[2] = "R"
           /\ device.gave = buffer /\ index = Len(buffer)
           /\ ret = length + 1 /\ ret <= BufferLength /\ index <= ret
           /\ ~inRepStart /\ ~device.disturbed
           /\ bus # "receive" => ~device.answers /\ index = 0
           /\ bus = "receive" => index <= length /\ ack = (index < length)
<1>1. call = "read" /\ state = "MRX"  BY BusyBus DEF MasterInv, WriteInv
<1>2. QED  BY <1>1 DEF MasterInv, ReadInv

\* What an event has to leave behind.
LEMMA MasterEvent ==
    ASSUME MasterInv, Waited, call # "none",
           error' \in {"none", "MT_SLA_NACK", "MT_DATA_NACK", "MT_ARB_LOST", "BUS_ERROR"},
           state' \in {"READY", state},
           state' = "READY" => bus' = IF inRepStart' THEN "held" ELSE "free",
           bus' \in {"free", "start", "address", "send", "receive", "held"},
           inRepStart' \in BOOLEAN, ack' \in BOOLEAN,
           buffer' \in Seq(Byte), Len(buffer') <= BufferLength, index' \in 0 .. BufferLength,
           device' \in Addressed, WriteInv', ReadInv'
    PROVE  MasterInv'
<1>1. UNCHANGED <<tx, rx, rxIndex, transmitting, sendStop, length, call>>  BY DEF Waited, wire
<1>2. TypesInv'
    <2>1. state' \in {"READY", "MTX", "MRX"}  BY DEF MasterInv, TypesInv
    <2>2. QED  BY <1>1, <2>1 DEF MasterInv, TypesInv
<1>3. CallInv'  BY <1>1 DEF CallInv
<1>4. QED  BY <1>2, <1>3 DEF MasterInv

\* A call that writes ends: the error must tell the truth.
LEMMA WriteOver ==
    ASSUME MasterInv, Waited, call = "write",
           state' = "READY", bus' = IF inRepStart' THEN "held" ELSE "free",
           error' \in {"none", "MT_SLA_NACK", "MT_DATA_NACK", "MT_ARB_LOST", "BUS_ERROR"},
           inRepStart' \in BOOLEAN, UNCHANGED <<ack, buffer>>, index' \in 0 .. BufferLength,
           device' \in Addressed,
           error' = "none" <=> device'.answers /\ device'.took = tx /\ ~device'.disturbed
    PROVE  MasterInv'
<1>1. UNCHANGED <<tx, slarw, length, call>>  BY DEF Waited, wire
<1>2. WriteInv'
    <2>1. slarw[2] = "W" /\ buffer = tx /\ length = Len(tx)  BY DEF MasterInv, WriteInv
    <2>2. QED  BY <1>1, <2>1 DEF WriteInv
<1>3. ReadInv'  BY <1>1 DEF ReadInv
<1>4. /\ ack \in BOOLEAN /\ buffer \in Seq(Byte) /\ Len(buffer) <= BufferLength
      /\ bus' \in {"free", "held"}
    BY DEF MasterInv, TypesInv
<1>5. QED  BY <1>2, <1>3, <1>4, MasterEvent

\* A call that reads ends: nothing is missing unless the device did not answer or was
\* disturbed.
LEMMA ReadOver ==
    ASSUME MasterInv, Waited, call = "read",
           state' = "READY", bus' = IF inRepStart' THEN "held" ELSE "free",
           error' \in {"none", "MT_SLA_NACK", "MT_DATA_NACK", "MT_ARB_LOST", "BUS_ERROR"},
           inRepStart' \in BOOLEAN, ack' = ack,
           buffer' \in Seq(Byte), index' = Len(buffer'), index' <= ret,
           device' \in Addressed, device'.gave = buffer',
           device'.answers /\ ~device'.disturbed => index' = ret
    PROVE  MasterInv'
<1>1. UNCHANGED <<slarw, length, call, ret>>  BY DEF Waited
<1>2. slarw[2] = "R" /\ ret = length + 1 /\ ret <= BufferLength  BY DEF MasterInv, ReadInv
<1>3. ReadInv'  BY <1>1, <1>2 DEF ReadInv
<1>4. WriteInv'  BY <1>1 DEF WriteInv
<1>5. ack' \in BOOLEAN /\ bus' \in {"free", "held"}  BY DEF MasterInv, TypesInv
<1>6. BufferLength \in Nat /\ length \in Nat  BY TwiAssumption DEF MasterInv, TypesInv
<1>7. index' \in 0 .. BufferLength /\ Len(buffer') <= BufferLength  BY <1>2, <1>6
<1>8. QED  BY <1>3, <1>4, <1>5, <1>7, MasterEvent

\* The last byte is through: in any case the bus is left or held.
LEMMA FinishLeaves ==
    ASSUME MasterInv, ~inRepStart, Finish
    PROVE  /\ state' = "READY" /\ inRepStart' \in BOOLEAN
           /\ bus' = IF inRepStart' THEN "held" ELSE "free"
<1>1. CASE sendStop
    <2>1. state' = "READY" /\ bus' = "free" /\ inRepStart' = inRepStart
        BY <1>1 DEF Finish, Stop
    <2>2. QED  BY <2>1 DEF MasterInv, TypesInv
<1>2. CASE ~sendStop
    <2>1. inRepStart' = TRUE /\ state' = "READY" /\ bus' = "held"  BY <1>2 DEF Finish
    <2>2. QED  BY <2>1, Zenon
<1>3. QED  BY <1>1, <1>2

LEMMA MasterStartSent == ASSUME MasterInv, StartSent, Waited PROVE MasterInv'
<1>1. /\ bus = "start" /\ bus' = "address" /\ ack' = TRUE
      /\ UNCHANGED <<state, error, inRepStart, buffer, index, device>>
    BY DEF StartSent
<1>2. UNCHANGED <<tx, slarw, length, call, ret>>  BY DEF Waited, wire
<1>3. ack' \in BOOLEAN  BY <1>1, Zenon
<1>4. state # "READY" /\ call # "none"  BY <1>1, BusyBus
<1>5. WriteInv'  BY <1>1, <1>2, <1>4 DEF MasterInv, WriteInv
<1>6. ReadInv'  BY <1>1, <1>2, <1>4 DEF MasterInv, ReadInv
<1>7. QED  BY <1>1, <1>3, <1>4, <1>5, <1>6, MasterEvent DEF MasterInv, TypesInv

\* The next byte goes out, or none is left and the call is over.
LEMMA MasterSendNext ==
    ASSUME MasterInv, Waited, bus \in {"address", "send"}, slarw[2] = "W", SendNext,
           index <= length,
           device' \in Addressed, device'.answers, ~device'.disturbed,
           device'.took = SubSeq(tx, 1, index)
    PROVE  MasterInv'
<1>1. /\ call = "write" /\ state = "MTX" /\ buffer = tx /\ length = Len(tx)
      /\ ~inRepStart /\ error = "none"
    BY SendingCall
<1>2. UNCHANGED <<tx, slarw, length, call, ret>>  BY DEF Waited, wire
<1>3. UNCHANGED <<ack, buffer, error>>  BY DEF SendNext
<1>4. /\ tx \in Seq(Byte) /\ index \in Nat /\ length \in Nat /\ length <= BufferLength
      /\ BufferLength \in Nat
    BY TwiAssumption DEF MasterInv, TypesInv
<1>5. CASE index < length
    <2>1. index' = index + 1 /\ bus' = "send" /\ UNCHANGED <<state, inRepStart>>
        BY <1>5 DEF SendNext
    <2>2. index' \in 1 .. Len(tx) /\ index' - 1 = index /\ index' \in 0 .. BufferLength
        BY <1>1, <1>4, <1>5, <2>1
    <2>3. device'.took = SubSeq(tx, 1, index' - 1)  BY <2>2
    <2>4. WriteInv'
        <3>1. slarw[2] = "W"  OBVIOUS
        <3>2. QED  BY <1>1, <1>2, <1>3, <2>1, <2>2, <2>3, <3>1 DEF WriteInv
    <2>5. ReadInv'  BY <1>1, <1>2 DEF ReadInv
    <2>6. QED  BY <1>1, <1>3, <2>1, <2>2, <2>4, <2>5, MasterEvent DEF MasterInv, TypesInv
<1>6. CASE ~(index < length)
    <2>1. Finish /\ index' = index  BY <1>6 DEF SendNext
    <2>2. /\ state' = "READY" /\ inRepStart' \in BOOLEAN
          /\ bus' = IF inRepStart' THEN "held" ELSE "free"
        BY <1>1, <2>1, FinishLeaves
    <2>3. index = Len(tx)  BY <1>1, <1>4, <1>6
    <2>4. device'.took = tx  BY <1>4, <2>3, SequenceFacts
    <2>5. index' \in 0 .. BufferLength /\ error' = "none"  BY <1>1, <1>3, <1>4, <2>1
    <2>6. QED  BY <1>1, <1>3, <2>2, <2>4, <2>5, WriteOver
<1>7. QED  BY <1>5, <1>6

LEMMA MasterAddressAcked == ASSUME MasterInv, AddressAcked, Waited PROVE MasterInv'
<1>1. bus = "address" /\ device' = [device EXCEPT !.answers = TRUE]  BY DEF AddressAcked
<1>2. /\ device' \in Addressed /\ device'.answers /\ device'.took = device.took
      /\ device'.gave = device.gave /\ device'.disturbed = device.disturbed
    BY <1>1, Answers DEF MasterInv, TypesInv
<1>3. CASE slarw[2] = "W"
    <2>1. ~device.disturbed /\ device.took = <<>> /\ index = 0 /\ length = Len(tx)
        BY <1>1, <1>3, SendingCall
    <2>2. tx \in Seq(Byte)  BY DEF MasterInv, TypesInv
    <2>3. device'.took = SubSeq(tx, 1, index)  BY <1>2, <2>1, <2>2, SequenceFacts
    <2>4. index <= length  BY <2>1, <2>2
    <2>5. SendNext  BY <1>3 DEF AddressAcked
    <2>6. QED  BY <1>1, <1>2, <1>3, <2>1, <2>3, <2>4, <2>5, MasterSendNext
<1>4. CASE slarw[2] # "W"
    <2>1. /\ call = "read" /\ state = "MRX" /\ slarw[2] = "R"
          /\ device.gave = buffer /\ index = Len(buffer)
          /\ ret = length + 1 /\ ret <= BufferLength /\ index <= ret
          /\ ~inRepStart /\ ~device.disturbed /\ index = 0
        BY <1>1, <1>4, ReceivingCall
    <2>2. /\ index' = index /\ ack' = (index' < length) /\ bus' = "receive"
          /\ UNCHANGED <<state, error, inRepStart, buffer>>
        BY <1>4 DEF AddressAcked, AckNext
    <2>3. UNCHANGED <<slarw, length, call, ret>>  BY DEF Waited
    <2>4. length \in Nat  BY DEF MasterInv, TypesInv
    <2>5. ack' \in BOOLEAN
        <3>1. (index' < length) \in BOOLEAN  OBVIOUS
        <3>2. QED  BY <2>2, <3>1, Zenon
    <2>6. ack' = (index' < length')  BY <2>2, <2>3
    <2>7. index' <= length'  BY <2>1, <2>2, <2>3, <2>4
    <2>8. ReadInv'  BY <1>2, <2>1, <2>2, <2>3, <2>6, <2>7 DEF ReadInv
    <2>9. WriteInv'  BY <2>1, <2>3 DEF WriteInv
    <2>10. QED  BY <1>2, <2>1, <2>2, <2>5, <2>8, <2>9, MasterEvent DEF MasterInv, TypesInv
<1>5. QED  BY <1>3, <1>4

\* What Failed does, whatever has failed.
LEMMA FailedLeaves ==
    ASSUME NEW e, Failed(e)
    PROVE  /\ error' = e /\ state' = "READY" /\ bus' = "free"
           /\ UNCHANGED <<inRepStart, ack, buffer, index>>
BY DEF Failed, Stop

LEMMA MasterAddressNacked == ASSUME MasterInv, AddressNacked, Waited PROVE MasterInv'
<1>1. bus = "address" /\ device' = device  BY DEF AddressNacked
<1>2. device \in Addressed /\ index \in 0 .. BufferLength /\ buffer \in Seq(Byte)
      /\ inRepStart \in BOOLEAN
    BY DEF MasterInv, TypesInv
<1>3. CASE slarw[2] = "W"
    <2>1. Failed("MT_SLA_NACK")  BY <1>3 DEF AddressNacked
    <2>2. call = "write" /\ ~inRepStart /\ ~device.answers  BY <1>1, <1>3, SendingCall
    <2>3. /\ error' = "MT_SLA_NACK" /\ state' = "READY" /\ bus' = "free"
          /\ UNCHANGED <<inRepStart, ack, buffer, index>>
        BY <2>1, FailedLeaves
    <2>4. QED  BY <1>1, <1>2, <2>2, <2>3, WriteOver
<1>4. CASE slarw[2] # "W"
    <2>1. Failed(error)  BY <1>4 DEF AddressNacked
    <2>2. /\ call = "read" /\ ~inRepStart /\ ~device.answers
          /\ device.gave = buffer /\ index = Len(buffer) /\ index <= ret
        BY <1>1, <1>4, ReceivingCall
    <2>3. /\ error' = error /\ state' = "READY" /\ bus' = "free"
          /\ UNCHANGED <<inRepStart, ack, buffer, index>>
        BY <2>1, FailedLeaves
    <2>4. error' \in {"none", "MT_SLA_NACK", "MT_DATA_NACK", "MT_ARB_LOST", "BUS_ERROR"}
        BY <2>3 DEF MasterInv, TypesInv
    <2>5. QED  BY <1>1, <1>2, <2>2, <2>3, <2>4, ReadOver
<1>5. QED  BY <1>3, <1>4

\* Bytes go out only in a call that writes.
LEMMA SendsForWrite ==
    ASSUME MasterInv, bus = "send" PROVE slarw[2] = "W"
<1>1. call = "write"  BY BusyBus DEF MasterInv, ReadInv
<1>2. QED  BY <1>1 DEF MasterInv, WriteInv

LEMMA MasterByteAcked == ASSUME MasterInv, ByteAcked, Waited PROVE MasterInv'
<1>1. bus = "send" /\ device' = [device EXCEPT !.took = Append(@, buffer[index])] /\ SendNext
    BY DEF ByteAcked
<1>2. slarw[2] = "W"  BY <1>1, SendsForWrite
<1>3. /\ buffer = tx /\ length = Len(tx) /\ ~device.disturbed /\ device.answers
      /\ index \in 1..Len(tx) /\ device.took = SubSeq(tx, 1, index - 1)
    BY <1>1, <1>2, SendingCall
<1>4. tx \in Seq(Byte) /\ device \in Addressed  BY DEF MasterInv, TypesInv
<1>5. tx[index] \in Byte  BY <1>3, <1>4
<1>6. device' = [device EXCEPT !.took = Append(@, tx[index])]  BY <1>1, <1>3
<1>7. /\ device' \in Addressed /\ device'.answers = device.answers
      /\ device'.took = Append(device.took, tx[index])
      /\ device'.disturbed = device.disturbed
    BY <1>4, <1>5, <1>6, Takes
<1>8. device'.took = SubSeq(tx, 1, index)  BY <1>3, <1>4, <1>7, SequenceFacts
<1>9. index <= length  BY <1>3, <1>4
<1>10. QED  BY <1>1, <1>2, <1>3, <1>7, <1>8, <1>9, MasterSendNext

LEMMA MasterByteNacked == ASSUME MasterInv, ByteNacked, Waited PROVE MasterInv'
<1>1. bus = "send" /\ Failed("MT_DATA_NACK") /\ device' = device  BY DEF ByteNacked
<1>2. slarw[2] = "W"  BY <1>1, SendsForWrite
<1>3. /\ call = "write" /\ ~inRepStart /\ index \in 1..Len(tx)
      /\ device.took = SubSeq(tx, 1, index - 1)
    BY <1>1, <1>2, SendingCall
<1>4. tx \in Seq(Byte) /\ device \in Addressed /\ inRepStart \in BOOLEAN
      /\ index \in 0 .. BufferLength
    BY DEF MasterInv, TypesInv
<1>5. device.took # tx  BY <1>3, <1>4, SequenceFacts
<1>6. /\ error' = "MT_DATA_NACK" /\ state' = "READY" /\ bus' = "free"
      /\ UNCHANGED <<inRepStart, ack, buffer, index>>
    BY <1>1, FailedLeaves
<1>7. QED  BY <1>1, <1>3, <1>4, <1>5, <1>6, WriteOver

LEMMA MasterByteReceived ==
    ASSUME MasterInv, NEW b \in Byte, ByteReceived(b), Waited PROVE MasterInv'
<1>1. /\ bus = "receive" /\ device' = [device EXCEPT !.gave = Append(@, b)]
      /\ buffer' = Append(buffer, b) /\ index' = index + 1 /\ error' = error
    BY DEF ByteReceived
<1>2. slarw[2] # "W"
    <2>1. call = "read"  BY <1>1, BusyBus DEF MasterInv, WriteInv
    <2>2. QED  BY <2>1 DEF MasterInv, ReadInv
<1>3. /\ call = "read" /\ state = "MRX" /\ slarw[2] = "R"
      /\ device.gave = buffer /\ index = Len(buffer)
      /\ ret = length + 1 /\ ret <= BufferLength
      /\ ~inRepStart /\ ~device.disturbed /\ index <= length /\ ack = (index < length)
    BY <1>1, <1>2, ReceivingCall
<1>4. /\ buffer \in Seq(Byte) /\ device \in Addressed /\ length \in Nat /\ index \in Nat
      /\ BufferLength \in Nat
      /\ error \in {"none", "MT_SLA_NACK", "MT_DATA_NACK", "MT_ARB_LOST", "BUS_ERROR"}
    BY TwiAssumption DEF MasterInv, TypesInv
<1>5. /\ device' \in Addressed /\ device'.gave = Append(device.gave, b)
      /\ device'.disturbed = device.disturbed
    BY <1>1, <1>4, Gives
<1>6. /\ buffer' \in Seq(Byte) /\ index' = Len(buffer') /\ device'.gave = buffer'
      /\ ~device'.disturbed
    BY <1>1, <1>3, <1>4, <1>5
<1>7. UNCHANGED <<slarw, length, call, ret>>  BY DEF Waited
<1>8. CASE ack
    <2>1. ack' = (index' < length) /\ bus' = "receive" /\ UNCHANGED <<state, inRepStart>>
        BY <1>8 DEF ByteReceived, AckNext
    <2>2. index < length  BY <1>3, <1>8
    <2>3. index' <= length /\ index' \in 0 .. BufferLength /\ index' <= ret
          /\ Len(buffer') <= BufferLength
        BY <1>1, <1>3, <1>4, <1>6, <2>2
    <2>4. ack' \in BOOLEAN
        <3>1. (index' < length) \in BOOLEAN  OBVIOUS
        <3>2. QED  BY <2>1, <3>1, Zenon
    <2>5. ack' = (index' < length')  BY <1>7, <2>1
    <2>6. ReadInv'  BY <1>3, <1>6, <1>7, <2>1, <2>3, <2>5 DEF ReadInv
    <2>7. WriteInv'  BY <1>3, <1>7 DEF WriteInv
    <2>8. QED  BY <1>1, <1>3, <1>4, <1>5, <1>6, <2>1, <2>3, <2>4, <2>6, <2>7, MasterEvent
               DEF MasterInv, TypesInv
<1>9. CASE ~ack
    <2>1. Finish /\ ack' = ack  BY <1>9 DEF ByteReceived
    <2>2. /\ state' = "READY" /\ inRepStart' \in BOOLEAN
          /\ bus' = IF inRepStart' THEN "held" ELSE "free"
        BY <1>3, <2>1, FinishLeaves
    <2>3. ~(index < length)  BY <1>3, <1>9
    <2>4. index' = ret  BY <1>1, <1>3, <1>4, <2>3
    <2>5. index' <= ret  BY <1>1, <1>4, <2>4
    <2>6. QED  BY <1>1, <1>3, <1>4, <1>5, <1>6, <2>1, <2>2, <2>4, <2>5, ReadOver
<1>10. QED  BY <1>8, <1>9

LEMMA MasterDisturbed == ASSUME MasterInv, Disturbed, Waited PROVE MasterInv'
<1>1. /\ bus \in {"start", "address", "send", "receive"}
      /\ device' = [device EXCEPT !.disturbed = TRUE]
      /\ Failed("MT_ARB_LOST") \/ Failed("BUS_ERROR")
    BY DEF Disturbed
<1>2. /\ device' \in Addressed /\ device'.gave = device.gave /\ device'.disturbed
    BY <1>1, IsDisturbed DEF MasterInv, TypesInv
<1>3. /\ error' \in {"MT_ARB_LOST", "BUS_ERROR"} /\ state' = "READY" /\ bus' = "free"
      /\ UNCHANGED <<inRepStart, ack, buffer, index>>
    BY <1>1, FailedLeaves
<1>4. /\ inRepStart \in BOOLEAN /\ buffer \in Seq(Byte) /\ index \in 0 .. BufferLength
    BY DEF MasterInv, TypesInv
<1>5. CASE call = "write" /\ state = "MTX"
    <2>1. ~inRepStart  BY <1>5 DEF MasterInv, WriteInv
    <2>2. QED  BY <1>2, <1>3, <1>4, <1>5, <2>1, WriteOver
<1>6. CASE call = "read" /\ state = "MRX"
    <2>1. /\ ~inRepStart /\ device.gave = buffer /\ index = Len(buffer) /\ index <= ret
        BY <1>6 DEF MasterInv, ReadInv
    <2>2. QED  BY <1>2, <1>3, <1>4, <1>6, <2>1, ReadOver
<1>7. QED  BY <1>1, <1>5, <1>6, BusyBus

LEMMA MasterNext == ASSUME MasterInv, TwiNext PROVE MasterInv'
<1>1. CASE Interrupt
    <2>1. Waited /\ Event  BY <1>1 DEF Interrupt, Waited
    <2>2. QED
        BY <2>1, MasterStartSent, MasterAddressAcked, MasterAddressNacked, MasterByteAcked,
           MasterByteNacked, MasterByteReceived, MasterDisturbed DEF Event
<1>2. ASSUME NEW a \in Address, BeginTransmission(a) PROVE MasterInv'
    <2>1. /\ call = "none" /\ transmitting' = TRUE /\ tx' = <<>>
          /\ UNCHANGED <<rx, rxIndex, twi, bus, ack, call, ret, device>>
        BY <1>2 DEF BeginTransmission
    <2>2. transmitting' \in BOOLEAN  BY <2>1, Zenon
    <2>3. tx' \in Seq(Byte) /\ Len(tx') <= BufferLength  BY <2>1, EmptyIs, TwiAssumption
    <2>4. rxIndex' \in 0 .. Len(rx)  BY <2>1 DEF MasterInv, TypesInv
    <2>5. QED  BY <2>1, <2>2, <2>3, <2>4, MasterWire
<1>3. ASSUME NEW b \in Byte, WireWrite(b) PROVE MasterInv'
    <2>1. /\ call = "none" /\ tx' = IF Len(tx) >= BufferLength THEN tx ELSE Append(tx, b)
          /\ UNCHANGED <<transmitting, rx, rxIndex, twi, bus, ack, call, ret, device>>
        BY <1>3 DEF WireWrite
    <2>2. tx \in Seq(Byte) /\ Len(tx) <= BufferLength /\ BufferLength \in Nat
        BY TwiAssumption DEF MasterInv, TypesInv
    <2>3. tx' \in Seq(Byte) /\ Len(tx') <= BufferLength  BY <2>1, <2>2
    <2>4. transmitting' \in BOOLEAN /\ rxIndex' \in 0 .. Len(rx)
        BY <2>1 DEF MasterInv, TypesInv
    <2>5. QED  BY <2>1, <2>3, <2>4, MasterWire
<1>4. CASE WireRead
    <2>1. /\ call = "none" /\ rxIndex < Len(rx) /\ rxIndex' = rxIndex + 1
          /\ UNCHANGED <<tx, transmitting, rx, twi, bus, ack, call, ret, device>>
        BY <1>4 DEF WireRead
    <2>2. rxIndex' \in 0 .. Len(rx)  BY <2>1 DEF MasterInv, TypesInv
    <2>3. tx' \in Seq(Byte) /\ Len(tx') <= BufferLength /\ transmitting' \in BOOLEAN
        BY <2>1 DEF MasterInv, TypesInv
    <2>4. QED  BY <2>1, <2>2, <2>3, MasterWire
<1>5. QED
    BY <1>1, <1>2, <1>3, <1>4, MasterEndTransmission, MasterRequestFrom,
       MasterReturnFromWrite, MasterReturnFromRead DEF TwiNext, Program

-----------------------------------------------------------------------------
(* The slave *)

\* While a master writes, its next byte is acknowledged as long as all before it fitted; a
\* message that is being handed on is whole; the program's place in the message it reads is
\* inside it; no call as a master is made.
SlaveInv ==
    /\ Served /\ call = "none"
    /\ inBuffer \in Seq(Byte) /\ sent \in Seq(Byte) /\ rx \in Seq(Byte)
    /\ outBuffer \in Seq(Byte \cup {0})
    /\ ack \in BOOLEAN /\ rxIndex \in 0 .. Len(rx)
    /\ line \in {"free", "write", "read"}
    /\ telling \in BOOLEAN /\ missed \in BOOLEAN
    /\ line = "write" /\ ~telling => (ack <=> Len(sent) <= BufferLength)
    /\ telling => inBuffer = AtMost(sent) /\ state = "READY" /\ ack
    /\ missed => line # "free" /\ ~telling

LEMMA AtMostFacts ==
    ASSUME NEW q \in Seq(Byte)
    PROVE  /\ AtMost(q) \in Seq(Byte)
           /\ Len(q) <= BufferLength => AtMost(q) = q
           /\ Len(q) > BufferLength => Len(AtMost(q)) = BufferLength
<1>1. BufferLength \in Nat  BY TwiAssumption
<1>2. CASE Len(q) <= BufferLength
    <2>1. (IF Len(q) < BufferLength THEN Len(q) ELSE BufferLength) = Len(q)  BY <1>1, <1>2
    <2>2. AtMost(q) = SubSeq(q, 1, Len(q))  BY <2>1 DEF AtMost
    <2>3. AtMost(q) = q  BY <2>2, SequenceFacts
    <2>4. ~(Len(q) > BufferLength)  BY <1>1, <1>2
    <2>5. QED  BY <2>3, <2>4
<1>3. CASE Len(q) > BufferLength
    <2>1. AtMost(q) = SubSeq(q, 1, BufferLength)  BY <1>1, <1>3 DEF AtMost
    <2>2. SubSeq(q, 1, BufferLength) \in Seq(Byte)
          /\ Len(SubSeq(q, 1, BufferLength)) = BufferLength
        BY <1>1, <1>3
    <2>3. ~(Len(q) <= BufferLength)  BY <1>1, <1>3
    <2>4. QED  BY <2>1, <2>2, <2>3
<1>4. QED  BY <1>1, <1>2, <1>3

LEMMA SlaveInit0 == ASSUME TwiInit, SlaveInit PROVE SlaveInv
<1>1. /\ call = "none" /\ line = "free" /\ state = "READY" /\ rxIndex = 0
      /\ inBuffer = <<>> /\ sent = <<>> /\ rx = <<>> /\ outBuffer = <<>>
    BY DEF TwiInit, SlaveInit
<1>2. ack /\ ack \in BOOLEAN /\ telling = FALSE /\ missed = FALSE
    BY Zenon DEF TwiInit, SlaveInit
<1>3. <<>> \in Seq(Byte \cup {0})  OBVIOUS
<1>4. rxIndex \in 0 .. Len(rx)  BY <1>1, EmptyIs
<1>5. Served  BY <1>1, <1>2 DEF Served
<1>6. QED  BY <1>1, <1>2, <1>3, <1>4, <1>5, EmptyIs DEF SlaveInv

LEMMA SlaveAddressedToWrite ==
    ASSUME SlaveInv, AddressedToWrite, call' = call PROVE SlaveInv' /\ Delivered
<1>1. /\ line = "free" /\ ~telling
      /\ line' = "write" /\ state' = "SRX" /\ inBuffer' = <<>> /\ sent' = <<>> /\ ack
      /\ UNCHANGED <<ack, rx, rxIndex, outBuffer, telling, missed>>
    BY DEF AddressedToWrite
<1>2. Len(sent') = 0 /\ BufferLength \in Nat  BY <1>1, EmptyIs, TwiAssumption
<1>3. inBuffer' = AtMost(sent')
    <2>1. sent' \in Seq(Byte) /\ Len(sent') <= BufferLength  BY <1>1, <1>2, EmptyIs
    <2>2. AtMost(sent') = sent'  BY <2>1, AtMostFacts
    <2>3. QED  BY <1>1, <2>2
<1>4. Served'
    <2>1. AtMost(sent)' = AtMost(sent')  BY DEF AtMost
    <2>2. Len(sent') <= BufferLength + 1  BY <1>2
    <2>3. ~missed'  BY <1>1 DEF SlaveInv
    <2>4. QED  BY <1>1, <1>3, <2>1, <2>2, <2>3 DEF Served
<1>5. Len(sent') <= BufferLength  BY <1>2
<1>6. SlaveInv'  BY <1>1, <1>4, <1>5, EmptyIs DEF SlaveInv
<1>7. Delivered  BY <1>1 DEF Delivered
<1>8. QED  BY <1>6, <1>7

LEMMA SlaveWritten ==
    ASSUME SlaveInv, NEW b \in Byte, Written(b), call' = call PROVE SlaveInv' /\ Delivered
<1>1. /\ line = "write" /\ ack /\ ~telling /\ sent' = Append(sent, b)
      /\ ack' = (Len(inBuffer) < BufferLength)
      /\ inBuffer' = AtMost(Append(inBuffer, b))
      /\ UNCHANGED <<line, state, rx, rxIndex, outBuffer, telling, missed>>
    BY DEF Written
<1>2. /\ inBuffer = AtMost(sent) /\ sent \in Seq(Byte)
      /\ state = (IF missed THEN "READY" ELSE "SRX")
      /\ Len(sent) <= BufferLength
    BY <1>1 DEF SlaveInv, Served
<1>3. inBuffer = sent /\ BufferLength \in Nat  BY <1>2, AtMostFacts, TwiAssumption
<1>4. /\ sent' \in Seq(Byte) /\ Len(sent') = Len(sent) + 1 /\ inBuffer' = AtMost(sent')
    BY <1>1, <1>2, <1>3
<1>5. inBuffer' \in Seq(Byte)  BY <1>4, AtMostFacts
<1>6. Len(sent') <= BufferLength + 1 /\ (Len(inBuffer) < BufferLength <=> Len(sent') <= BufferLength)
    BY <1>2, <1>3, <1>4
<1>7. ack' \in BOOLEAN /\ (ack' <=> Len(sent') <= BufferLength)
    <2>1. (Len(inBuffer) < BufferLength) \in BOOLEAN  OBVIOUS
    <2>2. QED  BY <1>1, <1>6, <2>1, Zenon
<1>8. Served'
    <2>1. AtMost(sent)' = AtMost(sent')  BY DEF AtMost
    <2>2. QED  BY <1>1, <1>2, <1>4, <1>6, <2>1 DEF Served
<1>9. SlaveInv'  BY <1>1, <1>4, <1>5, <1>7, <1>8 DEF SlaveInv
<1>10. Delivered  BY <1>1 DEF Delivered
<1>11. QED  BY <1>9, <1>10

LEMMA SlaveWrittenTooMuch ==
    ASSUME SlaveInv, WrittenTooMuch, call' = call PROVE SlaveInv' /\ Delivered
<1>1. /\ line = "write" /\ ~ack /\ ~telling /\ line' = "free" /\ missed' = FALSE
      /\ UNCHANGED <<ack, state, rx, rxIndex, inBuffer, outBuffer, sent, telling>>
    BY DEF WrittenTooMuch
<1>2. state \in {"SRX", "READY"} /\ Len(sent) = BufferLength + 1
    <2>1. sent \in Seq(Byte) /\ Len(sent) <= BufferLength + 1 /\ ~(Len(sent) <= BufferLength)
          /\ state \in {"SRX", "READY"}
        BY <1>1 DEF SlaveInv, Served
    <2>2. QED  BY <2>1, TwiAssumption
<1>3. Served'  BY <1>1, <1>2 DEF Served
<1>4. SlaveInv'  BY <1>1, <1>3 DEF SlaveInv
<1>5. Delivered  BY <1>1 DEF Delivered
<1>6. QED  BY <1>4, <1>5

LEMMA SlaveWriteEnds ==
    ASSUME SlaveInv, WriteEnds, call' = call PROVE SlaveInv' /\ Delivered
<1>1. /\ line = "write" /\ ~telling
      /\ state' = "READY" /\ ack' = TRUE /\ line' = "free" /\ telling' = TRUE /\ missed' = FALSE
      /\ UNCHANGED <<rx, rxIndex, inBuffer, sent, outBuffer>>
    BY DEF WriteEnds
<1>2. /\ ack' \in BOOLEAN /\ ack' /\ telling' \in BOOLEAN /\ telling'
      /\ missed' \in BOOLEAN /\ ~missed'
    BY <1>1, Zenon
<1>3. inBuffer = AtMost(sent)  BY <1>1 DEF SlaveInv, Served
<1>4. inBuffer' = AtMost(sent)'  BY <1>1, <1>3 DEF AtMost
<1>5. Served'  BY <1>1, <1>2 DEF Served
<1>6. SlaveInv'  BY <1>1, <1>2, <1>4, <1>5 DEF SlaveInv
<1>7. Delivered  BY <1>1 DEF Delivered
<1>8. QED  BY <1>6, <1>7

LEMMA SlaveAddressedMeanwhile ==
    ASSUME SlaveInv, AddressedMeanwhile, call' = call PROVE SlaveInv' /\ Delivered
<1>1. /\ telling /\ line = "free" /\ line' \in {"write", "read"}
      /\ UNCHANGED <<rx, rxIndex, state, ack, inBuffer, outBuffer, outIndex, telling, missed,
                     sent, got>>
    BY DEF AddressedMeanwhile
<1>2. AtMost(sent)' = AtMost(sent)  BY <1>1 DEF AtMost
<1>3. Served'  BY <1>1 DEF Served
<1>4. ~missed  BY <1>1 DEF SlaveInv
<1>5. SlaveInv'  BY <1>1, <1>2, <1>3, <1>4 DEF SlaveInv
<1>6. Delivered  BY <1>1 DEF Delivered
<1>7. QED  BY <1>5, <1>6

\* A message is handed on only to a program that has read the one before, and whole.
LEMMA SlaveBusReleased ==
    ASSUME SlaveInv, BusReleased, call' = call PROVE SlaveInv' /\ Delivered
<1>1. /\ telling /\ telling' = FALSE /\ OnReceiveService /\ inBuffer' = <<>> /\ sent' = <<>>
      /\ missed' = (line # "free") /\ state' = "READY" /\ ack' = TRUE
      /\ UNCHANGED <<line, outBuffer, outIndex, got>>
    BY DEF BusReleased
<1>2. /\ ack' \in BOOLEAN /\ ack' /\ telling' \in BOOLEAN /\ ~telling'
      /\ missed' \in BOOLEAN /\ (missed' <=> line # "free")
    <2>1. (line # "free") \in BOOLEAN  OBVIOUS
    <2>2. QED  BY <1>1, <2>1, Zenon
<1>3. /\ inBuffer = AtMost(sent) /\ inBuffer \in Seq(Byte) /\ rx \in Seq(Byte)
      /\ rxIndex \in 0 .. Len(rx) /\ line \in {"free", "write", "read"}
    BY <1>1 DEF SlaveInv
<1>4. Len(sent') = 0 /\ Len(sent') <= BufferLength /\ Len(sent') <= BufferLength + 1
      /\ inBuffer' = AtMost(sent)'
    <2>1. Len(sent') = 0 /\ BufferLength \in Nat  BY <1>1, EmptyIs, TwiAssumption
    <2>2. sent' \in Seq(Byte) /\ Len(sent') <= BufferLength  BY <1>1, <2>1, EmptyIs
    <2>3. AtMost(sent') = sent'  BY <2>2, AtMostFacts
    <2>4. AtMost(sent)' = AtMost(sent')  BY DEF AtMost
    <2>5. QED  BY <1>1, <2>1, <2>3, <2>4
<1>5. Served'  BY <1>1, <1>2, <1>3, <1>4 DEF Served
<1>6. ASSUME rx' \in Seq(Byte), rxIndex' \in 0 .. Len(rx') PROVE SlaveInv'
    BY <1>1, <1>2, <1>3, <1>4, <1>5, <1>6, EmptyIs DEF SlaveInv
<1>7. CASE ~listens \/ rxIndex < Len(rx)
    <2>1. UNCHANGED <<rx, rxIndex>>  BY <1>1, <1>7 DEF OnReceiveService
    <2>2. rx' \in Seq(Byte) /\ rxIndex' \in 0 .. Len(rx')  BY <1>3, <2>1
    <2>3. Delivered  BY <2>1 DEF Delivered
    <2>4. QED  BY <1>6, <2>2, <2>3
<1>8. CASE ~(~listens \/ rxIndex < Len(rx))
    <2>1. rx' = inBuffer /\ rxIndex' = 0  BY <1>1, <1>8 DEF OnReceiveService
    <2>2. rx' \in Seq(Byte) /\ rxIndex' \in 0 .. Len(rx')  BY <1>3, <2>1
    <2>3. rxIndex = Len(rx)  BY <1>3, <1>8
    <2>4. Delivered  BY <1>1, <1>3, <2>1, <2>3 DEF Delivered
    <2>5. QED  BY <1>6, <2>2, <2>4
<1>9. QED  BY <1>7, <1>8

LEMMA SlaveAddressedToRead ==
    ASSUME SlaveInv, NEW w \in Offers, AddressedToRead(w), call' = call
    PROVE  SlaveInv' /\ Delivered
<1>1. /\ line = "free" /\ ~telling
      /\ line' = "read" /\ state' = "STX" /\ got' = <<>>
      /\ outBuffer' = Taken(w) /\ outIndex' = 1 /\ ack' = (1 < Len(outBuffer'))
      /\ UNCHANGED <<rx, rxIndex, inBuffer, sent, telling, missed>>
    BY DEF AddressedToRead
<1>2. w \in Seq(Byte)
    <2>1. PICK n \in 0 .. BufferLength + 1 : w \in [1 .. n -> Byte]  BY DEF Offers
    <2>2. n \in Nat  BY <2>1, TwiAssumption
    <2>3. QED  BY <2>1, <2>2
<1>3. outBuffer' \in Seq(Byte \cup {0}) /\ Len(outBuffer') \in Nat /\ Len(outBuffer') >= 1
    <2>1. CASE outBuffer' = w /\ Len(w) \in 1 .. BufferLength
        <3>1. w \in Seq(Byte \cup {0}) /\ Len(w) >= 1  BY <1>2, <2>1, TwiAssumption
        <3>2. QED  BY <2>1, <3>1
    <2>2. CASE outBuffer' = <<0>>  BY <2>2
    <2>3. QED  BY <1>1, <2>1, <2>2 DEF Taken
<1>4. ack' \in BOOLEAN
    <2>1. (1 < Len(outBuffer')) \in BOOLEAN  OBVIOUS
    <2>2. QED  BY <1>1, <2>1, Zenon
<1>5. got' = SubSeq(outBuffer', 1, outIndex' - 1)
    <2>1. outIndex' - 1 = 0  BY <1>1
    <2>2. QED  BY <1>1, <1>3, <2>1, SequenceFacts
<1>6. outIndex' \in 1 .. Len(outBuffer') /\ ack' = (outIndex' < Len(outBuffer'))  BY <1>1, <1>3
<1>7. Served'  BY <1>1, <1>5, <1>6 DEF Served
<1>8. SlaveInv'  BY <1>1, <1>3, <1>4, <1>7 DEF SlaveInv
<1>9. Delivered  BY <1>1 DEF Delivered
<1>10. QED  BY <1>8, <1>9

LEMMA SlaveByteRead ==
    ASSUME SlaveInv, NEW more \in BOOLEAN, ByteRead(more), call' = call
    PROVE  SlaveInv' /\ Delivered
<1>1. line = "read" /\ ~telling /\ ~missed /\ UNCHANGED <<rx, rxIndex, inBuffer, sent, telling>>
    BY DEF ByteRead
<1>2. Delivered  BY <1>1 DEF Delivered
<1>3. /\ state = "STX" /\ got = SubSeq(outBuffer, 1, outIndex - 1)
      /\ outIndex \in 1 .. Len(outBuffer) /\ ack = (outIndex < Len(outBuffer))
      /\ outBuffer \in Seq(Byte \cup {0})
    BY <1>1 DEF SlaveInv, Served
<1>4. CASE more /\ ack
    <2>1. /\ got' = Append(got, outBuffer[outIndex]) /\ outIndex' = outIndex + 1
          /\ ack' = (outIndex' < Len(outBuffer))
          /\ UNCHANGED <<line, state, missed, outBuffer>>
        BY <1>4 DEF ByteRead
    <2>2. outIndex < Len(outBuffer)  BY <1>3, <1>4
    <2>3. outIndex' \in 1 .. Len(outBuffer') /\ outIndex' - 1 = outIndex  BY <1>3, <2>1, <2>2
    <2>4. got' = SubSeq(outBuffer', 1, outIndex' - 1)  BY <1>3, <2>1, <2>3, SequenceFacts
    <2>5. ack' \in BOOLEAN
        <3>1. (outIndex' < Len(outBuffer)) \in BOOLEAN  OBVIOUS
        <3>2. QED  BY <2>1, <3>1, Zenon
    <2>6. ack' = (outIndex' < Len(outBuffer'))  BY <2>1
    <2>7. Served'  BY <1>1, <1>3, <2>1, <2>3, <2>4, <2>6 DEF Served
    <2>8. SlaveInv'  BY <1>1, <2>1, <2>5, <2>7 DEF SlaveInv
    <2>9. QED  BY <1>2, <2>8
<1>5. CASE ~(more /\ ack)
    <2>1. /\ line' = "free" /\ state' = "READY" /\ ack' = TRUE /\ missed' = FALSE
          /\ outBuffer' = <<>>
        BY <1>5 DEF ByteRead, Idle
    <2>2. ack' \in BOOLEAN /\ ack' /\ missed' \in BOOLEAN /\ ~missed'  BY <2>1, Zenon
    <2>3. outBuffer' \in Seq(Byte \cup {0})  BY <2>1
    <2>4. Served'  BY <2>1, <2>2 DEF Served
    <2>5. SlaveInv'  BY <1>1, <2>1, <2>2, <2>3, <2>4 DEF SlaveInv
    <2>6. QED  BY <1>2, <2>5
<1>6. QED  BY <1>4, <1>5

LEMMA SlaveStaleRead ==
    ASSUME SlaveInv, StaleRead, call' = call PROVE SlaveInv' /\ Delivered
<1>1. /\ line = "read" /\ ~telling /\ missed
      /\ UNCHANGED <<rx, rxIndex, inBuffer, outBuffer, outIndex, telling, sent, got>>
    BY DEF StaleRead
<1>2. Delivered  BY <1>1 DEF Delivered
<1>3. CASE ack' \in BOOLEAN /\ UNCHANGED <<line, state, missed>>
    <2>1. Served'  BY <1>1, <1>3 DEF Served
    <2>2. SlaveInv'  BY <1>1, <1>3, <2>1 DEF SlaveInv
    <2>3. QED  BY <1>2, <2>2
<1>4. CASE Idle
    <2>1. line' = "free" /\ state' = "READY" /\ ack' = TRUE /\ missed' = FALSE
        BY <1>4 DEF Idle
    <2>2. ack' \in BOOLEAN /\ ack' /\ missed' \in BOOLEAN /\ ~missed'  BY <2>1, Zenon
    <2>3. Served'  BY <2>1, <2>2 DEF Served
    <2>4. SlaveInv'  BY <1>1, <2>1, <2>2, <2>3 DEF SlaveInv
    <2>5. QED  BY <1>2, <2>4
<1>5. QED  BY <1>3, <1>4 DEF StaleRead

LEMMA SlaveIsDisturbed ==
    ASSUME SlaveInv, SlaveDisturbed, call' = call PROVE SlaveInv' /\ Delivered
<1>1. /\ state' = "READY" /\ ack' = TRUE /\ line' = "free" /\ missed' = FALSE /\ ~telling
      /\ inBuffer' = <<>> /\ sent' = <<>> /\ outBuffer' = <<>>
      /\ UNCHANGED <<rx, rxIndex, telling>>
    BY DEF SlaveDisturbed, Idle
<1>2. ack' \in BOOLEAN /\ ack' /\ missed' \in BOOLEAN /\ ~missed'  BY <1>1, Zenon
<1>3. outBuffer' \in Seq(Byte \cup {0})  BY <1>1
<1>4. Served'  BY <1>1, <1>2 DEF Served
<1>5. SlaveInv'  BY <1>1, <1>2, <1>3, <1>4, EmptyIs DEF SlaveInv
<1>6. Delivered  BY <1>1 DEF Delivered
<1>7. QED  BY <1>5, <1>6

LEMMA SlaveStep == ASSUME SlaveInv, SlaveNext PROVE SlaveInv' /\ Delivered
<1>1. CASE SlaveInterrupt
    <2>1. call' = call  BY <1>1 DEF SlaveInterrupt, twiRest
    <2>2. QED
        BY <1>1, <2>1, SlaveAddressedToWrite, SlaveWritten, SlaveWrittenTooMuch,
           SlaveWriteEnds, SlaveAddressedMeanwhile, SlaveBusReleased, SlaveAddressedToRead,
           SlaveByteRead, SlaveStaleRead, SlaveIsDisturbed
           DEF SlaveInterrupt
<1>2. CASE SlaveProgram
    <2>1. UNCHANGED <<inBuffer, outBuffer, outIndex, line, telling, missed, sent, got>>
        BY <1>2 DEF SlaveProgram, slaveVars
    <2>2. UNCHANGED <<rx, state, ack, call>> /\ rxIndex' \in 0 .. Len(rx)
        <3>1. CASE \E a \in Address : BeginTransmission(a)
            BY <3>1 DEF BeginTransmission, twi, SlaveInv
        <3>2. CASE \E b \in Byte : WireWrite(b)  BY <3>2 DEF WireWrite, twi, SlaveInv
        <3>3. CASE WireRead  BY <3>3 DEF WireRead, twi, SlaveInv
        <3>4. QED  BY <1>2, <3>1, <3>2, <3>3 DEF SlaveProgram
    <2>3. Delivered  BY <2>2 DEF Delivered
    <2>4. Served'
        <3>1. Served  BY DEF SlaveInv
        <3>2. QED  BY <2>1, <2>2, <3>1 DEF Served, AtMost
    <2>5. SlaveInv'  BY <2>1, <2>2, <2>4 DEF SlaveInv, AtMost
    <2>6. QED  BY <2>3, <2>5
<1>3. QED  BY <1>1, <1>2 DEF SlaveNext

-----------------------------------------------------------------------------
(* Both *)

UsedInv ==
    /\ used = "master" => MasterInv
    /\ used = "slave" => SlaveInv

LEMMA UsedNext == ASSUME UsedInv, [Next]_vars PROVE UsedInv'
<1>1. CASE Next
    <2>1. used' = used  BY <1>1 DEF Next
    <2>2. CASE used = "master"
        <3>1. TwiNext  BY <1>1, <2>2 DEF Next
        <3>2. MasterInv'  BY <2>2, <3>1, MasterNext DEF UsedInv
        <3>3. QED  BY <2>1, <2>2, <3>2 DEF UsedInv
    <2>3. CASE used = "slave"
        <3>1. SlaveNext  BY <1>1, <2>3 DEF Next
        <3>2. SlaveInv'  BY <2>3, <3>1, SlaveStep DEF UsedInv
        <3>3. QED  BY <2>1, <2>3, <3>2 DEF UsedInv
    <2>4. CASE used \notin {"master", "slave"}  BY <2>1, <2>4 DEF UsedInv
    <2>5. QED  BY <2>2, <2>3, <2>4
<1>2. CASE UNCHANGED vars
    <2>1. UNCHANGED <<wire, twi, bus, ack, call, ret, device>>
          /\ UNCHANGED <<inBuffer, outBuffer, outIndex, listens, line, telling, missed, sent, got>>
          /\ used' = used
        BY <1>2 DEF vars, twiVars, slaveVars
    <2>2. MasterInv => MasterInv'
        <3>1. UNCHANGED <<tx, transmitting, rx, rxIndex, state, error, inRepStart, sendStop,
                          slarw, buffer, index, length, bus, ack, call, ret, device>>
            BY <2>1 DEF wire, twi
        <3>2. TypesInv => TypesInv'  BY <3>1 DEF TypesInv
        <3>3. WriteInv => WriteInv'  BY <3>1 DEF WriteInv
        <3>4. ReadInv => ReadInv'  BY <3>1 DEF ReadInv
        <3>5. CallInv => CallInv'  BY <3>1 DEF CallInv
        <3>6. QED  BY <3>2, <3>3, <3>4, <3>5 DEF MasterInv
    <2>3. SlaveInv => SlaveInv'
        <3>1. UNCHANGED <<rx, rxIndex, state, ack, call>>  BY <2>1 DEF wire, twi
        <3>2. Served => Served'  BY <2>1, <3>1 DEF Served, AtMost
        <3>3. QED  BY <2>1, <3>1, <3>2 DEF SlaveInv, AtMost
    <2>4. QED  BY <2>1, <2>2, <2>3 DEF UsedInv
<1>3. QED  BY <1>1, <1>2

LEMMA UsedHolds == Spec => []UsedInv
<1>1. Init => UsedInv  BY MasterInit, SlaveInit0 DEF Init, UsedInv
<1>2. UsedInv /\ [Next]_vars => UsedInv'  BY UsedNext
<1>3. QED  BY <1>1, <1>2, PTL DEF Spec

\* For buffers of every length and all quantities asked for: between two calls of TwoWire
\* nobody is on the bus but a START that waits (Wire.cpp:78-222, twi.c:115-254), and no
\* index leaves its buffer.
THEOREM BusLeftHolds == Spec => []BusLeftByMaster
<1>1. UsedInv => BusLeftByMaster
    <2> SUFFICES ASSUME MasterInv PROVE BusLeft  BY DEF UsedInv, BusLeftByMaster
    <2>1. TwiTypes  BY DEF MasterInv, TypesInv, TwiTypes
    <2>2. QED  BY <2>1 DEF MasterInv, CallInv, BusLeft
<1>2. QED  BY <1>1, UsedHolds, PTL

\* Likewise: what endTransmission and requestFrom return is what the device took and gave,
\* however the bus is disturbed.
THEOREM ResultsTrueHolds == Spec => ResultsTrue
<1> DEFINE True ==
        /\ ReturnFromWrite =>
             (ret' = 0 <=> device.answers /\ device.took = tx /\ ~device.disturbed)
        /\ ReturnFromRead => /\ rx' = device.gave /\ ret' = Len(rx')
                             /\ (device.answers /\ ~device.disturbed => ret' = ret)
<1>1. MasterInv => True
    <2> SUFFICES ASSUME MasterInv PROVE True  OBVIOUS
    <2>1. ASSUME ReturnFromWrite
          PROVE  ret' = 0 <=> device.answers /\ device.took = tx /\ ~device.disturbed
        <3>1. call = "write" /\ state # "MTX"  BY <2>1 DEF ReturnFromWrite
        <3>2. error = "none" <=> device.answers /\ device.took = tx /\ ~device.disturbed
            BY <3>1 DEF MasterInv, WriteInv
        <3>3. ret' = CASE error = "none" -> 0 [] error = "MT_SLA_NACK" -> 2
                       [] error = "MT_DATA_NACK" -> 3 [] OTHER -> 4
            BY <2>1 DEF ReturnFromWrite
        <3>4. error = "none" => ret' = 0  BY <3>3, Zenon
        <3>5. error # "none" => ret' \in {2, 3, 4}  BY <3>3, Zenon
        <3>6. QED  BY <3>2, <3>4, <3>5
    <2>2. ASSUME ReturnFromRead
          PROVE  /\ rx' = device.gave /\ ret' = Len(rx')
                 /\ (device.answers /\ ~device.disturbed => ret' = ret)
        <3>1. call = "read"  BY <2>2 DEF ReturnFromRead
        <3>2. state = "READY" /\ rx' = device.gave /\ ret' = index /\ ret' = Len(rx')
            BY <2>2, Received
        <3>3. device.answers /\ ~device.disturbed => index = ret
            BY <3>1, <3>2 DEF MasterInv, ReadInv
        <3>4. QED  BY <3>2, <3>3
    <2>3. QED  BY <2>1, <2>2
<1>2. call = "none" => True  BY DEF ReturnFromWrite, ReturnFromRead
<1> HIDE DEF True
<1>3. UsedInv /\ [Next]_vars => [True]_twiVars
    <2> SUFFICES ASSUME UsedInv, [Next]_vars PROVE True \/ UNCHANGED twiVars  OBVIOUS
    <2>1. CASE used = "master"  BY <1>1, <2>1 DEF UsedInv
    <2>2. CASE used = "slave"  BY <1>2, <2>2 DEF UsedInv, SlaveInv
    <2>3. CASE used \notin {"master", "slave"}
        <3>1. Next => UNCHANGED twiVars  BY <2>3 DEF Next
        <3>2. UNCHANGED vars => UNCHANGED twiVars  BY DEF vars
        <3>3. QED  BY <3>1, <3>2
    <2>4. QED  BY <2>1, <2>2, <2>3
<1>4. Spec => [][True]_twiVars  BY <1>3, UsedHolds, PTL DEF Spec
<1>5. QED  BY <1>4 DEF True, ResultsTrue

\* As a slave, whatever another master sends, asks for and breaks off: a message reaches
\* the program whole and only after it has read the one before (twi.c:440-526,
\* Wire.cpp:244-281), what a master reads is what was offered, in order, unless it asked
\* while the message before was handed on (twi.c:468-474).
THEOREM SlaveServedHolds == Spec => SlaveServed
<1>1. UsedInv /\ [Next]_vars => [used = "slave" => Delivered /\ Served']_vars
    <2> SUFFICES ASSUME UsedInv, Next, used = "slave" PROVE Delivered /\ Served'  OBVIOUS
    <2>1. SlaveNext  BY DEF Next
    <2>2. QED  BY <2>1, SlaveStep DEF UsedInv, SlaveInv
<1>2. QED  BY <1>1, UsedHolds, PTL DEF Spec, SlaveServed

-----------------------------------------------------------------------------
(* The SD driver *)

\* The card is at work, or has data to give or take, only when it is initialised.
Data == {"none", "CMD9", "CMD17", "CMD18", "CMD24", "CMD25"}
CardInv ==
    /\ card \in [kind : Kinds, in : BOOLEAN, mode : {"off", "idle", "ready"},
                 busy : BOOLEAN, data : Data]
    /\ card.mode # "off" => card.in
    /\ card.busy \/ card.data # "none" => card.mode = "ready"
    /\ card.busy => card.data \in {"none", "CMD25"}

\* The commands a call sends.
Commands ==
    \/ op = "begin" /\ cmd \in {"CMD0", "CMD8", "CMD55", "ACMD41", "CMD58"}
    \/ op = "read" /\ cmd = "CMD17"
    \/ op = "write" /\ cmd = "CMD24"
    \/ op = "size" /\ cmd = "CMD9"
    \/ op = "erase" /\ cmd \in {"CMD9", "CMD32", "CMD33", "CMD38"}
    \/ op = "readStart" /\ cmd = "CMD18"
    \/ op = "writeStart" /\ cmd \in {"CMD55", "ACMD23", "CMD25"}
    \/ op = "readStop" /\ cmd = "CMD12"

\* Where in a call the program can be.
PlaceInv ==
    /\ at \in {"rest", "wait", "send", "token", "block", "data", "clear", "ending", "erasing",
              "return"}
    /\ at \in {"wait", "send"} => Commands
    /\ at \in {"token", "block"} => op \in {"read", "size", "erase", "readData"}
    /\ at = "data" => op \in {"write", "writeData"}
    /\ at = "clear" => op \in {"writeData", "writeStop"}
    /\ at = "ending" => op = "writeStop"
    /\ at = "erasing" => op = "erase"
    /\ op = "none" <=> at = "rest"
    /\ at \in {"rest", "return"} => ~chipSelect

\* What the caller has done before.
Single == {"begin", "read", "write", "size", "erase", "readStart", "writeStart"}
CallerInv ==
    /\ op \notin {"none", "begin"} \/ sequence # "none" => begun
    /\ op = "begin" => ~begun
    /\ op \in {"readData", "readStop"} => sequence = "read"
    /\ op \in {"writeData", "writeStop"} => sequence = "write"
    /\ op \in Single => sequence = "none"

\* What begin knows of the card after each answer: one that came in since then is silent.
Asked ==
    /\ cmd # "CMD0" => ~card.busy
    /\ cmd \in {"CMD8", "CMD55", "ACMD41"} => card.mode # "ready"
    /\ cmd \in {"CMD55", "ACMD41"} =>
         type \in {"SD1", "SD2"} /\ (card.mode = "idle" => (type = "SD1" <=> card.kind = "SD1"))
    /\ cmd = "CMD58" =>
         type = "SD2" /\ (card.mode # "off" => card.mode = "ready" /\ card.kind # "SD1")

BeginInv ==
    op = "begin" =>
        /\ at \in {"wait", "send", "return"}
        /\ at # "return" => Asked
        /\ at = "return" /\ result => type # "none" /\ (card.mode = "ready" => type = card.kind)

\* Data of another command are not taken for those that are waited for; behind a token they
\* are there until the card is pulled out; a card that erases or waits for blocks has heard
\* so, unless the command was lost or the card is gone.
Sends == {"CMD9", "CMD17", "CMD18"}
DataInv ==
    /\ op = "read" /\ at \in {"token", "block"} => card.data # "CMD9"
    /\ op = "size" /\ at \in {"token", "block"} => card.data \notin {"CMD17", "CMD18"}
    /\ sequence = "read" => card.data # "CMD9"
    /\ op = "readStart" /\ at = "return" /\ result => card.data # "CMD9"
    /\ at = "ending" => card.data # "CMD25"
    /\ at = "block" => IF "torn" \in done THEN card.mode = "off" ELSE card.data \in Sends
    /\ at = "token" \/ (at \in {"wait", "send"} /\ cmd \in {"CMD9", "CMD17"}) => "torn" \notin done
    /\ op = "erase" /\ at \in {"wait", "send"} /\ cmd # "CMD9" =>
         card.data \in {"none", "CMD18"} /\ ~card.busy
    /\ at = "erasing" => "erased" \in done

Missed == lost \/ gone
BlockInv ==
    /\ op = "write" /\ at = "data" => card.data = "CMD24" \/ Missed
    /\ sequence = "write" /\ op # "writeStop" => card.data = "CMD25" \/ Missed
    /\ op = "writeStart" /\ at = "return" /\ result => card.data = "CMD25" \/ Missed

SDInv ==
    CardInv /\ PlaceInv /\ CallerInv /\ BeginInv /\ DataInv /\ BlockInv /\ TypeKnown /\ TrueIsDone

-----------------------------------------------------------------------------
LEMMA SDStart == CardInit => SDInv
BY DEF CardInit, SDInv, CardInv, PlaceInv, CallerInv, BeginInv, DataInv, BlockInv, TypeKnown,
       TrueIsDone, Fresh, Kinds, Data, Single

LEMMA SDStands == SDInv /\ UNCHANGED cardVars => SDInv'
BY DEF cardVars, SDInv, CardInv, PlaceInv, Commands, CallerInv, BeginInv, Asked, DataInv, BlockInv,
       Missed, TypeKnown, TrueIsDone, Holds

\* The card alone.
LEMMA CardAlone == SDInv /\ (CardFinishes \/ CardComesOrGoes) => SDInv'
<1> SUFFICES ASSUME SDInv, CardFinishes \/ CardComesOrGoes PROVE SDInv'  OBVIOUS
<1> USE DEF SDInv
<1>1. /\ CardInv'
      /\ card'.mode = "off" \/ card' = [card EXCEPT !.busy = FALSE]
      /\ ~card'.busy /\ card'.data \in {card.data, "none"}
    <2>1. CASE CardFinishes
        BY <2>1 DEF CardFinishes, CardInv
    <2>2. CASE CardComesOrGoes /\ card.in
        BY <2>2 DEF CardComesOrGoes, CardInv, Data
    <2>3. CASE CardComesOrGoes /\ ~card.in
        <3>1. PICK kind \in Kinds : card' = Fresh(kind)  BY <2>3 DEF CardComesOrGoes
        <3>2. card'.mode = "off" /\ ~card'.busy /\ card'.data = "none"  BY <3>1 DEF Fresh
        <3>3. CardInv'  BY <3>1, <3>2 DEF Fresh, CardInv, Data
        <3>4. QED  BY <3>2, <3>3
    <2>4. QED  BY <2>1, <2>2, <2>3
<1>2. /\ card'.mode # "off" => card'.mode = card.mode /\ card'.kind = card.kind
      /\ card'.mode # "off" => card.mode # "off"
    BY <1>1 DEF CardInv
<1>3. /\ UNCHANGED <<ms, t0, t1, type, chipSelect, op, at, cmd, result, begun, sequence, lost>>
      /\ done \subseteq done' /\ done' \subseteq done \cup {"torn"}
    BY DEF CardFinishes, CardComesOrGoes
<1>4. PlaceInv'  BY <1>3 DEF PlaceInv, Commands
<1>5. CallerInv'  BY <1>3 DEF CallerInv
<1>6. BeginInv'  BY <1>1, <1>2, <1>3 DEF BeginInv, Asked, CardInv
<1>7. DataInv'
    <2>1. at = "block" => IF "torn" \in done' THEN card'.mode = "off" ELSE card'.data \in Sends
        BY <1>1 DEF CardFinishes, CardComesOrGoes, DataInv, CardInv, Fresh
    <2>2. at # "block" => done' = done
        BY DEF CardFinishes, CardComesOrGoes
    <2>3. QED  BY <1>1, <1>3, <2>1, <2>2 DEF DataInv
<1>8. TypeKnown'  BY <1>1, <1>2, <1>3 DEF TypeKnown, CardInv
<1>9. TrueIsDone'  BY <1>1, <1>3 DEF TrueIsDone, Holds
<1>10. (op # "none" \/ sequence # "none") => gone' \/ (card'.data = card.data /\ gone' = gone)
                                           \/ card.data = "none"
    BY DEF CardFinishes, CardComesOrGoes, CardInv
<1>11. BlockInv'
    <2>1. (op # "none" \/ sequence # "none") /\ gone => gone'
        BY DEF CardFinishes, CardComesOrGoes
    <2>2. QED  BY <1>3, <1>10, <2>1 DEF BlockInv, Missed
<1>12. QED  BY <1>1, <1>4, <1>5, <1>6, <1>7, <1>8, <1>9, <1>11

\* The calls.
Calls ==
    \/ CallBegin \/ CallRead \/ CallWrite \/ CallErase \/ CallCardSize
    \/ CallReadStart \/ CallReadData \/ CallReadStop
    \/ CallWriteStart \/ CallWriteData \/ CallWriteStop

LEMMA CallsKeep == SDInv /\ Calls => SDInv'
<1> SUFFICES ASSUME SDInv, Calls PROVE SDInv'  OBVIOUS
<1> USE DEF SDInv, Calls, CallBegin, CallRead, CallWrite, CallErase, CallCardSize, CallReadStart,
            CallReadData, CallReadStop, CallWriteStart, CallWriteData, CallWriteStop, Alone, Call,
            CallData, Enter, Send
<1>1. UNCHANGED <<card, result>> /\ at' \in {"wait", "token", "clear"} /\ op = "none"  OBVIOUS
<1>2. CardInv'  BY <1>1 DEF CardInv
<1>3. PlaceInv'  BY DEF PlaceInv, Commands
<1>4. CallerInv'  BY DEF CallerInv, Single
<1>5. BeginInv'  BY DEF BeginInv, Asked
<1>6. DataInv'  BY <1>1 DEF DataInv
<1>7. TypeKnown'  BY <1>1 DEF TypeKnown
<1>8. TrueIsDone'  BY <1>1 DEF TrueIsDone
<1>9. BlockInv'  BY <1>1 DEF BlockInv, Missed
<1>10. QED  BY <1>2, <1>3, <1>4, <1>5, <1>6, <1>7, <1>8, <1>9

LEMMA WaitingKeeps == SDInv /\ Waiting => SDInv'
<1> SUFFICES ASSUME SDInv, Waiting PROVE SDInv'  OBVIOUS
<1> USE DEF SDInv, Waiting
<1>1. UNCHANGED <<card, type, op, cmd, result, begun, sequence, lost, gone, done, chipSelect>>
    OBVIOUS
<1>2. at' \in {"wait", "send"} /\ at = "wait"  OBVIOUS
<1>3. CardInv'  BY <1>1 DEF CardInv
<1>4. PlaceInv'  BY <1>1, <1>2 DEF PlaceInv, Commands
<1>5. CallerInv'  BY <1>1 DEF CallerInv
<1>6. BeginInv'  BY <1>1, <1>2 DEF BeginInv, Asked
<1>7. DataInv'  BY <1>1, <1>2 DEF DataInv
<1>8. BlockInv'  BY <1>1, <1>2 DEF BlockInv, Missed
<1>9. TypeKnown'  BY <1>1 DEF TypeKnown
<1>10. TrueIsDone'  BY <1>2 DEF TrueIsDone
<1>11. QED  BY <1>3, <1>4, <1>5, <1>6, <1>7, <1>8, <1>9, <1>10

\* What a command does to the card.
LEMMA AnsweredCard ==
    ASSUME CardInv, NEW r \in Responses, Answered(r),
           cmd = "CMD38" => card.data \in {"none", "CMD18"}
    PROVE  /\ CardInv'
           /\ card'.kind = card.kind /\ card'.in = card.in
           /\ card'.mode # card.mode =>
                \/ cmd = "CMD0" /\ r = "idle" /\ card'.mode = "idle"
                \/ cmd = "ACMD41" /\ r = "ready" /\ card'.mode = "ready"
           /\ card'.busy # card.busy => cmd = "CMD38"
           /\ card'.data # card.data => card'.data \in {"none", cmd}
<1> USE DEF CardInv, Kinds, Data
<1>1. CASE UNCHANGED card  BY <1>1
<1>2. CASE cmd = "CMD12" /\ card' = [card EXCEPT !.data = "none"]  BY <1>2
<1>3. CASE cmd = "CMD0" /\ r = "idle" /\ card.in /\ ~card.busy
             /\ card' = [card EXCEPT !.mode = "idle", !.data = "none"]
    BY <1>3
<1>4. CASE cmd = "ACMD41" /\ r = "ready" /\ card.in /\ card' = [card EXCEPT !.mode = "ready"]
    BY <1>4
<1>5. CASE cmd \in {"CMD9", "CMD17", "CMD24", "CMD18", "CMD25"} /\ card.mode = "ready"
             /\ ~card.busy /\ card' = [card EXCEPT !.data = cmd]
    BY <1>5
<1>6. CASE cmd = "CMD38" /\ card.mode = "ready" /\ card.data = "none"
             /\ card' = [card EXCEPT !.busy = TRUE]
    BY <1>6
<1>7. QED
    BY <1>1, <1>2, <1>3, <1>4, <1>5, <1>6 DEF Answered, Ends, Obeys, Streaming, Holds

\* What holds while a call goes on or returns, about the caller.
LEMMA CallerKept == CallerInv /\ UNCHANGED <<op, begun, sequence>> => CallerInv'
BY DEF CallerInv, Single

LEMMA SendingBegin ==
    ASSUME SDInv, at = "send", op = "begin", NEW r \in Responses, Answered(r), BeginGoesOn(r),
           Look, UNCHANGED <<op, begun, sequence, gone, changes>>
    PROVE  SDInv'
<1> USE DEF SDInv
<1>1. /\ CardInv'
      /\ card'.kind = card.kind /\ card'.in = card.in
      /\ card'.mode # card.mode =>
            \/ cmd = "CMD0" /\ r = "idle" /\ card'.mode = "idle"
            \/ cmd = "ACMD41" /\ r = "ready" /\ card'.mode = "ready"
      /\ card'.busy = card.busy
      /\ card'.data # card.data => card'.data \in {"none", cmd}
    BY AnsweredCard DEF PlaceInv, Commands
<1>2. cmd \in {"CMD0", "CMD8", "CMD55", "ACMD41", "CMD58"} /\ ~begun /\ sequence = "none" /\ Asked
    BY DEF PlaceInv, Commands, CallerInv, BeginInv
<1>3. CASE cmd = "CMD0"
    <2>1. r = "idle" => ~card'.busy /\ card'.mode # "ready"
        BY <1>1, <1>3 DEF Answered, Holds, CardInv, Streaming, Obeys, Ends
    <2>2. /\ \/ at' = "wait" /\ cmd' = "CMD8" /\ r = "idle"
             \/ at' = "wait" /\ cmd' = "CMD0"
             \/ at' = "return" /\ ~result' /\ ~chipSelect'
          /\ type' = type
        BY <1>3 DEF BeginGoesOn, Goes, Send, Again, Return
    <2>3. PlaceInv'  BY <2>2 DEF PlaceInv, Commands
    <2>4. BeginInv'  BY <2>1, <2>2 DEF BeginInv, Asked
    <2>5. QED  BY <1>1, <1>2, <2>2, <2>3, <2>4, CallerKept DEF DataInv, BlockInv, TypeKnown, TrueIsDone
<1>4. CASE cmd = "CMD8"
    <2>1. /\ ~card'.busy /\ card'.mode = card.mode /\ card.mode # "ready"
          /\ card.mode = "idle" =>
                r \in {"illegal", "idle"} /\ (r = "illegal" <=> card.kind = "SD1")
        BY <1>1, <1>2, <1>4 DEF Answered, Asked, Holds, CardInv, Streaming, Obeys, Ends, R1
    <2>2. \/ at' = "wait" /\ cmd' = "CMD55" /\ r = "illegal" /\ type' = "SD1"
          \/ at' = "wait" /\ cmd' = "CMD55" /\ r # "illegal" /\ type' = "SD2"
          \/ at' = "wait" /\ cmd' = "CMD8" /\ type' = type
          \/ at' = "return" /\ ~result' /\ ~chipSelect'
        BY <1>4 DEF BeginGoesOn, Goes, Send, Again, Return
    <2>3. PlaceInv'  BY <2>2 DEF PlaceInv, Commands
    <2>4. BeginInv'  BY <1>1, <2>1, <2>2 DEF BeginInv, Asked
    <2>5. QED  BY <1>1, <1>2, <2>2, <2>3, <2>4, CallerKept DEF DataInv, BlockInv, TypeKnown, TrueIsDone
<1>5. CASE cmd = "CMD55"
    <2>1. card'.mode = card.mode /\ ~card'.busy  BY <1>1, <1>2, <1>5 DEF Asked
    <2>2. at' = "wait" /\ cmd' = "ACMD41" /\ type' = type
        BY <1>5 DEF BeginGoesOn, Goes, Send
    <2>3. PlaceInv'  BY <2>2 DEF PlaceInv, Commands
    <2>4. BeginInv'  BY <1>1, <1>2, <1>5, <2>1, <2>2 DEF BeginInv, Asked
    <2>5. QED  BY <1>1, <1>2, <2>2, <2>3, <2>4, CallerKept DEF DataInv, BlockInv, TypeKnown, TrueIsDone
<1>6. CASE cmd = "ACMD41"
    <2>1. /\ ~card'.busy
          /\ r # "ready" => card'.mode = card.mode
          /\ r = "ready" => card.mode = "idle" /\ card'.mode = "ready"
                            /\ (card.kind = "SDHC" => type = "SD2")
        BY <1>1, <1>2, <1>6 DEF Answered, Asked, Holds, CardInv, Streaming, Obeys, Ends
    <2>2. /\ type' = type
          /\ \/ at' = "wait" /\ cmd' = "CMD55" /\ r # "ready"
             \/ at' = "return" /\ ~result' /\ ~chipSelect'
             \/ at' = "wait" /\ cmd' = "CMD58" /\ r = "ready" /\ type = "SD2"
             \/ at' = "return" /\ ~chipSelect' /\ r = "ready" /\ type # "SD2"
        BY <1>6 DEF BeginGoesOn, Goes, Send, Again, Return
    <2>3. PlaceInv'  BY <2>2 DEF PlaceInv, Commands
    <2>4. card.kind \in Kinds /\ type \in {"SD1", "SD2"}  BY <1>2, <1>6 DEF CardInv, Asked
    <2>5. BeginInv'  BY <1>1, <1>2, <1>6, <2>1, <2>2, <2>4 DEF BeginInv, Asked, Kinds
    <2>6. TrueIsDone'  BY <2>2, <2>4 DEF TrueIsDone
    <2>7. QED  BY <1>1, <1>2, <2>2, <2>3, <2>5, <2>6, CallerKept DEF DataInv, BlockInv, TypeKnown
<1>7. CASE cmd = "CMD58"
    <2>1. /\ ~card'.busy /\ card'.mode = card.mode
          /\ r = "ready" => card.mode = "ready" /\ card' = card
        BY <1>1, <1>2, <1>7 DEF Answered, Asked, Holds, CardInv, Streaming, Obeys, Ends
    <2>2. /\ at' = "return" /\ ~chipSelect'
          /\ \/ ~result'
             \/ r = "ready" /\ type' = IF ~Holds /\ card.kind = "SDHC" THEN "SDHC" ELSE type
        BY <1>7 DEF BeginGoesOn, Goes, Send, Again, Return
    <2>3. PlaceInv'  BY <2>2 DEF PlaceInv, Commands
    <2>4. card.kind \in Kinds /\ type = "SD2" /\ ~Holds
          /\ (card.mode = "ready" => card.kind # "SD1")
        BY <1>2, <1>7 DEF CardInv, Asked, Holds
    <2>5. result' => type' \in {"SD2", "SDHC"} /\ type' = card'.kind
        BY <2>1, <2>2, <2>4 DEF Kinds
    <2>6. BeginInv' /\ TrueIsDone'  BY <2>2, <2>5 DEF BeginInv, TrueIsDone
    <2>7. QED  BY <1>1, <1>2, <2>2, <2>3, <2>6, CallerKept DEF DataInv, BlockInv, TypeKnown
<1>8. QED  BY <1>2, <1>3, <1>4, <1>5, <1>6, <1>7

\* A call other than begin has the card's type right, whatever is in.
LEMMA CardAddressed ==
    ASSUME CallerInv, TypeKnown, CardInv, op \notin {"none", "begin"}, card.mode = "ready"
    PROVE  type = card.kind /\ RightAddress
BY DEF CallerInv, TypeKnown, CardInv, RightAddress

\* While such a call goes on.
LEMMA OtherKept ==
    ASSUME SDInv, op \notin {"none", "begin"}, CardInv',
           card'.kind = card.kind, card'.mode = card.mode,
           UNCHANGED <<type, op, begun, sequence>>
    PROVE  CallerInv' /\ BeginInv' /\ TypeKnown'
<1>1. CallerInv'  BY CallerKept DEF SDInv
<1>2. BeginInv'  BY DEF BeginInv
<1>3. TypeKnown'  BY DEF TypeKnown, SDInv, CardInv
<1>4. QED  BY <1>1, <1>2, <1>3

LEMMA SendingOther ==
    ASSUME SDInv, at = "send", op # "begin", NEW r \in Responses, Answered(r), OtherGoesOn(r),
           Look, lost' = (lost \/ Holds), UNCHANGED <<type, op, begun, sequence, gone, changes>>
    PROVE  SDInv'
<1> USE DEF SDInv
<1>1. /\ CardInv'
      /\ card'.kind = card.kind /\ card'.in = card.in /\ card'.mode = card.mode
      /\ card'.busy # card.busy => cmd = "CMD38"
      /\ card'.data # card.data => card'.data \in {"none", cmd}
    BY AnsweredCard DEF PlaceInv, Commands, DataInv
<1>2. op \notin {"none", "begin"}  BY DEF PlaceInv
<1>3. CallerInv' /\ BeginInv' /\ TypeKnown'  BY <1>1, <1>2, OtherKept
<1>4. /\ at' \in {"wait", "token", "data", "erasing", "return"}
      /\ at' = "return" => ~chipSelect'
      /\ at' = "wait" =>
            \/ cmd = "CMD55" /\ cmd' = "ACMD23"
            \/ cmd = "ACMD23" /\ cmd' = "CMD25"
            \/ cmd = "CMD32" /\ cmd' = "CMD33"
            \/ cmd = "CMD33" /\ cmd' = "CMD38"
      /\ at' = "token" => cmd \in {"CMD9", "CMD17"} /\ r = "ready"
      /\ at' = "data" => cmd = "CMD24"
      /\ at' = "erasing" => cmd = "CMD38" /\ r = "ready"
      /\ at' = "return" /\ result' => cmd \in {"CMD18", "CMD25", "CMD12"} /\ r = "ready"
    BY DEF OtherGoesOn, Goes, Send, Return, Stays
<1>5. PlaceInv'  BY <1>4 DEF PlaceInv, Commands
<1>6. ~Holds /\ r = "ready" /\ cmd \in {"CMD9", "CMD17", "CMD18", "CMD24", "CMD25", "CMD12", "CMD38"}
         => card.mode = "ready"
    BY DEF Answered, Obeys, Ends, Streaming, Holds, CardInv, R1
<1>7. TrueIsDone'
    <2>1. CASE at' = "return" /\ result' /\ ~Holds
        <3>1. cmd \in {"CMD18", "CMD25", "CMD12"} /\ r = "ready"  BY <1>4, <2>1
        <3>2. \A what : Did(what) = what  BY <1>2, <1>6, <2>1, <3>1, CardAddressed DEF Did
        <3>3. /\ cmd \in {"CMD18", "CMD25"} => "started" \in done'
              /\ cmd = "CMD12" => "ended" \in done'
            BY <2>1, <3>1, <3>2 DEF Answered, Obeys, Ends, Streaming, Holds
        <3>4. QED  BY <3>1, <3>3 DEF TrueIsDone, PlaceInv, Commands
    <2>2. CASE at' = "return" /\ result' /\ Holds
        BY <1>4, <2>2 DEF TrueIsDone, PlaceInv, Commands
    <2>3. QED  BY <2>1, <2>2 DEF TrueIsDone
<1>8. cmd \in {"CMD9", "CMD17", "CMD18"} /\ r = "ready" => card'.data \in {cmd, "none", "CMD25"}
    BY DEF Answered, Obeys, Ends, Streaming, Holds, CardInv
<1>9. cmd = "CMD38" /\ r = "ready" => "erased" \in done'
    <2> SUFFICES ASSUME cmd = "CMD38", r = "ready" PROVE "erased" \in done'  OBVIOUS
    <2>1. ~Holds  BY DEF DataInv, PlaceInv, Commands, Holds
    <2>2. card.mode = "ready" /\ done' = done \cup {Did("erased")}
        BY <2>1 DEF Answered, Obeys, Ends, Streaming, Holds, R1
    <2>3. Did("erased") = "erased"  BY <2>2, <1>2, CardAddressed DEF Did
    <2>4. QED  BY <2>2, <2>3
<1>10. DataInv'
    <2>1. op = "read" /\ at' = "token" => card'.data # "CMD9"
        BY <1>4, <1>8 DEF PlaceInv, Commands
    <2>2. op = "size" /\ at' = "token" => card'.data \notin {"CMD17", "CMD18"}
        BY <1>4, <1>8 DEF PlaceInv, Commands
    <2>3. sequence = "read" => card'.data # "CMD9"
        BY <1>1 DEF PlaceInv, Commands, CallerInv, Single, DataInv
    <2>4. op = "readStart" /\ at' = "return" /\ result' => card'.data # "CMD9"
        BY <1>4, <1>8 DEF PlaceInv, Commands
    <2>5. op = "erase" /\ at' = "wait" => card'.data \in {"none", "CMD18"} /\ ~card'.busy
        BY <1>1, <1>4 DEF PlaceInv, Commands, DataInv, Answered, Obeys, Ends, Streaming, Holds
    <2>6. at' = "erasing" => "erased" \in done'  BY <1>4, <1>9
    <2>7. at' = "token" => "torn" \notin done'
        <3>1. at' = "token" => "torn" \notin done  BY <1>4 DEF DataInv
        <3>2. at' = "token" => done' = done
            BY <1>4 DEF Answered, Obeys, Ends, Streaming, Holds
        <3>3. QED  BY <3>1, <3>2
    <2>8. QED  BY <1>4, <2>1, <2>2, <2>3, <2>4, <2>5, <2>6, <2>7 DEF DataInv
<1>11. BlockInv'
    <2>1. cmd \in {"CMD24", "CMD25"} /\ r = "ready" => card'.data = cmd \/ lost'
        BY DEF Answered, Obeys, Ends, Streaming, Holds, CardInv
    <2>2. at' = "data" => cmd = "CMD24" /\ r = "ready"
        BY DEF OtherGoesOn, Goes, Send, Return, Stays
    <2>3. op = "writeStart" /\ at' = "return" /\ result' => cmd = "CMD25" /\ r = "ready"
        BY <1>4 DEF PlaceInv, Commands
    <2>4. sequence = "write" => op = "none"  BY DEF PlaceInv, Commands, CallerInv, Single
    <2>5. QED  BY <1>2, <2>1, <2>2, <2>3, <2>4 DEF BlockInv, Missed
<1>12. QED  BY <1>1, <1>3, <1>5, <1>7, <1>10, <1>11

LEMMA SendingKeeps == SDInv /\ Sending => SDInv'
BY SendingBegin, SendingOther DEF Sending

LEMMA AwaitTokenKeeps == SDInv /\ AwaitToken => SDInv'
<1> SUFFICES ASSUME SDInv, AwaitToken PROVE SDInv'  OBVIOUS
<1> USE DEF SDInv
<1>1. /\ at = "token" /\ op \in {"read", "size", "erase", "readData"}
      /\ UNCHANGED <<t0, type, op, begun, sequence, lost, gone, changes, done, card>>
      /\ at' \in {"token", "block", "return"}
      /\ at' = "return" => ~result' /\ ~chipSelect'
      /\ at' = "block" => card.data \in Sends
    BY DEF AwaitToken, PlaceInv, Return, Stays, Sends
<1>2. CardInv'  BY <1>1 DEF CardInv
<1>3. PlaceInv'  BY <1>1 DEF PlaceInv
<1>4. CallerInv' /\ BeginInv' /\ TypeKnown'  BY <1>1, <1>2, OtherKept
<1>5. DataInv'  BY <1>1 DEF DataInv
<1>6. BlockInv'  BY <1>1 DEF BlockInv, Missed, CallerInv, Single
<1>7. TrueIsDone'  BY <1>1 DEF TrueIsDone
<1>8. QED  BY <1>2, <1>3, <1>4, <1>5, <1>6, <1>7

LEMMA ReceiveBlockKeeps == SDInv /\ ReceiveBlock => SDInv'
<1> SUFFICES ASSUME SDInv, ReceiveBlock PROVE SDInv'  OBVIOUS
<1> USE DEF SDInv
<1>1. /\ at = "block" /\ op \in {"read", "size", "erase", "readData"}
      /\ UNCHANGED <<t0, type, op, begun, sequence, lost, gone, changes>>
    BY DEF ReceiveBlock, PlaceInv
<1>2. \/ op = "erase" /\ at' = "wait" /\ cmd' = "CMD32"
      \/ at' = "return" /\ ~chipSelect' /\ (result' => op # "erase")
    BY DEF ReceiveBlock, Goes, Send, Return
<1>3. /\ CardInv' /\ card'.kind = card.kind /\ card'.mode = card.mode
      /\ card'.data \in {"none", "CMD18"} /\ ~card'.busy
    <2>1. CASE "torn" \in done
        <3>1. UNCHANGED card /\ card.mode = "off"  BY <1>1, <2>1 DEF ReceiveBlock, DataInv
        <3>2. QED  BY <3>1 DEF CardInv
    <2>2. CASE "torn" \notin done
        <3>1. card' = [card EXCEPT !.data = IF card.data = "CMD18" THEN "CMD18" ELSE "none"]
            BY <2>2 DEF ReceiveBlock
        <3>2. card.data \in Sends  BY <1>1, <2>2 DEF DataInv
        <3>3. QED  BY <3>1, <3>2 DEF CardInv, Data, Sends
    <2>3. QED  BY <2>1, <2>2
<1>4. CallerInv' /\ BeginInv' /\ TypeKnown'  BY <1>1, <1>3, OtherKept
<1>5. PlaceInv'  BY <1>1, <1>2 DEF PlaceInv, Commands
<1>6. /\ op = "size" => {"CSD", "torn"} \cap done' # {}
      /\ op \in {"read", "readData"} => {"sent", "torn"} \cap done' # {}
    <2>1. CASE "torn" \in done  BY <2>1 DEF ReceiveBlock
    <2>2. CASE "torn" \notin done
        <3>1. done' = done \cup {IF card.data = "CMD9" THEN "CSD" ELSE Did("sent")}
            BY <2>2 DEF ReceiveBlock
        <3>2. card.data \in Sends /\ card.mode = "ready"
            BY <1>1, <2>2 DEF DataInv, CardInv, Sends
        <3>3. Did("sent") = "sent"  BY <1>1, <3>2, CardAddressed DEF Did
        <3>4. op = "readData" => sequence = "read"  BY DEF CallerInv
        <3>5. /\ op \in {"read", "readData"} => card.data # "CMD9"
              /\ op = "size" => card.data = "CMD9"
            BY <1>1, <3>2, <3>4 DEF DataInv, Sends
        <3>6. QED  BY <3>1, <3>3, <3>5
    <2>3. QED  BY <2>1, <2>2
<1>7. TrueIsDone'  BY <1>1, <1>2, <1>6 DEF TrueIsDone
<1>8. DataInv'  BY <1>1, <1>2, <1>3 DEF DataInv
<1>9. BlockInv'  BY <1>1, <1>2 DEF BlockInv, Missed, CallerInv, Single
<1>10. QED  BY <1>3, <1>4, <1>5, <1>7, <1>8, <1>9

LEMMA SendDataKeeps == SDInv /\ SendData => SDInv'
<1> SUFFICES ASSUME SDInv, SendData PROVE SDInv'  OBVIOUS
<1> USE DEF SDInv
<1>1. /\ at = "data" /\ op \in {"write", "writeData"}
      /\ UNCHANGED <<t0, type, op, begun, sequence, lost, gone, changes>>
      /\ at' = "return" /\ ~chipSelect'
    BY DEF SendData, PlaceInv, Return
<1>2. /\ CardInv' /\ card'.kind = card.kind /\ card'.mode = card.mode
      /\ card'.data \in {"none", card.data}
      /\ card.data = "CMD25" => card'.data = "CMD25"
    <2>1. CASE /\ card.data \in {"CMD24", "CMD25"}
               /\ card' = [card EXCEPT !.data = IF @ = "CMD25" THEN @ ELSE "none", !.busy = TRUE]
        <3>1. card' = [card EXCEPT !.data = IF card.data = "CMD25" THEN "CMD25" ELSE "none",
                                   !.busy = TRUE]
            BY <2>1
        <3>2. QED  BY <2>1, <3>1 DEF CardInv, Data
    <2>2. CASE card' = [card EXCEPT !.data = IF @ \in {"CMD18", "CMD25"} THEN @ ELSE "none"]
        BY <2>2 DEF CardInv, Data
    <2>3. QED  BY <2>1, <2>2 DEF SendData
<1>3. result' => "stored" \in done'
    <2> SUFFICES ASSUME result' PROVE "stored" \in done'  OBVIOUS
    <2>1. card.data \in {"CMD24", "CMD25"} /\ done' = done \cup {Did("stored")}
        BY DEF SendData, Return
    <2>2. Did("stored") = "stored"  BY <1>1, <2>1, CardAddressed DEF Did, CardInv
    <2>3. QED  BY <2>1, <2>2
<1>4. CallerInv' /\ BeginInv' /\ TypeKnown'  BY <1>1, <1>2, OtherKept
<1>5. PlaceInv'  BY <1>1 DEF PlaceInv
<1>6. DataInv'  BY <1>1, <1>2 DEF DataInv
<1>7. TrueIsDone'  BY <1>1, <1>3 DEF TrueIsDone
<1>8. BlockInv'  BY <1>1, <1>2 DEF BlockInv, Missed
<1>9. QED  BY <1>2, <1>4, <1>5, <1>6, <1>7, <1>8

LEMMA AwaitClearKeeps == SDInv /\ AwaitClear => SDInv'
<1> SUFFICES ASSUME SDInv, AwaitClear PROVE SDInv'  OBVIOUS
<1> USE DEF SDInv
<1>1. /\ at \in {"clear", "ending"} /\ op \in {"writeData", "writeStop"} /\ sequence = "write"
      /\ UNCHANGED <<t0, type, op, begun, sequence, lost, gone, done, changes>>
    BY DEF AwaitClear, PlaceInv, CallerInv
<1>2. /\ CardInv' /\ card'.kind = card.kind /\ card'.mode = card.mode
      /\ card'.data \in {"none", card.data}
      /\ at' = "ending" => card'.data # "CMD25"
      /\ op = "writeData" => card'.data = card.data
    <2>1. CASE UNCHANGED card
        <3>1. at' = "ending" => card.data # "CMD25"
            BY <2>1 DEF AwaitClear, CardInv, DataInv, Stays, Return
        <3>2. QED  BY <2>1, <3>1 DEF CardInv
    <2>2. CASE op = "writeStop" /\ card.data = "CMD25" /\ card' = [card EXCEPT !.data = "none", !.busy = TRUE]
        BY <2>2 DEF CardInv, Data
    <2>3. QED  BY <2>1, <2>2 DEF AwaitClear
<1>3. \/ at' = at /\ chipSelect' = chipSelect
      \/ at' = "return" /\ ~chipSelect' /\ ~result'
      \/ at' = "data" /\ op = "writeData"
      \/ at' = "ending" /\ op = "writeStop"
      \/ at' = "return" /\ ~chipSelect' /\ at = "ending" /\ ~Holds /\ UNCHANGED card
    BY DEF AwaitClear, Stays, Return
<1>4. CallerInv' /\ BeginInv' /\ TypeKnown'  BY <1>1, <1>2, OtherKept
<1>5. PlaceInv'  BY <1>1, <1>3 DEF PlaceInv
<1>6. DataInv'  BY <1>1, <1>2, <1>3 DEF DataInv
<1>7. TrueIsDone'  BY <1>1, <1>3 DEF TrueIsDone, DataInv, PlaceInv, Holds
<1>8. BlockInv'  BY <1>1, <1>2, <1>3 DEF BlockInv, Missed
<1>9. QED  BY <1>2, <1>4, <1>5, <1>6, <1>7, <1>8

LEMMA AwaitErasedKeeps == SDInv /\ AwaitErased => SDInv'
<1> SUFFICES ASSUME SDInv, AwaitErased PROVE SDInv'  OBVIOUS
<1> USE DEF SDInv
<1>1. /\ at = "erasing" /\ op = "erase"
      /\ UNCHANGED <<t0, type, op, begun, sequence, lost, gone, card, done, changes>>
      /\ at' = "erasing" \/ (at' = "return" /\ ~chipSelect' /\ (result' => ~Holds))
    BY DEF AwaitErased, PlaceInv, Return
<1>2. CardInv'  BY <1>1 DEF CardInv
<1>3. CallerInv' /\ BeginInv' /\ TypeKnown'  BY <1>1, <1>2, OtherKept
<1>4. PlaceInv'  BY <1>1 DEF PlaceInv
<1>5. DataInv'  BY <1>1 DEF DataInv
<1>6. TrueIsDone'  BY <1>1 DEF TrueIsDone, DataInv, Holds
<1>7. BlockInv'  BY <1>1 DEF BlockInv, Missed
<1>8. QED  BY <1>2, <1>3, <1>4, <1>5, <1>6, <1>7

LEMMA LeavesKeep == SDInv /\ Leaves => SDInv'
<1> SUFFICES ASSUME SDInv, Leaves PROVE SDInv'  OBVIOUS
<1> USE DEF SDInv, Leaves
<1>1. at = "return" /\ at' = "rest" /\ op' = "none" /\ UNCHANGED <<type, card, chipSelect>>
    OBVIOUS
<1>2. CardInv'  BY <1>1 DEF CardInv
<1>3. PlaceInv'  BY <1>1 DEF PlaceInv
<1>4. sequence' \in {"none", "read", "write"} \/ sequence' = sequence  OBVIOUS
<1>5. op = "begin" /\ result => begun'  OBVIOUS
<1>6. op # "begin" => begun' = begun  OBVIOUS
<1>7. sequence' # "none" => op \notin {"none", "begin"}
    BY <1>1 DEF PlaceInv, CallerInv, Single
<1>8. CallerInv'  BY <1>1, <1>6, <1>7 DEF CallerInv, Single
<1>9. BeginInv'  BY <1>1 DEF BeginInv
<1>10. sequence' = "read" => card.data # "CMD9"  BY <1>1 DEF DataInv
<1>11. DataInv'  BY <1>1, <1>10 DEF DataInv
<1>12. TypeKnown'  BY <1>1, <1>6 DEF TypeKnown, BeginInv
<1>13. TrueIsDone'  BY <1>1 DEF TrueIsDone
<1>14. BlockInv'
    <2>1. sequence' = "write" => card.data = "CMD25" \/ Missed
        BY <1>1 DEF BlockInv, CallerInv, Single, PlaceInv
    <2>2. sequence' = "write" /\ Missed => Missed'  BY DEF Missed
    <2>3. QED  BY <1>1, <2>1, <2>2 DEF BlockInv
<1>15. QED  BY <1>2, <1>3, <1>8, <1>9, <1>11, <1>12, <1>13, <1>14

-----------------------------------------------------------------------------
LEMMA SDHolds == Spec => []SDInv
<1>1. Init => SDInv  BY SDStart DEF Init
<1>2. SDInv /\ [Next]_vars => SDInv'
    <2> SUFFICES ASSUME SDInv, [Next]_vars PROVE SDInv'  OBVIOUS
    <2>1. CASE CardNext
        BY <2>1, CallsKeep, CardAlone, WaitingKeeps, SendingKeeps, AwaitTokenKeeps,
           ReceiveBlockKeeps, SendDataKeeps, AwaitClearKeeps, AwaitErasedKeeps, LeavesKeep
           DEF CardNext, Runs, Calls
    <2>2. CASE UNCHANGED cardVars  BY <2>2, SDStands
    <2>3. QED  BY <2>1, <2>2 DEF Next, vars
<1>3. QED  BY <1>1, <1>2, PTL DEF Spec

\* For any timeouts of the driver (Sd2Card.cpp), and however the card is slow, refuses, is
\* pulled out or exchanged: after a begin that returned true the blocks of a card that is
\* ready are addressed the way it understands; a call that returns true has done what
\* TrueIsDone says of it, with the exceptions that are named there; a block is sent to a card
\* that waits for it, unless a command was missed or the card was pulled out; and between the
\* calls the card is deselected.
THEOREM CardKeptHolds == Spec => []CardKept
<1>1. SDInv => TypeKnown /\ TrueIsDone /\ BusFree
    BY DEF SDInv, PlaceInv, BusFree
<1>2. SDInv => BlockAwaited
    BY DEF SDInv, PlaceInv, CallerInv, BlockInv, BlockAwaited, Missed
<1>3. SDInv => CardKept  BY <1>1, <1>2 DEF CardKept
<1>4. QED  BY <1>3, SDHolds, PTL
=============================================================================
