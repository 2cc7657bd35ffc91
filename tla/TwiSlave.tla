------------------------------ MODULE TwiSlave ------------------------------
(***************************************************************************)
(* The other half of twi.c and Wire.cpp: a program that has called         *)
(* Wire.begin(address) and serves another master of the bus from the       *)
(* interrupt, while it prepares and reads messages of its own.             *)
(***************************************************************************)
EXTENDS Twi

VARIABLES inBuffer,              \* twi_rxBuffer, up to twi_rxBufferIndex
          outBuffer, outIndex,   \* twi_txBuffer, up to twi_txBufferLength
          listens,    \* onReceive and onRequest have been called
          line,       \* what the master does: nothing, writing or reading
          telling,    \* TWI_vect is between twi_stop and twi_releaseBus, in the callback
          missed,     \* the event of the present address was cleared unseen
          sent, got   \* the bytes of the master that were acknowledged, and those it got

slaveVars == <<inBuffer, outBuffer, outIndex, listens, line, telling, missed, sent, got>>
twiRest == <<txAddress, inRepStart, sendStop, slarw, buffer, index, length, bus, call, ret, device>>

SlaveInit ==
    /\ inBuffer = <<>> /\ outBuffer = <<>> /\ outIndex = 0
    /\ listens \in BOOLEAN
    /\ line = "free" /\ telling = FALSE /\ missed = FALSE /\ sent = <<>> /\ got = <<>>

AtMost(s) == SubSeq(s, 1, IF Len(s) < BufferLength THEN Len(s) ELSE BufferLength)

-----------------------------------------------------------------------------
\* The master writes. Addressed, the station acknowledges: everybody may be
\* addressed as long as TWEA is set.
AddressedToWrite ==
    /\ line = "free" /\ ack /\ ~telling
    /\ line' = "write" /\ state' = "SRX" /\ inBuffer' = <<>> /\ sent' = <<>>
    /\ UNCHANGED <<ack, tx, transmitting, rx, rxIndex, error, outBuffer, outIndex, telling, missed,
                   got>>

\* A byte that was acknowledged by the reply to the one before it; the one
\* behind the last place is acknowledged and dropped.
Written(b) ==
    /\ line = "write" /\ ack /\ ~telling
    /\ sent' = Append(sent, b)
    /\ ack' = (Len(inBuffer) < BufferLength)
    /\ inBuffer' = AtMost(Append(inBuffer, b))
    /\ UNCHANGED <<line, state, tx, transmitting, rx, rxIndex, error, outBuffer, outIndex, telling,
                   missed, got>>

\* The next one is not, and no stop is reported for it any more.
WrittenTooMuch ==
    /\ line = "write" /\ ~ack /\ ~telling
    /\ line' = "free" /\ missed' = FALSE
    /\ UNCHANGED <<ack, state, tx, transmitting, rx, rxIndex, error, inBuffer, outBuffer, outIndex,
                   telling, sent, got>>

FaultyOnReceiveService ==     \* overwrites what is not read yet
    IF ~listens THEN UNCHANGED <<rx, rxIndex>>
    ELSE rx' = inBuffer /\ rxIndex' = 0
\* The message goes to the program, unless that still has one to read.
OnReceiveService ==
    IF ~listens \/ rxIndex < Len(rx) THEN UNCHANGED <<rx, rxIndex>>
    ELSE rx' = inBuffer /\ rxIndex' = 0

\* A stop or a repeated start: twi_stop lets the hardware go on before the callback.
WriteEnds ==
    /\ line = "write" /\ ~telling
    /\ state' = "READY" /\ ack' = TRUE /\ line' = "free" /\ telling' = TRUE /\ missed' = FALSE
    /\ UNCHANGED <<tx, transmitting, rx, rxIndex, error, inBuffer, outBuffer, outIndex, sent, got>>

\* It may acknowledge the next address already. That event waits, and the bus with it.
AddressedMeanwhile ==
    /\ telling /\ line = "free"
    /\ line' \in {"write", "read"}
    /\ UNCHANGED <<tx, transmitting, rx, rxIndex, state, ack, error, inBuffer, outBuffer, outIndex,
                   telling, missed, sent, got>>

\* The callback, and twi_releaseBus, which clears whatever event is waiting.
BusReleased ==
    /\ telling /\ telling' = FALSE
    /\ OnReceiveService
    /\ inBuffer' = <<>> /\ sent' = <<>>
    /\ missed' = (line # "free")
    /\ state' = "READY" /\ ack' = TRUE
    /\ UNCHANGED <<tx, transmitting, error, outBuffer, outIndex, line, got>>

-----------------------------------------------------------------------------
\* The master reads.

Offers == UNION {[1 .. n -> Byte] : n \in 0 .. BufferLength + 1}

\* twi_transmit from the callback: what does not fit is not taken, and while
\* the program has a transmission open its write() goes there.
Taken(w) == IF listens /\ ~transmitting /\ Len(w) \in 1 .. BufferLength THEN w ELSE <<0>>

\* onRequestService empties what the program was about to send.
OnRequestService(w) ==
    tx' = IF ~listens THEN tx ELSE IF transmitting THEN AtMost(w) ELSE <<>>

AddressedToRead(w) ==
    /\ line = "free" /\ ack /\ ~telling
    /\ line' = "read" /\ state' = "STX" /\ got' = <<>>
    /\ OnRequestService(w)
    /\ outBuffer' = Taken(w) /\ outIndex' = 1 /\ ack' = (1 < Len(outBuffer'))
    /\ UNCHANGED <<transmitting, rx, rxIndex, error, inBuffer, telling, missed, sent>>

\* A byte has gone out, and the master wants another or not.
Idle == line' = "free" /\ state' = "READY" /\ ack' = TRUE /\ missed' = FALSE
ByteRead(more) ==
    /\ line = "read" /\ ~telling /\ ~missed
    /\ IF more /\ ack
         THEN /\ got' = Append(got, outBuffer[outIndex])
              /\ outIndex' = outIndex + 1 /\ ack' = (outIndex' < Len(outBuffer))
              /\ UNCHANGED <<line, state, missed, outBuffer>>
         ELSE Idle /\ got' = <<>> /\ outBuffer' = <<>> /\ outIndex' = 0
    /\ UNCHANGED <<tx, transmitting, rx, rxIndex, error, inBuffer, telling, sent>>

\* A master whose address was missed reads what TWDR holds, and then twi_txBuffer from where
\* the one before it has stopped, also behind the array: any bytes, any number of them.
StaleRead ==
    /\ line = "read" /\ ~telling /\ missed
    /\ \/ ack /\ ack' \in BOOLEAN /\ UNCHANGED <<line, state, missed>>
       \/ Idle
    /\ UNCHANGED <<tx, transmitting, rx, rxIndex, error, inBuffer, outBuffer, outIndex, telling,
                   sent, got>>

\* A bus error while a master has the station.
SlaveDisturbed ==
    /\ line # "free" /\ ~telling
    /\ error' = "BUS_ERROR" /\ Idle
    /\ inBuffer' = <<>> /\ sent' = <<>> /\ got' = <<>> /\ outBuffer' = <<>> /\ outIndex' = 0
    /\ UNCHANGED <<tx, transmitting, rx, rxIndex, telling>>

SlaveInterrupt ==
    /\ \/ AddressedToWrite \/ WrittenTooMuch \/ SlaveDisturbed
       \/ WriteEnds \/ AddressedMeanwhile \/ BusReleased \/ StaleRead
       \/ \E b \in Byte : Written(b)
       \/ \E w \in Offers : AddressedToRead(w)
       \/ \E more \in BOOLEAN : ByteRead(more)
    /\ UNCHANGED <<twiRest, listens>>

SlaveProgram ==
    /\ ~telling
    /\ \/ \E a \in Address : BeginTransmission(a)
       \/ \E b \in Byte : WireWrite(b)
       \/ WireRead
    /\ UNCHANGED slaveVars

SlaveNext == SlaveInterrupt \/ SlaveProgram

SlaveSpec == TwiInit /\ SlaveInit /\ [][SlaveNext]_<<twiVars, slaveVars>>

-----------------------------------------------------------------------------
\* What is on its way is what the master has sent, or what it was offered; of
\* the acknowledged bytes one at most is dropped. Between two masters' calls the
\* station can be addressed again, unless one has sent more than it had room for.
\* Of an address that comes while the message before it is handed on (twi.c:468-474)
\* the event is lost: its writer is served all the same, though twi_state says READY;
\* its reader gets bytes that nobody has offered it.
Served ==
    /\ line = "write" /\ ~telling =>
         state = (IF missed THEN "READY" ELSE "SRX") /\ inBuffer = AtMost(sent)
         /\ Len(sent) <= BufferLength + 1
    /\ line = "read" /\ ~telling /\ ~missed =>
         state = "STX" /\ got = SubSeq(outBuffer, 1, outIndex - 1)
         /\ outIndex \in 1 .. Len(outBuffer) /\ (ack = (outIndex < Len(outBuffer)))
    /\ line = "free" => \/ state = "READY" /\ ack
                        \/ state \in {"SRX", "READY"} /\ ~ack /\ Len(sent) = BufferLength + 1

\* A message reaches the program whole, up to the room there is, and only after
\* it has read the one before; no master changes what the program is reading.
Delivered == rx' # rx => rxIndex = Len(rx) /\ telling /\ rx' = AtMost(sent)

=============================================================================
