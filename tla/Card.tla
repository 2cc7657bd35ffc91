-------------------------------- MODULE Card --------------------------------
(***************************************************************************)
(* Sd2Card.cpp: the commands of begin, of reading and writing one block or *)
(* a sequence of them, of reading the CSD and of erasing, with their       *)
(* waits, against a card that may be slow, busy, pulled out, or exchanged  *)
(* for another at any moment, also behind the token of a block it sends.   *)
(* (Of one sent to it, it then answers nothing.) A tick of the model is    *)
(* one look at the card.                                                   *)
(***************************************************************************)
EXTENDS Integers

CONSTANTS InitTimeout, ReadTimeout, WriteTimeout, EraseTimeout,   \* SD_..._TIMEOUT
          Wrap,             \* 2^16
          MaxChanges        \* bounds how often the card is pulled out or put in

ASSUME CardAssumption ==
    /\ {InitTimeout, ReadTimeout, WriteTimeout, EraseTimeout, MaxChanges} \subseteq Nat
    /\ Wrap \in Nat /\ InitTimeout + 3 * (WriteTimeout + 1) < Wrap /\ EraseTimeout < Wrap

VARIABLES ms, t0, t1,       \* millis(), when begin or a wait for data, and waitNotBusy began
          type, chipSelect,   \* as in Sd2Card
          op, at, cmd,      \* the call, where in it, and its command
          result,           \* what the last call has returned
          begun,            \* the last begin has returned true
          sequence,         \* what the caller is in: reading or writing block after block
          lost,             \* in this call or sequence a busy card has missed a command ...
          gone,             \* ... or the card was pulled out
          card,             \* the card (external)
          done,             \* what has come of this call at the card
          changes

cardVars == <<ms, t0, t1, type, chipSelect, op, at, cmd, result, begun, sequence, lost, gone, card,
              done, changes>>

Kinds == {"SD1", "SD2", "SDHC"}

\* A card that has just got power understands CMD0 only.
Fresh(kind) == [kind |-> kind, in |-> TRUE, mode |-> "off", busy |-> FALSE, data |-> "none"]

CardInit ==
    /\ ms \in 0 .. Wrap - 1 /\ t0 = 0 /\ t1 = 0
    /\ type = "none" /\ chipSelect = FALSE
    /\ op = "none" /\ at = "rest" /\ cmd = "none" /\ result = FALSE
    /\ begun = FALSE /\ sequence = "none" /\ lost = FALSE /\ gone = FALSE
    /\ \E kind \in Kinds : \E in \in BOOLEAN : card = [Fresh(kind) EXCEPT !.in = in]
    /\ done = {} /\ changes = 0

-----------------------------------------------------------------------------
\* The card. Without a card the line is pulled up; a busy card holds it down,
\* which reads as 0, "ready".

Holds == card.in /\ card.busy

Responses == {"silent", "idle", "ready", "illegal", "error"}
R1(mode) == IF mode = "ready" THEN "ready" ELSE "idle"

\* A block or range is addressed in bytes but for an SDHC.
RightAddress == (type = "SDHC") = (card.kind = "SDHC")
Did(what) == IF RightAddress THEN what ELSE "elsewhere"

\* What an initialised card says and does; it may refuse the rest.
Obeys(r) ==
    \/ cmd \in {"CMD58", "CMD32", "CMD33", "ACMD23"} /\ r = "ready" /\ UNCHANGED <<card, done>>
    \/ /\ cmd \in {"CMD9", "CMD17", "CMD24", "CMD18", "CMD25"} /\ r = "ready"
       /\ card' = [card EXCEPT !.data = cmd]
       /\ done' = IF cmd \in {"CMD18", "CMD25"} THEN done \cup {Did("started")} ELSE done
    \/ /\ cmd = "CMD38" /\ r = "ready"
       /\ card' = [card EXCEPT !.busy = TRUE] /\ done' = done \cup {Did("erased")}

\* In the middle of a sequence a card listens to its end and to CMD0.
Streaming == card.in /\ card.data \in {"CMD18", "CMD25"}
Ends(r) ==
    /\ cmd = "CMD12" /\ r = "ready"
    /\ card' = [card EXCEPT !.data = "none"] /\ done' = done \cup {"ended"}

\* What may come of a command that has been sent.
Answered(r) ==
    \/ /\ Streaming /\ ~card.busy /\ cmd # "CMD0"
       /\ \/ r \in {"silent", "error"} /\ UNCHANGED <<card, done>>
          \/ card.data = "CMD18" /\ Ends(r)
    \/ ~card.in /\ r = "silent" /\ UNCHANGED <<card, done>>
    \/ Holds /\ r = "ready" /\ UNCHANGED <<card, done>>
    \/ /\ card.in /\ ~card.busy /\ (Streaming => cmd = "CMD0")
       /\ \/ /\ cmd = "CMD0" /\ r = "idle"
             /\ card' = [card EXCEPT !.mode = "idle", !.data = "none"] /\ UNCHANGED done
          \/ /\ cmd # "CMD0" /\ card.mode = "off" /\ r = "silent" /\ UNCHANGED <<card, done>>
          \/ /\ cmd \in {"CMD8", "CMD55"} /\ card.mode # "off"
             /\ r = IF cmd = "CMD8" /\ card.kind = "SD1" THEN "illegal" ELSE R1(card.mode)
             /\ UNCHANGED <<card, done>>
          \/ /\ cmd = "ACMD41" /\ card.mode # "off" /\ UNCHANGED done
             /\ \/ r = "idle" /\ UNCHANGED card
                \/ /\ r = "ready" /\ (card.kind = "SDHC" => type = "SD2")
                   /\ card' = [card EXCEPT !.mode = "ready"]
          \/ /\ cmd \notin {"CMD0", "CMD8", "CMD55", "ACMD41"} /\ card.mode # "off"
             /\ \/ card.mode = "ready" /\ Obeys(r)
                \/ r = "error" /\ UNCHANGED <<card, done>>

\* Time spent programming or erasing ends some time, or does not.
CardFinishes ==
    /\ Holds /\ card' = [card EXCEPT !.busy = FALSE]
    /\ UNCHANGED <<ms, t0, t1, type, chipSelect, op, at, cmd, result, begun, sequence, lost, gone,
                   done, changes>>

CardComesOrGoes ==
    /\ changes < MaxChanges /\ changes' = changes + 1
    /\ IF card.in
       THEN /\ card' = [card EXCEPT !.in = FALSE, !.mode = "off", !.busy = FALSE, !.data = "none"]
            /\ gone' = (op # "none" \/ sequence # "none")
            /\ done' = IF at = "block" THEN done \cup {"torn"} ELSE done
       ELSE (\E kind \in Kinds : card' = Fresh(kind)) /\ UNCHANGED <<gone, done>>
    /\ UNCHANGED <<ms, t0, t1, type, chipSelect, op, at, cmd, result, begun, sequence, lost>>

-----------------------------------------------------------------------------
\* (uint16_t)millis() - t0, in an int of 16 bits; the faulty one is that of
\* a processor whose int has 32.
FaultyElapsed(t) == ms - t
Elapsed(t) == (ms - t) % Wrap

Look == ms' = (ms + 1) % Wrap

\* A command begins: the card is selected, and waited for.
Send(c) == at' = "wait" /\ cmd' = c /\ chipSelect' = TRUE /\ t1' = ms

\* A call returns: on every path the card is deselected.
Return(value) == at' = "return" /\ result' = value /\ chipSelect' = FALSE /\ UNCHANGED <<t1, cmd>>

Enter(o) ==
    /\ op = "none" /\ op' = o
    /\ t0' = ms /\ done' = {}
    /\ UNCHANGED <<ms, result, lost, gone, card, changes>>

Call(o, c) == Enter(o) /\ Send(c)

\* The calls that send no command, but select the card.
CallData(o, place) ==
    Enter(o) /\ at' = place /\ t1' = ms /\ chipSelect' = TRUE /\ UNCHANGED <<cmd, type, begun>>

CallBegin == Call("begin", "CMD0") /\ type' = "none" /\ begun' = FALSE /\ sequence' = "none"

\* Between the start and the stop of a sequence the caller only goes on with it.
Alone == begun /\ sequence = "none" /\ UNCHANGED <<type, begun, sequence>>
CallRead == Alone /\ Call("read", "CMD17")
CallWrite == Alone /\ Call("write", "CMD24")
CallErase == Alone /\ Call("erase", "CMD9")
CallCardSize == Alone /\ Call("size", "CMD9")
CallReadStart == Alone /\ Call("readStart", "CMD18")
CallWriteStart == Alone /\ Call("writeStart", "CMD55")
CallReadData == sequence = "read" /\ CallData("readData", "token") /\ UNCHANGED sequence
CallReadStop ==
    /\ sequence = "read" /\ Call("readStop", "CMD12")
    /\ UNCHANGED <<type, begun, sequence>>
CallWriteData == sequence = "write" /\ CallData("writeData", "clear") /\ UNCHANGED sequence
CallWriteStop == sequence = "write" /\ CallData("writeStop", "clear") /\ UNCHANGED sequence

\* waitNotBusy(SD_WRITE_TIMEOUT), whose result cardCommand does not look at.
Waiting ==
    /\ at = "wait"
    /\ IF Holds /\ Elapsed(t1) < WriteTimeout THEN Look /\ UNCHANGED at
       ELSE at' = "send" /\ UNCHANGED ms
    /\ UNCHANGED <<t0, t1, type, chipSelect, op, cmd, result, begun, sequence, lost, gone, card,
                   done, changes>>

\* One more round of a loop of begin, if there is time.
Goes(c) == Send(c) /\ UNCHANGED result
Again(c) == IF Elapsed(t0) > InitTimeout THEN Return(FALSE) ELSE Goes(c)

\* What begin does with an answer.
BeginGoesOn(r) ==
    \/ cmd = "CMD0" /\ r = "idle" /\ Goes("CMD8") /\ UNCHANGED type
    \/ cmd = "CMD0" /\ r # "idle" /\ Again("CMD0") /\ UNCHANGED type
    \/ cmd = "CMD8" /\ r = "illegal" /\ type' = "SD1" /\ Goes("CMD55")
    \/ /\ cmd = "CMD8" /\ r # "illegal"
       /\ IF r \in {"idle", "ready"} /\ ~Holds      \* 0xAA comes back
          THEN type' = "SD2" /\ Goes("CMD55")
          ELSE Again("CMD8") /\ UNCHANGED type
    \/ cmd = "CMD55" /\ Goes("ACMD41") /\ UNCHANGED type
    \/ cmd = "ACMD41" /\ r # "ready" /\ Again("CMD55") /\ UNCHANGED type
    \/ cmd = "ACMD41" /\ r = "ready" /\ type = "SD2" /\ Goes("CMD58") /\ UNCHANGED type
    \/ cmd = "ACMD41" /\ r = "ready" /\ type # "SD2" /\ Return(TRUE) /\ UNCHANGED type
    \/ cmd = "CMD58" /\ r # "ready" /\ Return(FALSE) /\ UNCHANGED type
    \/ /\ cmd = "CMD58" /\ r = "ready" /\ Return(TRUE)
       /\ type' = IF ~Holds /\ card.kind = "SDHC" THEN "SDHC" ELSE type

\* What the others do with one.
Stays(place) == at' = place /\ UNCHANGED <<t1, cmd, result, chipSelect>>
OtherGoesOn(r) ==
    \/ cmd = "CMD55" /\ Goes("ACMD23") /\ UNCHANGED t0
    \/ r # "ready" /\ cmd # "CMD55" /\ Return(FALSE) /\ UNCHANGED t0
    \/ /\ r = "ready"
       /\ \/ cmd \in {"CMD9", "CMD17"} /\ Stays("token") /\ t0' = ms
          \/ cmd = "CMD24" /\ Stays("data") /\ UNCHANGED t0
          \/ cmd = "ACMD23" /\ Goes("CMD25") /\ UNCHANGED t0
          \/ cmd \in {"CMD18", "CMD25", "CMD12"} /\ Return(TRUE) /\ UNCHANGED t0
          \/ cmd = "CMD32" /\ Goes("CMD33") /\ UNCHANGED t0
          \/ cmd = "CMD33" /\ Goes("CMD38") /\ UNCHANGED t0
          \/ cmd = "CMD38" /\ Stays("erasing") /\ t0' = ms

Sending ==
    /\ at = "send"
    /\ \E r \in Responses :
         /\ Answered(r)
         /\ IF op = "begin" THEN BeginGoesOn(r) /\ UNCHANGED t0
            ELSE OtherGoesOn(r) /\ UNCHANGED type
    /\ Look
    /\ lost' = (lost \/ Holds)
    /\ UNCHANGED <<op, begun, sequence, gone, changes>>

\* readData: the token ...
AwaitToken ==
    /\ at = "token"
    /\ Look
    /\ \/ /\ ~Holds /\ Elapsed(t0) <= ReadTimeout
          /\ UNCHANGED <<at, cmd, result, chipSelect, t1, done, card>>
       \/ /\ Holds \/ Elapsed(t0) > ReadTimeout \/ card.data # "none"   \* an error token
          /\ Return(FALSE) /\ UNCHANGED <<done, card>>
       \/ /\ card.data \in {"CMD9", "CMD17", "CMD18"} /\ ~Holds
          /\ Stays("block") /\ UNCHANGED <<done, card>>
    /\ UNCHANGED <<t0, type, op, begun, sequence, lost, gone, changes>>

\* ... and the block or the CSD behind it. What is missing when the card is pulled out in
\* the middle reads as ones, which nobody tells from data: no CRC is looked at.
ReceiveBlock ==
    /\ at = "block"
    /\ Look
    /\ IF "torn" \in done THEN UNCHANGED <<card, done>>
       ELSE /\ card' = [card EXCEPT !.data = IF @ = "CMD18" THEN @ ELSE "none"]
            /\ done' = done \cup {IF card.data = "CMD9" THEN "CSD" ELSE Did("sent")}
    /\ IF op = "erase"
       THEN \/ Goes("CMD32")
            \/ Return(FALSE)           \* it cannot erase these blocks
       ELSE \/ Return(TRUE)
            \/ op = "size" /\ Return(FALSE)      \* a CSD of neither version
    /\ UNCHANGED <<t0, type, op, begun, sequence, lost, gone, changes>>

FaultySendData ==        \* what the card thinks of the block is not looked at
    /\ at = "data"
    /\ Look
    /\ card' = [card EXCEPT !.data = IF @ = "CMD25" THEN @ ELSE "none",
                            !.busy = @ \/ card.data \in {"CMD24", "CMD25"}]
    /\ done' = IF card.data \in {"CMD24", "CMD25"} THEN done \cup {Did("stored")} ELSE done
    /\ Return(TRUE)
    /\ UNCHANGED <<t0, type, op, begun, sequence, lost, gone, changes>>
\* writeData: the block, and what the card thinks of it. That it is programmed
\* is not waited for (CHECK_PROGRAMMING).
SendData ==
    /\ at = "data"
    /\ Look
    /\ \/ /\ card.data \in {"CMD24", "CMD25"} /\ ~Holds
          /\ card' = [card EXCEPT !.data = IF @ = "CMD25" THEN @ ELSE "none", !.busy = TRUE]
          /\ done' = done \cup {Did("stored")}
          /\ Return(TRUE)
       \/ /\ card' = [card EXCEPT !.data = IF @ \in {"CMD18", "CMD25"} THEN @ ELSE "none"]
          /\ UNCHANGED done /\ Return(FALSE)
    /\ UNCHANGED <<t0, type, op, begun, sequence, lost, gone, changes>>

\* waitNotBusy in a sequence of writes: before each block and around the
\* token that ends it. A card that is not there is not busy.
AwaitClear ==
    /\ at \in {"clear", "ending"}
    /\ Look
    /\ \/ /\ Holds /\ Elapsed(t1) < WriteTimeout
          /\ UNCHANGED <<at, cmd, result, chipSelect, t1, card>>
       \/ Holds /\ Elapsed(t1) >= WriteTimeout /\ Return(FALSE) /\ UNCHANGED card
       \/ ~Holds /\ op = "writeData" /\ Stays("data") /\ UNCHANGED card
       \/ /\ ~Holds /\ op = "writeStop" /\ at = "clear"
          /\ at' = "ending" /\ t1' = ms'
          /\ card' = IF card.data = "CMD25" THEN [card EXCEPT !.data = "none", !.busy = TRUE]
                     ELSE card
          /\ UNCHANGED <<cmd, result, chipSelect>>
       \/ ~Holds /\ at = "ending" /\ Return(TRUE) /\ UNCHANGED card
    /\ UNCHANGED <<t0, type, op, begun, sequence, lost, gone, done, changes>>

AwaitErased ==
    /\ at = "erasing"
    /\ Look
    /\ IF ~Holds THEN Return(TRUE)
       ELSE IF Elapsed(t0) >= EraseTimeout THEN Return(FALSE)
       ELSE UNCHANGED <<at, cmd, result, chipSelect, t1>>
    /\ UNCHANGED <<t0, type, op, begun, sequence, lost, gone, card, done, changes>>

\* The caller takes the result. After a begin that failed it does not go on,
\* and a sequence in which a call failed it leaves where it is.
Leaves ==
    /\ at = "return"
    /\ op' = "none" /\ at' = "rest" /\ cmd' = "none" /\ result' = FALSE /\ done' = {}
    /\ t0' = 0 /\ t1' = 0
    /\ begun' = IF op = "begin" THEN result ELSE begun
    /\ sequence' = IF ~result \/ op \in {"readStop", "writeStop"} THEN "none"
                   ELSE IF op = "readStart" THEN "read"
                   ELSE IF op = "writeStart" THEN "write"
                   ELSE sequence
    /\ lost' = (lost /\ sequence' # "none") /\ gone' = (gone /\ sequence' # "none")
    /\ UNCHANGED <<ms, type, chipSelect, card, changes>>

Runs ==
    \/ Waiting \/ Sending \/ AwaitToken \/ ReceiveBlock \/ SendData \/ AwaitClear \/ AwaitErased
    \/ Leaves

CardNext ==
    \/ CallBegin \/ CallRead \/ CallWrite \/ CallErase \/ CallCardSize
    \/ CallReadStart \/ CallReadData \/ CallReadStop
    \/ CallWriteStart \/ CallWriteData \/ CallWriteStop
    \/ Runs
    \/ CardFinishes \/ CardComesOrGoes

\* The program goes on while it is in a call; the card owes nothing.
CardSpec == CardInit /\ [][CardNext]_cardVars /\ WF_cardVars(Runs)

-----------------------------------------------------------------------------
\* A card that is ready has been asked by this program for what it is: the
\* blocks are addressed the way it understands, also after an exchange.
TypeKnown == begun /\ card.in /\ card.mode = "ready" => type = card.kind

\* What true means. A block was taken by the card (nobody waits until it is programmed),
\* an erasure was begun, a sequence of writes is over, and no card that is in is still busy
\* with the last two; all that at the right block. But a block or register sent by the
\* card may end in ones if it was pulled out in the middle (Sd2Card.cpp:388-407), the start
\* of a sequence and the end of a sequence of reads may be a command that a busy card has
\* missed, whose busy level was taken for the answer (Sd2Card.cpp:122), and without a card
\* there is nothing to end.
TrueIsDone ==
    at = "return" /\ result =>
      /\ op = "begin" => type # "none"
      /\ op = "size" => {"CSD", "torn"} \cap done # {}
      /\ op \in {"read", "readData"} => {"sent", "torn"} \cap done # {}
      /\ op \in {"write", "writeData"} => "stored" \in done
      /\ op \in {"readStart", "writeStart"} => "started" \in done \/ lost
      /\ op = "readStop" => "ended" \in done \/ lost
      /\ op = "writeStop" => card.data # "CMD25" /\ ~Holds
      /\ op = "erase" => "erased" \in done /\ ~Holds

\* A block is sent only to a card that waits for one (another would take it for commands),
\* unless the command before it was missed or the card exchanged.
BlockAwaited == at = "data" => card.data \in {"CMD24", "CMD25"} \/ lost \/ gone

\* Between calls the bus is free for its other users.
BusFree == op = "none" => ~chipSelect

CardKept == TypeKnown /\ TrueIsDone /\ BlockAwaited /\ BusFree

\* Every call ends, whatever the card does.
CallsEnd == op # "none" ~> op = "none"

=============================================================================
