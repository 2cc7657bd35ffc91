--------------------------- MODULE SessionProofs ---------------------------
(***************************************************************************)
(* What holds of Session for all tables, types, buffers, waits, numbers of *)
(* commands and of power failures; what SensApl's tables are, as long as   *)
(* nobody disconnects; what the tables hold, as long as nothing is lost at *)
(* a full buffer.                                                          *)
(***************************************************************************)
EXTENDS Session, TLAPS, FiniteSetTheorems

-----------------------------------------------------------------------------
(* The station *)

\* Places in which a command is under way
Commanded == {"retype", "store", "delay", "time", "stream"}

\* Without the line nothing is in the buffer and no command under way.
ServeInv ==
    /\ ClientServed
    /\ ~serialOn => rx = <<>>
    /\ at \in Commanded => serialOn

\* What a byte read by serialEvent starts is a command, or nothing.
LEMMA ReadOtherNext ==
    ASSUME ReadOther PROVE at' \in {"retype", "delay", "time", "stream", "event"}
<1>1. CASE Head(rx) = T  BY <1>1, Zenon DEF ReadOther
<1>2. CASE Head(rx) # T /\ Head(rx) = D  BY <1>2, Zenon DEF ReadOther
<1>3. CASE Head(rx) # T /\ Head(rx) # D /\ Head(rx) = B  BY <1>3, Zenon DEF ReadOther
<1>4. CASE Head(rx) # T /\ Head(rx) # D /\ Head(rx) # B /\ Head(rx) = M
    BY <1>4, Zenon DEF ReadOther
<1>5. CASE Head(rx) # T /\ Head(rx) # D /\ Head(rx) # B /\ Head(rx) # M
    BY <1>5, Zenon DEF ReadOther
<1>6. QED  BY <1>1, <1>2, <1>3, <1>4, <1>5

\* No step of the station breaks ServeInv. A handshake needs a byte in the buffer, and
\* so a line that is started; and the loop, which reads it, is not in the menu.
LEMMA ServeDevice ==
    ASSUME ServeInv, DeviceStep \/ UserStep PROVE ServeInv'
<1> USE DEF ServeInv, ClientServed, Commanded
<1>1. CASE Pass  BY <1>1 DEF Pass
<1>2. CASE Wait  BY <1>2 DEF Wait, wireVars
<1>3. CASE PollSel
    <2>1. CASE StartStop
        <3>1. rx' = <<>> /\ at' = "released"  BY <2>1 DEF StartStop
        <3>2. conected' = (conected /\ serialOn')  BY <2>1 DEF StartStop
        <3>3. conected' => serialOn'  BY <3>2, Zenon
        <3>4. QED  BY <3>1, <3>3
    <2>2. CASE NoKey  BY <2>2 DEF NoKey
    <2>3. QED  BY <1>3, <2>1, <2>2 DEF PollSel
<1>4. CASE EventEnd  BY <1>4 DEF EventEnd, wireVars
<1>5. CASE ReadY  BY <1>5 DEF ReadY
<1>6. CASE ReadX  BY <1>6 DEF ReadX
<1>7. CASE ReadOther  BY <1>7, ReadOtherNext DEF ReadOther
<1>8. CASE RetypeEvent  BY <1>8 DEF RetypeEvent
<1>9. CASE StoreEvent  BY <1>9 DEF StoreEvent, wireVars
<1>10. CASE DelayEvent  BY <1>10 DEF DelayEvent
<1>11. CASE TimeEvent  BY <1>11 DEF TimeEvent
<1>12. CASE Stream  BY <1>12 DEF Stream
<1>13. CASE Released  BY <1>13 DEF Released, wireVars
<1>14. CASE MenuRetype  BY <1>14 DEF MenuRetype, wireVars
<1>15. CASE MenuSetTime \/ MenuSetDelay  BY <1>15 DEF MenuSetTime, MenuSetDelay, wireVars
<1>16. CASE MenuLeave  BY <1>16 DEF MenuLeave, wireVars
<1>17. CASE Restart  BY <1>17 DEF Restart
<1>18. QED
    BY <1>1, <1>2, <1>3, <1>4, <1>5, <1>6, <1>7, <1>8, <1>9, <1>10, <1>11, <1>12, <1>13,
       <1>14, <1>15, <1>16, <1>17 DEF DeviceStep, UserStep, SerialEvent

\* SensApl touches nothing of the station, only its own end of the line.
LEMMA AppLeavesStation ==
    ASSUME Commands \/ EdtStep \/ ReaderStep PROVE UNCHANGED <<rx, serialOn>>
<1>1. CASE Commands
    BY <1>1 DEF Commands, Connect, Disconnect, Retype, SetDelay, SetTime, StartReading,
                StopReading, Exit
<1>2. CASE EdtStep  BY <1>2 DEF EdtStep, ConnectEnd, Close, SetTimeEnd
<1>3. CASE ReaderStep
    BY <1>3 DEF ReaderStep, Enter, Leave, ReadFirst, ReadRest, wireVars
<1>4. QED  BY <1>1, <1>2, <1>3

LEMMA ServeNext == ASSUME ServeInv, [Next]_vars PROVE ServeInv'
<1>1. CASE (DeviceStep \/ UserStep) /\ UNCHANGED appVars  BY <1>1, ServeDevice
<1>2. CASE (Commands \/ EdtStep \/ ReaderStep) /\ UNCHANGED deviceVars
    BY <1>2, AppLeavesStation DEF ServeInv, ClientServed, deviceVars
<1>3. CASE Deliver /\ UNCHANGED <<deviceVars, appVars>>
    BY <1>3 DEF Deliver, ServeInv, ClientServed, deviceVars
<1>4. CASE UNCHANGED vars
    BY <1>4 DEF vars, wireVars, deviceVars, ServeInv, ClientServed
<1>5. QED  BY <1>1, <1>2, <1>3, <1>4 DEF Next

\* Whatever the user of the station and the one of SensApl do, and whenever the power
\* fails: a station that has a client has its line started and its one thread out of
\* the menu (Sensuino.ino:100-128, Serial.h:108-121).
THEOREM ClientServedHolds == Spec => []ClientServed
<1>1. Init => ServeInv
    BY DEF Init, DeviceInit, ServeInv, ClientServed, Commanded
<1>2. ServeInv /\ [Next]_vars => ServeInv'  BY ServeNext
<1>3. ServeInv => ClientServed  BY DEF ServeInv
<1>4. QED  BY <1>1, <1>2, <1>3, PTL DEF Spec

-----------------------------------------------------------------------------
(* The messages under way. SensApl's tables follow those of the station:   *)
(* every change of the station's tables, once there is a client, is told   *)
(* by a message, and the messages are read in their order. So the types    *)
(* under which a message of values was measured are the ones that the last *)
(* message before it tells, or that SensApl has.                           *)

Token == 0..255 \cup {NumberText, TimeText}
Kind == {"Y", "TA", "TD", "C", "D", "V", "A", "M"}
Table == UNION {[S -> Token] : S \in SUBSET Directors}
Messages == [k : Kind, n : Nat, types : Table]

FlowTypes ==
    /\ toDevice \in Seq(Token) /\ rx \in Seq(Token)
    /\ toApp \in Seq(Messages)
    /\ types \in [Directors -> Token] /\ kept \in [Directors -> Token]
    /\ appTypes = [d \in Directors |-> appTypes[d]]

\* Message m tells the type of pin d.
Tells(m, d) == m.k \in {"TA", "TD"} /\ d \in DOMAIN m.types

\* With the messages q under way, and contact c, SensApl listens to what stands at i, or
\* will by then.
Heard(q, c, i) == c \/ \E y \in 1..i - 1 : q[y].k = "Y"

\* By then it has type v for pin d: the last message before i that tells of d says so, or
\* none does and it is due, what SensApl has when it has read what it has begun.
LastSays(q, c, i, j, d, v) ==
    /\ Tells(q[j], d) /\ q[j].types[d] = v /\ Heard(q, c, j)
    /\ \A l \in j + 1..i - 1 : ~Tells(q[l], d)
Knows(q, c, due, i, d, v) ==
    \/ \E j \in 1..i - 1 : LastSays(q, c, i, j, d, v)
    \/ c /\ due[d] = v /\ \A l \in 1..i - 1 : ~Tells(q[l], d)

Due == [d \in Directors |->
          IF reader \in {"TA", "TD"} /\ d \in DOMAIN current.types
          THEN current.types[d] ELSE appTypes[d]]

\* Values will be read with the types they were measured under, and SensApl will, for the
\* pins in S, have types t when it has read everything.
ValuesUnderstood(q, c, due) ==
    \A i \in 1..Len(q) :
        q[i].k = "V" =>
            /\ DOMAIN q[i].types = Directors
            /\ Heard(q, c, i) => \A d \in Directors : Knows(q, c, due, i, d, q[i].types[d])
Agreed(S, q, c, due, t) ==
    Heard(q, c, Len(q) + 1) => \A d \in S : Knows(q, c, due, Len(q) + 1, d, t[d])

FlowInv ==
    /\ edt # "closing"
    /\ firstContact => portOpen
    /\ ~portOpen => toApp = <<>>
    /\ reader = "V" => appTypes = current.types
    /\ ValuesUnderstood(toApp, firstContact, Due)
    /\ conected => Agreed(Directors, toApp, firstContact, Due, types)

\* What is appended changes nothing for what stands before it.
LEMMA AppendBefore ==
    ASSUME NEW q \in Seq(Messages), NEW m \in Messages, NEW c, NEW due,
           NEW i \in 1..Len(q) + 1, NEW d, NEW v
    PROVE  /\ Heard(Append(q, m), c, i) <=> Heard(q, c, i)
           /\ Knows(q, c, due, i, d, v) => Knows(Append(q, m), c, due, i, d, v)
<1> DEFINE r == Append(q, m)
<1>1. Len(q) \in Nat /\ \A l \in 1..Len(q) : r[l] = q[l]  OBVIOUS
<1>2. \A j \in 1..i - 1 : j \in 1..Len(q) /\ r[j] = q[j]  BY <1>1
<1>3. \A j \in 1..i : Heard(r, c, j) <=> Heard(q, c, j)
    <2> SUFFICES ASSUME NEW j \in 1..i PROVE Heard(r, c, j) <=> Heard(q, c, j)  OBVIOUS
    <2>1. \A y \in 1..j - 1 : r[y] = q[y]  BY <1>1, <1>2
    <2> HIDE DEF r
    <2>2. QED  BY <2>1 DEF Heard
<1>4. i \in 1..i  BY <1>1
<1>5. ASSUME Knows(q, c, due, i, d, v) PROVE Knows(r, c, due, i, d, v)
    <2> HIDE DEF r
    <2>1. CASE \E j \in 1..i - 1 : LastSays(q, c, i, j, d, v)
        <3>1. PICK j \in 1..i - 1 : LastSays(q, c, i, j, d, v)  BY <2>1
        <3>2. j \in 1..i  BY <1>1
        <3>3. Heard(r, c, j) /\ Tells(r[j], d) /\ r[j].types[d] = v
            BY <3>1, <3>2, <1>2, <1>3 DEF LastSays
        <3>4. \A l \in j + 1..i - 1 : l \in 1..i - 1  BY <1>1
        <3>5. \A l \in j + 1..i - 1 : ~Tells(r[l], d)  BY <3>1, <3>4, <1>2 DEF LastSays
        <3>6. QED  BY <3>3, <3>5 DEF LastSays, Knows
    <2>2. CASE c /\ due[d] = v /\ \A l \in 1..i - 1 : ~Tells(q[l], d)
        BY <2>2, <1>2 DEF Knows
    <2>3. QED  BY <1>5, <2>1, <2>2 DEF Knows
<1>6. QED  BY <1>3, <1>4, <1>5

\* A message that is sent is understood, if it bears values, when the types it was measured
\* under are agreed on ...
LEMMA AppendUnderstood ==
    ASSUME NEW q \in Seq(Messages), NEW m \in Messages, NEW c, NEW due,
           ValuesUnderstood(q, c, due),
           m.k = "V" => DOMAIN m.types = Directors /\ Agreed(Directors, q, c, due, m.types)
    PROVE  ValuesUnderstood(Append(q, m), c, due)
<1> DEFINE r == Append(q, m)
<1> SUFFICES ASSUME NEW i \in 1..Len(r), r[i].k = "V"
             PROVE  /\ DOMAIN r[i].types = Directors
                    /\ Heard(r, c, i) =>
                         \A d \in Directors : Knows(r, c, due, i, d, r[i].types[d])
    BY DEF ValuesUnderstood
<1>1. Len(q) \in Nat /\ i \in 1..Len(q) + 1  OBVIOUS
<1>2. CASE i = Len(q) + 1
    <2>1. r[i] = m  BY <1>2
    <2>2. Heard(r, c, i) => \A d \in Directors : Knows(q, c, due, i, d, m.types[d])
        BY <1>1, <1>2, <2>1, AppendBefore DEF Agreed
    <2>3. QED  BY <1>1, <2>1, <2>2, AppendBefore
<1>3. CASE i # Len(q) + 1
    <2>1. i \in 1..Len(q) /\ r[i] = q[i]  BY <1>1, <1>3
    <2>2. /\ DOMAIN q[i].types = Directors
          /\ Heard(q, c, i) => \A d \in Directors : Knows(q, c, due, i, d, q[i].types[d])
        BY <2>1 DEF ValuesUnderstood
    <2>3. QED  BY <1>1, <2>1, <2>2, AppendBefore
<1>4. QED  BY <1>2, <1>3

\* ... and one that tells types makes them agreed on, for the pins it tells of; for the
\* others the agreement stays. (The handshake begins with no agreement at all.)
LEMMA AppendAgreed ==
    ASSUME NEW q \in Seq(Messages), NEW m \in Messages, NEW c, NEW due, NEW S, NEW t, NEW u,
           Agreed(S, q, c, due, t),
           m.k # "Y",
           \A d : Tells(m, d) => m.types[d] = u[d],
           \A d \in S : Tells(m, d) \/ u[d] = t[d],
           NEW R, \A d \in R : d \in S \/ Tells(m, d)
    PROVE  Agreed(R, Append(q, m), c, due, u)
<1> DEFINE r == Append(q, m)
           n == Len(q) + 1
<1>1. Len(q) \in Nat /\ n \in Nat /\ Len(r) = n /\ r[n] = m /\ n \in 1..Len(q) + 1  OBVIOUS
<1>2. \A l \in 1..n - 1 : r[l] = q[l]  BY <1>1
<1> SUFFICES ASSUME Heard(r, c, n + 1), NEW d \in R
             PROVE  Knows(r, c, due, n + 1, d, u[d])
    BY <1>1 DEF Agreed
<1> HIDE DEF r, n
<1>3. Heard(r, c, n)
    <2>1. \A y \in 1..(n + 1) - 1 : y = n \/ y \in 1..n - 1  BY <1>1
    <2>2. QED  BY <1>1, <2>1 DEF Heard
<1>4. Heard(q, c, n)  BY <1>1, <1>3, AppendBefore DEF r
<1>5. CASE Tells(m, d)
    <2>1. \A l \in n + 1..(n + 1) - 1 : ~Tells(r[l], d)  BY <1>1
    <2>2. LastSays(r, c, n + 1, n, d, u[d])  BY <1>1, <1>3, <1>5, <2>1 DEF LastSays
    <2>3. n \in 1..(n + 1) - 1  BY <1>1
    <2>4. QED  BY <2>2, <2>3 DEF Knows
<1>6. CASE ~Tells(m, d)
    <2>1. Knows(q, c, due, n, d, t[d])  BY <1>4, <1>6 DEF Agreed, n
    <2>2. Knows(r, c, due, n, d, u[d])  BY <2>1, <1>1, <1>6, AppendBefore DEF r
    <2>3. \A l \in 1..(n + 1) - 1 : l = n \/ l \in 1..n - 1  BY <1>1
    <2>4. CASE \E j \in 1..n - 1 : LastSays(r, c, n, j, d, u[d])
        <3>1. PICK j \in 1..n - 1 : LastSays(r, c, n, j, d, u[d])  BY <2>4
        <3>2. \A l \in j + 1..(n + 1) - 1 : l = n \/ l \in j + 1..n - 1  BY <1>1
        <3>3. LastSays(r, c, n + 1, j, d, u[d])  BY <1>1, <1>6, <3>1, <3>2 DEF LastSays
        <3>4. j \in 1..(n + 1) - 1  BY <1>1
        <3>5. QED  BY <3>3, <3>4 DEF Knows
    <2>5. CASE c /\ due[d] = u[d] /\ \A l \in 1..n - 1 : ~Tells(r[l], d)
        BY <1>1, <1>6, <2>3, <2>5 DEF Knows
    <2>6. QED  BY <2>2, <2>4, <2>5 DEF Knows
<1>7. QED  BY <1>5, <1>6

\* SensApl takes the first message: what was at i + 1 is at i, the contact is made by a
\* 'Y', and with contact the types a message tells become due.
LEMMA TailKnows ==
    ASSUME NEW q \in Seq(Messages), q # <<>>, NEW c, NEW g, NEW due, NEW due2,
           c => g, Head(q).k = "Y" => g, g => c \/ Head(q).k = "Y",
           NEW i \in Nat \ {0}, i <= Len(q), NEW d, NEW v,
           c /\ Tells(Head(q), d) => due2[d] = Head(q).types[d],
           c /\ ~Tells(Head(q), d) => due2[d] = due[d]
    PROVE  /\ Heard(Tail(q), g, i) <=> Heard(q, c, i + 1)
           /\ Knows(q, c, due, i + 1, d, v) => Knows(Tail(q), g, due2, i, d, v)
<1> DEFINE r == Tail(q)
<1>1. /\ Len(q) \in Nat \ {0} /\ Head(q) = q[1]
      /\ \A l \in 1..Len(q) - 1 : r[l] = q[l + 1]
    OBVIOUS
<1> HIDE DEF r
<1>2. \A l \in 1..i - 1 : r[l] = q[l + 1]  BY <1>1
<1>3. \A j \in 1..i : Heard(r, g, j) <=> Heard(q, c, j + 1)
    <2> SUFFICES ASSUME NEW j \in 1..i PROVE Heard(r, g, j) <=> Heard(q, c, j + 1)
        OBVIOUS
    <2>1. ASSUME NEW y \in 1..j - 1, r[y].k = "Y" PROVE Heard(q, c, j + 1)
        <3>1. y + 1 \in 1..(j + 1) - 1 /\ q[y + 1].k = "Y"  BY <1>2, <2>1
        <3>2. QED  BY <3>1 DEF Heard
    <2>2. ASSUME q[1].k = "Y" PROVE Heard(q, c, j + 1)
        <3>1. 1 \in 1..(j + 1) - 1  OBVIOUS
        <3>2. QED  BY <2>2, <3>1 DEF Heard
    <2>3. ASSUME NEW y \in 1..(j + 1) - 1, q[y].k = "Y" PROVE Heard(r, g, j)
        <3>1. CASE y = 1  BY <1>1, <2>3, <3>1 DEF Heard
        <3>2. CASE y # 1
            <4>1. y - 1 \in 1..j - 1 /\ y - 1 \in 1..i - 1 /\ (y - 1) + 1 = y  BY <3>2
            <4>2. r[y - 1].k = "Y"  BY <1>2, <2>3, <4>1
            <4>3. QED  BY <4>1, <4>2 DEF Heard
        <3>3. QED  BY <3>1, <3>2
    <2>4. c => Heard(r, g, j)  BY DEF Heard
    <2>5. c => Heard(q, c, j + 1)  BY DEF Heard
    <2>6. Heard(r, g, j) => Heard(q, c, j + 1)  BY <1>1, <2>1, <2>2, <2>5 DEF Heard
    <2>7. Heard(q, c, j + 1) => Heard(r, g, j)  BY <2>3, <2>4 DEF Heard
    <2>8. QED  BY <2>6, <2>7
<1>4. i \in 1..i  OBVIOUS
<1>5. ASSUME Knows(q, c, due, i + 1, d, v) PROVE Knows(r, g, due2, i, d, v)
    <2>1. CASE \E j \in 1..(i + 1) - 1 : LastSays(q, c, i + 1, j, d, v)
        <3>1. PICK j \in 1..(i + 1) - 1 : LastSays(q, c, i + 1, j, d, v)  BY <2>1
        <3>2. CASE j = 1
            <4>1. Heard(q, c, 1) /\ Tells(q[1], d) /\ q[1].types[d] = v
                BY <3>1, <3>2 DEF LastSays
            <4>2. c  BY <4>1 DEF Heard
            <4>3. \A l \in 1..i - 1 : l + 1 \in j + 1..(i + 1) - 1  BY <3>2
            <4>4. \A l \in 1..i - 1 : ~Tells(r[l], d)
                BY <1>2, <3>1, <4>3 DEF LastSays
            <4>5. g /\ due2[d] = v  BY <1>1, <4>1, <4>2
            <4>6. QED  BY <4>4, <4>5 DEF Knows
        <3>3. CASE j # 1
            <4>1. j - 1 \in 1..i - 1 /\ j - 1 \in 1..i /\ (j - 1) + 1 = j  BY <3>3
            <4>2. r[j - 1] = q[j]  BY <1>2, <4>1
            <4>3. Heard(r, g, j - 1)  BY <1>3, <3>1, <4>1 DEF LastSays
            <4>4. \A l \in (j - 1) + 1..i - 1 : l \in 1..i - 1 /\ l + 1 \in j + 1..(i + 1) - 1
                BY <3>3
            <4>5. \A l \in (j - 1) + 1..i - 1 : ~Tells(r[l], d)
                BY <1>2, <3>1, <4>4 DEF LastSays
            <4>6. LastSays(r, g, i, j - 1, d, v)  BY <3>1, <4>2, <4>3, <4>5 DEF LastSays
            <4>7. QED  BY <4>1, <4>6 DEF Knows
        <3>4. QED  BY <3>2, <3>3
    <2>2. CASE c /\ due[d] = v /\ \A l \in 1..(i + 1) - 1 : ~Tells(q[l], d)
        <3>1. 1 \in 1..(i + 1) - 1 /\ \A l \in 1..i - 1 : l + 1 \in 1..(i + 1) - 1  OBVIOUS
        <3>2. due2[d] = v /\ g  BY <1>1, <2>2, <3>1
        <3>3. \A l \in 1..i - 1 : ~Tells(r[l], d)  BY <1>2, <2>2, <3>1
        <3>4. QED  BY <3>2, <3>3 DEF Knows
    <2>3. QED  BY <1>5, <2>1, <2>2 DEF Knows
<1>6. QED  BY <1>3, <1>4, <1>5 DEF r

-----------------------------------------------------------------------------
(* What the line and the tables hold *)

LEMMA TableFacts ==
    /\ <<>> \in Table
    /\ \A S \in SUBSET Directors : [S -> Token] \subseteq Table
<1>1. <<>> \in [{} -> Token]  OBVIOUS
<1>2. QED  BY <1>1 DEF Table

LEMMA MessageFacts ==
    ASSUME NEW t \in [Directors -> Token]
    PROVE  /\ \A k \in Kind, n \in Nat : Message(k, n, <<>>) \in Messages
           /\ \A n \in Nat : Message("V", n, t) \in Messages
           /\ SendAnalogType(t) \in Messages
           /\ SendDigitalType(t) \in Messages
           /\ SendTime \in Messages /\ SendDelay \in Messages /\ SendConstants \in Messages
<1>1. <<>> \in Table /\ t \in Table  BY TableFacts
<1>2. \A S \in SUBSET Directors : [d \in S |-> t[d]] \in Table
    <2> SUFFICES ASSUME NEW S \in SUBSET Directors PROVE [d \in S |-> t[d]] \in Table  OBVIOUS
    <2>1. [d \in S |-> t[d]] \in [S -> Token]  OBVIOUS
    <2>2. QED  BY <2>1, TableFacts
<1>3. \A k \in Kind, n \in Nat, u \in Table : Message(k, n, u) \in Messages
    BY DEF Message, Messages
<1>4. SendAnalogType(t) \in Messages
    <2>1. [d \in Directors \ {D} |-> t[d]] \in Table  BY <1>2
    <2>2. QED  BY <1>3, <2>1 DEF SendAnalogType, Kind
<1>5. SendDigitalType(t) \in Messages
    <2>1. [d \in Directors \cap {D} |-> t[d]] \in Table  BY <1>2
    <2>2. QED  BY <1>3, <2>1 DEF SendDigitalType, Kind
<1>6. SendTime \in Messages
    BY <1>1, <1>3 DEF SendTime, Kind
<1>7. SendDelay \in Messages /\ SendConstants \in Messages
    BY <1>1, <1>3 DEF SendDelay, SendConstants, Kind
<1>8. QED  BY <1>1, <1>3, <1>4, <1>5, <1>6, <1>7 DEF Kind

\* What is written is what is appended, one after the other.
LEMMA Appending ==
    ASSUME NEW q \in Seq(Messages), NEW a \in Messages, NEW b \in Messages
    PROVE  /\ q \o <<a>> = Append(q, a) /\ q \o <<a>> \in Seq(Messages)
           /\ q \o <<a, b>> = Append(Append(q, a), b) /\ q \o <<a, b>> \in Seq(Messages)
OBVIOUS

LEMMA EmptyIsSeq == <<>> \in Seq(Token)
OBVIOUS

LEMMA RestIsSeq ==
    \A q \in Seq(Token), n \in Nat \ {0} :
        n <= Len(q) + 1 => SubSeq(q, n, Len(q)) \in Seq(Token)
OBVIOUS

LEMMA TypesStation ==
    ASSUME FlowTypes, DeviceStep \/ UserStep, UNCHANGED appVars PROVE FlowTypes'
<1>1. UNCHANGED appTypes  BY DEF appVars
<1>2. SensorTypes \subseteq Token  BY SensorTypesAssumption DEF Token
<1>3. CASE Pass
    <2>1. SendValues = <<Message("V", 29, types), SendTime>>  BY DEF SendValues
    <2>2. toApp \o SendValues \in Seq(Messages)
        BY <2>1, MessageFacts, Appending DEF FlowTypes
    <2>3. toApp' \in Seq(Messages)  BY <1>3, <2>2 DEF Pass, ToApp, FlowTypes
    <2>4. QED  BY <1>1, <1>3, <2>3 DEF Pass, FlowTypes
<1>4. CASE Wait  BY <1>1, <1>4 DEF Wait, wireVars, FlowTypes
<1>5. CASE PollSel
    <2>1. StartStop => rx' = <<>>  BY DEF StartStop
    <2>2. NoKey => rx' = rx  BY DEF NoKey
    <2>3. rx' \in Seq(Token)  BY <1>5, <2>1, <2>2, EmptyIsSeq DEF PollSel, FlowTypes
    <2>4. QED  BY <1>1, <1>5, <2>3 DEF PollSel, FlowTypes
<1>6. CASE EventEnd  BY <1>1, <1>6 DEF EventEnd, wireVars, FlowTypes
<1>7. CASE ReadY
    <2>1. toApp \o Handshake \in Seq(Messages)
        <3>1. Message("Y", 1, <<>>) \in Messages  BY MessageFacts DEF FlowTypes, Kind
        <3>2. Handshake \in Seq(Messages)  BY <3>1, MessageFacts DEF Handshake, FlowTypes
        <3>3. QED  BY <3>2 DEF FlowTypes
    <2>2. toApp' \in Seq(Messages)  BY <1>7, <2>1 DEF ReadY, ToApp, FlowTypes
    <2>3. QED  BY <1>1, <1>7, <2>2 DEF ReadY, FlowTypes
<1>8. CASE ReadX  BY <1>1, <1>8 DEF ReadX, FlowTypes
<1>9. CASE ReadOther  BY <1>1, <1>9 DEF ReadOther, FlowTypes
<1>10. CASE RetypeEvent
    <2>1. CASE Head(rx) \in Directors
        <3>1. types' \in [Directors -> Token]
            <4>1. rx[3] \in Token  BY <1>10 DEF RetypeEvent, FlowTypes
            <4>2. [types EXCEPT ![Head(rx)] = rx[3]] \in [Directors -> Token]
                BY <4>1 DEF FlowTypes
            <4>3. QED  BY <1>10, <2>1, <4>2 DEF RetypeEvent, FlowTypes
        <3>2. SendType(Head(rx), types') \in Messages
            BY <3>1, MessageFacts DEF SendType
        <3>3. toApp' \in Seq(Messages)
            BY <1>10, <2>1, <3>2, Appending DEF RetypeEvent, ToApp, FlowTypes
        <3>4. rx' = SubSeq(rx, 4, Len(rx)) /\ Len(rx) >= 3
            BY <1>10, <2>1 DEF RetypeEvent
        <3>5. rx' \in Seq(Token)  BY <3>4, RestIsSeq DEF FlowTypes
        <3>6. QED  BY <1>1, <1>10, <3>1, <3>3, <3>5 DEF RetypeEvent, FlowTypes
    <2>2. CASE Head(rx) \notin Directors
        <3>1. rx' = Tail(rx) /\ Len(rx) >= 3  BY <1>10, <2>2 DEF RetypeEvent
        <3>2. rx' \in Seq(Token)  BY <3>1 DEF FlowTypes
        <3>3. QED  BY <1>1, <1>10, <2>2, <3>2 DEF RetypeEvent, FlowTypes
    <2>3. QED  BY <2>1, <2>2
<1>11. CASE StoreEvent  BY <1>1, <1>11 DEF StoreEvent, wireVars, FlowTypes
<1>12. CASE DelayEvent
    <2>1. toApp' \in Seq(Messages)
        BY <1>12, MessageFacts, Appending DEF DelayEvent, ToApp, FlowTypes
    <2>2. rx' = <<>> \/ \E n \in 1..Len(rx) : rx' = SubSeq(rx, n + 1, Len(rx))
        BY <1>12 DEF DelayEvent
    <2>3. \A n \in 1..Len(rx) : SubSeq(rx, n + 1, Len(rx)) \in Seq(Token)
        BY RestIsSeq DEF FlowTypes
    <2>4. rx' \in Seq(Token)  BY <2>2, <2>3, EmptyIsSeq
    <2>5. QED  BY <1>1, <1>12, <2>1, <2>4 DEF DelayEvent, FlowTypes
<1>13. CASE TimeEvent
    <2>1. \E n \in 1..Len(rx) : rx' = SubSeq(rx, n + 1, Len(rx))  BY <1>13 DEF TimeEvent
    <2>2. rx' \in Seq(Token)  BY <2>1, RestIsSeq DEF FlowTypes
    <2>3. QED  BY <1>1, <1>13, <2>2 DEF TimeEvent, FlowTypes
<1>14. CASE Stream
    <2>1. Message("M", 6, <<>>) \in Messages  BY MessageFacts DEF FlowTypes, Kind
    <2>2. toApp' \in Seq(Messages)
        BY <1>14, <2>1, Appending DEF Stream, ToApp, FlowTypes
    <2>3. rx' \in Seq(Token)  BY <1>14 DEF Stream, FlowTypes
    <2>4. QED  BY <1>1, <1>14, <2>2, <2>3 DEF Stream, FlowTypes
<1>15. CASE Released  BY <1>1, <1>15 DEF Released, wireVars, FlowTypes
<1>16. CASE MenuRetype
    <2>1. types' \in [Directors -> Token]  BY <1>2, <1>16 DEF MenuRetype, FlowTypes
    <2>2. QED  BY <1>1, <1>16, <2>1 DEF MenuRetype, wireVars, FlowTypes
<1>17. CASE MenuSetTime \/ MenuSetDelay
    BY <1>1, <1>17 DEF MenuSetTime, MenuSetDelay, wireVars, FlowTypes
<1>18. CASE MenuLeave  BY <1>1, <1>18 DEF MenuLeave, wireVars, FlowTypes
<1>19. CASE Restart  BY <1>1, <1>19 DEF Restart, FlowTypes
<1>20. QED
    BY <1>3, <1>4, <1>5, <1>6, <1>7, <1>8, <1>9, <1>10, <1>11, <1>12, <1>13, <1>14, <1>15,
       <1>16, <1>17, <1>18, <1>19 DEF DeviceStep, UserStep, SerialEvent

LEMMA TypesApp ==
    ASSUME FlowTypes, Commands \/ EdtStep \/ ReaderStep, UNCHANGED deviceVars
    PROVE  FlowTypes'
<1>1. UNCHANGED <<types, kept>>  BY DEF deviceVars
<1>2. \A b \in Seq(Token) : ToDevice(b) => toDevice' \in Seq(Token)
    BY DEF ToDevice, FlowTypes
<1>3. /\ B \in Token /\ D \in Token /\ M \in Token /\ T \in Token /\ W \in Token
      /\ X \in Token /\ Y \in Token /\ 1 \in Token
      /\ NumberText \in Token /\ TimeText \in Token
    <2>1. /\ B \in Token /\ D \in Token /\ M \in Token /\ T \in Token
          /\ W \in Token /\ X \in Token /\ Y \in Token /\ 1 \in Token
        BY DEF B, D, M, T, W, X, Y, Token
    <2>2. NumberText \in Token /\ TimeText \in Token  BY DEF Token
    <2>3. QED  BY <2>1, <2>2
<1>4. CASE Connect  BY <1>1, <1>4 DEF Connect, FlowTypes
<1>5. CASE Disconnect
    <2>1. <<X>> \in Seq(Token)  BY <1>3
    <2>2. QED  BY <1>1, <1>2, <1>5, <2>1 DEF Disconnect, FlowTypes
<1>6. CASE Retype
    <2>1. PICK d \in Directors, t \in SensorTypes : ToDevice(<<T, d, 1, t>>)
        BY <1>6 DEF Retype
    <2>2. d \in Token /\ t \in Token
        BY DirectorsAssumption, SensorTypesAssumption DEF A, D, I, Token
    <2>3. <<T, d, 1, t>> \in Seq(Token)  BY <1>3, <2>2
    <2>4. toDevice' \in Seq(Token)  BY <1>2, <2>1, <2>3
    <2>5. QED  BY <1>1, <1>6, <2>4 DEF Retype, FlowTypes
<1>7. CASE SetDelay
    <2>1. <<D, NumberText>> \in Seq(Token)  BY <1>3
    <2>2. QED  BY <1>1, <1>2, <1>7, <2>1 DEF SetDelay, FlowTypes
<1>8. CASE SetTime
    <2>1. <<B>> \in Seq(Token)  BY <1>3
    <2>2. QED  BY <1>1, <1>2, <1>8, <2>1 DEF SetTime, FlowTypes
<1>9. CASE StartReading
    <2>1. <<M, 1>> \in Seq(Token)  BY <1>3
    <2>2. QED  BY <1>1, <1>2, <1>9, <2>1 DEF StartReading, FlowTypes
<1>10. CASE StopReading
    <2>1. <<W>> \in Seq(Token)  BY <1>3
    <2>2. QED  BY <1>1, <1>2, <1>10, <2>1 DEF StopReading, FlowTypes
<1>11. CASE Exit  BY <1>1, <1>11 DEF Exit, FlowTypes
<1>12. CASE ConnectEnd
    <2>1. <<Y>> \in Seq(Token)  BY <1>3
    <2>2. QED  BY <1>1, <1>2, <1>12, <2>1 DEF ConnectEnd, FlowTypes
<1>13. CASE Close  BY <1>1, <1>13 DEF Close, FlowTypes
<1>14. CASE SetTimeEnd
    <2>1. <<TimeText>> \in Seq(Token)  BY <1>3
    <2>2. QED  BY <1>1, <1>2, <1>14, <2>1 DEF SetTimeEnd, FlowTypes
<1>15. CASE Enter  BY <1>1, <1>15 DEF Enter, wireVars, FlowTypes
<1>16. CASE Leave  BY <1>1, <1>16 DEF Leave, wireVars, FlowTypes
<1>17. CASE ReadFirst  BY <1>1, <1>17 DEF ReadFirst, FlowTypes
<1>18. CASE ReadRest
    <2>1. appTypes' = [d \in Directors |-> appTypes'[d]]
        BY <1>18 DEF ReadRest, FlowTypes
    <2>2. QED  BY <1>1, <1>18, <2>1 DEF ReadRest, wireVars, FlowTypes
<1>19. QED
    BY <1>4, <1>5, <1>6, <1>7, <1>8, <1>9, <1>10, <1>11, <1>12, <1>13, <1>14, <1>15, <1>16,
       <1>17, <1>18 DEF Commands, EdtStep, ReaderStep

LEMMA FlowTypesNext == ASSUME FlowTypes, [Next]_vars PROVE FlowTypes'
<1>1. CASE (DeviceStep \/ UserStep) /\ UNCHANGED appVars  BY <1>1, TypesStation
<1>2. CASE (Commands \/ EdtStep \/ ReaderStep) /\ UNCHANGED deviceVars  BY <1>2, TypesApp
<1>3. CASE Deliver /\ UNCHANGED <<deviceVars, appVars>>
    <2>1. toDevice' \in Seq(Token) /\ rx' \in Seq(Token)  BY <1>3 DEF Deliver, FlowTypes
    <2>2. QED  BY <1>3, <2>1 DEF Deliver, FlowTypes, deviceVars, appVars
<1>4. CASE UNCHANGED vars  BY <1>4 DEF vars, wireVars, deviceVars, appVars, FlowTypes
<1>5. QED  BY <1>1, <1>2, <1>3, <1>4 DEF Next

-----------------------------------------------------------------------------
(* Every step of the station keeps the tables in agreement *)

\* A message that neither tells types nor bears values changes nothing.
LEMMA AppendPlain ==
    ASSUME NEW q \in Seq(Messages), NEW m \in Messages, NEW c, NEW due, NEW t,
           m.k \notin {"Y", "TA", "TD", "V"}, ValuesUnderstood(q, c, due)
    PROVE  /\ ValuesUnderstood(Append(q, m), c, due)
           /\ Agreed(Directors, q, c, due, t) => Agreed(Directors, Append(q, m), c, due, t)
<1>1. \A d : ~Tells(m, d)  BY DEF Tells
<1>2. ValuesUnderstood(Append(q, m), c, due)  BY AppendUnderstood
<1>3. ASSUME Agreed(Directors, q, c, due, t)
      PROVE  Agreed(Directors, Append(q, m), c, due, t)
    BY <1>1, <1>3, AppendAgreed
<1>4. QED  BY <1>2, <1>3

\* SensApl without a port hears nothing; what the station does is all the same.
LEMMA Unheard ==
    ASSUME FlowInv, ~portOpen, NEW S, NEW t
    PROVE  Agreed(S, toApp, firstContact, Due, t)
<1>1. toApp = <<>> /\ ~firstContact  BY DEF FlowInv
<1>2. 1..(Len(toApp) + 1) - 1 = {}  BY <1>1
<1>3. ~Heard(toApp, firstContact, Len(toApp) + 1)  BY <1>1, <1>2 DEF Heard
<1>4. QED  BY <1>3 DEF Agreed

\* The station sends nothing, and retypes nothing while it has a client.
LEMMA QuietStation ==
    ASSUME FlowInv, UNCHANGED <<toApp, portOpen, appVars>>, conected' => conected /\ types' = types
    PROVE  FlowInv'
<1>1. Due' = Due  BY DEF Due, appVars
<1>2. firstContact' = firstContact /\ edt' = edt /\ reader' = reader /\ appTypes' = appTypes
      /\ current' = current
    BY DEF appVars
<1>3. ValuesUnderstood(toApp', firstContact', Due')  BY <1>1, <1>2 DEF FlowInv
<1>4. conected' => Agreed(Directors, toApp', firstContact', Due', types')
    BY <1>1, <1>2 DEF FlowInv
<1>5. QED  BY <1>2, <1>3, <1>4 DEF FlowInv

\* The station sends, and what is under way afterwards is understood and agreed on.
LEMMA SendingStation ==
    ASSUME FlowInv, UNCHANGED <<portOpen, appVars>>, NEW q,
           toApp' = IF portOpen THEN q ELSE toApp,
           portOpen => /\ ValuesUnderstood(q, firstContact, Due)
                       /\ conected' => Agreed(Directors, q, firstContact, Due, types')
    PROVE  FlowInv'
<1>1. Due' = Due  BY DEF Due, appVars
<1>2. firstContact' = firstContact /\ edt' = edt /\ reader' = reader /\ appTypes' = appTypes
      /\ current' = current /\ portOpen' = portOpen
    BY DEF appVars
<1>3. CASE portOpen
    <2>1. toApp' = q  BY <1>3
    <2>2. ValuesUnderstood(toApp', firstContact', Due')  BY <1>1, <1>2, <1>3, <2>1
    <2>3. conected' => Agreed(Directors, toApp', firstContact', Due', types')
        BY <1>1, <1>2, <1>3, <2>1
    <2>4. QED  BY <1>2, <1>3, <2>2, <2>3 DEF FlowInv
<1>4. CASE ~portOpen
    <2>1. toApp' = toApp  BY <1>4
    <2>2. ValuesUnderstood(toApp', firstContact', Due')  BY <1>1, <1>2, <2>1 DEF FlowInv
    <2>3. Agreed(Directors, toApp, firstContact, Due, types')  BY <1>4, Unheard
    <2>4. Agreed(Directors, toApp', firstContact', Due', types')  BY <1>1, <1>2, <2>1, <2>3
    <2>5. QED  BY <1>2, <1>4, <2>1, <2>2, <2>4 DEF FlowInv
<1>5. QED  BY <1>3, <1>4

\* Values go out under the types agreed on (Sensuino.ino:96).
LEMMA FlowPass ==
    ASSUME FlowTypes, FlowInv, Pass, UNCHANGED appVars PROVE FlowInv'
<1>1. CASE serialOn /\ conected
    <2> DEFINE v == Message("V", 29, types)
               q == Append(toApp, v)
               r == Append(q, SendTime)
    <2>1. v \in Messages /\ SendTime \in Messages  BY MessageFacts DEF FlowTypes
    <2>2. v.k = "V" /\ v.types = types /\ SendTime.k = "A"  BY DEF Message, SendTime
    <2>3. toApp \o SendValues = r /\ q \in Seq(Messages)
        BY <2>1, Appending DEF SendValues, FlowTypes
    <2>4. Agreed(Directors, toApp, firstContact, Due, types)  BY <1>1 DEF FlowInv
    <2>5. DOMAIN types = Directors  BY DEF FlowTypes
    <2> HIDE DEF v
    <2>6. ValuesUnderstood(q, firstContact, Due)
        BY <2>1, <2>2, <2>4, <2>5, AppendUnderstood DEF FlowTypes, FlowInv
    <2>7. \A d : ~Tells(v, d)  BY <2>2 DEF Tells
    <2>8. Agreed(Directors, q, firstContact, Due, types)
        BY <2>1, <2>2, <2>4, <2>7, AppendAgreed DEF FlowTypes
    <2> HIDE DEF q
    <2>9. /\ ValuesUnderstood(r, firstContact, Due)
          /\ Agreed(Directors, r, firstContact, Due, types)
        BY <2>1, <2>2, <2>3, <2>6, <2>8, AppendPlain
    <2> HIDE DEF r
    <2>10. toApp' = IF portOpen THEN r ELSE toApp  BY <1>1, <2>3 DEF Pass, ToApp
    <2>11. UNCHANGED <<portOpen, types>>  BY DEF Pass
    <2>12. QED  BY <2>9, <2>10, <2>11, SendingStation
<1>2. CASE ~(serialOn /\ conected)
    <2>1. UNCHANGED <<toApp, portOpen, conected, types>>  BY <1>2 DEF Pass
    <2>2. QED  BY <2>1, QuietStation
<1>3. QED  BY <1>1, <1>2

\* A handshake tells all tables, whatever was agreed on before (Serial.h:108-117).
LEMMA FlowReadY ==
    ASSUME FlowTypes, FlowInv, ReadY, UNCHANGED appVars PROVE FlowInv'
<1> DEFINE y == Message("Y", 1, <<>>)
           a == SendAnalogType(types)
           d == SendDigitalType(types)
           q1 == Append(toApp, y)
           q2 == Append(q1, a)
           q3 == Append(q2, d)
           q4 == Append(q3, SendConstants)
           q5 == Append(q4, SendDelay)
<1>1. /\ y \in Messages /\ a \in Messages /\ d \in Messages
      /\ SendConstants \in Messages /\ SendDelay \in Messages
    BY MessageFacts DEF FlowTypes, Kind
<1>2. /\ y.k = "Y" /\ a.k = "TA" /\ d.k = "TD" /\ SendConstants.k = "C" /\ SendDelay.k = "D"
      /\ a.types = [e \in Directors \ {D} |-> types[e]]
      /\ d.types = [e \in Directors \cap {D} |-> types[e]]
    BY DEF Message, SendAnalogType, SendDigitalType, SendConstants, SendDelay
<1>3. Handshake = <<y, a, d, SendConstants, SendDelay>>  BY DEF Handshake
<1> HIDE DEF y, a, d
<1>4. toApp \o Handshake = q5  BY <1>1, <1>3 DEF FlowTypes
<1>5. toApp \in Seq(Messages) /\ ValuesUnderstood(toApp, firstContact, Due)
    BY DEF FlowTypes, FlowInv
<1>6. q1 \in Seq(Messages)  BY <1>1, <1>5
<1>7. ValuesUnderstood(q1, firstContact, Due)  BY <1>1, <1>2, <1>5, AppendUnderstood
<1>8. Agreed({}, q1, firstContact, Due, types)  BY DEF Agreed
<1> HIDE DEF q1
<1>9. q2 \in Seq(Messages)  BY <1>1, <1>6
<1>10. ValuesUnderstood(q2, firstContact, Due)  BY <1>1, <1>2, <1>6, <1>7, AppendUnderstood
<1>11. \A e : Tells(a, e) => a.types[e] = types[e]  BY <1>2 DEF Tells
<1>12. \A e \in Directors \ {D} : Tells(a, e)  BY <1>2 DEF Tells
<1>13. Agreed(Directors \ {D}, q2, firstContact, Due, types)
    BY <1>1, <1>2, <1>6, <1>8, <1>11, <1>12, AppendAgreed
<1> HIDE DEF q2
<1>14. q3 \in Seq(Messages)  BY <1>1, <1>9
<1>15. ValuesUnderstood(q3, firstContact, Due)  BY <1>1, <1>2, <1>9, <1>10, AppendUnderstood
<1>16. \A e : Tells(d, e) => d.types[e] = types[e]  BY <1>2 DEF Tells
<1>17. \A e \in Directors : e \in Directors \ {D} \/ Tells(d, e)  BY <1>2 DEF Tells
<1>18. Agreed(Directors, q3, firstContact, Due, types)
    BY <1>1, <1>2, <1>9, <1>13, <1>16, <1>17, AppendAgreed
<1> HIDE DEF q3
<1>19. /\ q4 \in Seq(Messages)
       /\ ValuesUnderstood(q4, firstContact, Due)
       /\ Agreed(Directors, q4, firstContact, Due, types)
    BY <1>1, <1>2, <1>14, <1>15, <1>18, AppendPlain
<1> HIDE DEF q4
<1>20. /\ ValuesUnderstood(q5, firstContact, Due)
       /\ Agreed(Directors, q5, firstContact, Due, types)
    BY <1>1, <1>2, <1>19, AppendPlain
<1> HIDE DEF q5
<1>21. toApp' = IF portOpen THEN q5 ELSE toApp  BY <1>4 DEF ReadY, ToApp
<1>22. UNCHANGED <<portOpen, types>>  BY DEF ReadY
<1>23. QED  BY <1>20, <1>21, <1>22, SendingStation

\* A pin that a client retypes is told at once (Serial.h:123-142).
LEMMA FlowRetype ==
    ASSUME FlowTypes, FlowInv, RetypeEvent, UNCHANGED appVars, FlowTypes' PROVE FlowInv'
<1>1. CASE Head(rx) \in Directors
    <2> DEFINE p == Head(rx)
               m == SendType(p, types')
               q == Append(toApp, m)
    <2>1. m \in Messages  BY MessageFacts DEF FlowTypes, SendType
    <2>2. m.k \in {"TA", "TD"} /\ p \in DOMAIN m.types
          /\ \A e \in DOMAIN m.types : m.types[e] = types'[e]
        <3>1. CASE p = D
            <4>1. m = Message("TD", 10, [e \in Directors \cap {D} |-> types'[e]])
                BY <3>1 DEF SendType, SendDigitalType
            <4>2. QED  BY <1>1, <3>1, <4>1 DEF Message
        <3>2. CASE p # D
            <4>1. m = Message("TA", 10, [e \in Directors \ {D} |-> types'[e]])
                BY <3>2 DEF SendType, SendAnalogType
            <4>2. QED  BY <1>1, <3>2, <4>1 DEF Message
        <3>3. QED  BY <3>1, <3>2
    <2>3. \A e \in Directors : e # p => types'[e] = types[e]
        BY <1>1 DEF RetypeEvent, FlowTypes
    <2>4. toApp' = IF portOpen THEN q ELSE toApp
        BY <1>1, <2>1, Appending DEF RetypeEvent, ToApp, FlowTypes
    <2>5. UNCHANGED <<portOpen, conected>>  BY DEF RetypeEvent
    <2> HIDE DEF m, p
    <2>6. ValuesUnderstood(q, firstContact, Due)
        BY <2>1, <2>2, AppendUnderstood DEF FlowTypes, FlowInv
    <2>7. \A e : Tells(m, e) => m.types[e] = types'[e]  BY <2>2 DEF Tells
    <2>8. \A e \in Directors : Tells(m, e) \/ types'[e] = types[e]  BY <2>2, <2>3 DEF Tells
    <2>9. ASSUME conected' PROVE Agreed(Directors, q, firstContact, Due, types')
        <3>1. Agreed(Directors, toApp, firstContact, Due, types)  BY <2>5, <2>9 DEF FlowInv
        <3>2. m.k # "Y"  BY <2>2
        <3>3. QED  BY <2>1, <2>7, <2>8, <3>1, <3>2, AppendAgreed DEF FlowTypes
    <2> HIDE DEF q
    <2>10. QED  BY <2>4, <2>5, <2>6, <2>9, SendingStation
<1>2. CASE Head(rx) \notin Directors
    <2>1. UNCHANGED <<toApp, portOpen, conected, types>>  BY <1>2 DEF RetypeEvent
    <2>2. QED  BY <2>1, QuietStation
<1>3. QED  BY <1>1, <1>2

\* One plain message: the delay, or a raw reading.
LEMMA FlowPlain ==
    ASSUME FlowTypes, FlowInv, UNCHANGED <<portOpen, conected, types, appVars>>,
           NEW m \in Messages, m.k \notin {"Y", "TA", "TD", "V"}, ToApp(<<m>>)
    PROVE  FlowInv'
<1> DEFINE q == Append(toApp, m)
<1>1. toApp' = IF portOpen THEN q ELSE toApp  BY Appending DEF ToApp, FlowTypes
<1>2. ValuesUnderstood(q, firstContact, Due)  BY AppendPlain DEF FlowTypes, FlowInv
<1>3. conected => Agreed(Directors, q, firstContact, Due, types)
    BY AppendPlain DEF FlowTypes, FlowInv
<1> HIDE DEF q
<1>4. QED  BY <1>1, <1>2, <1>3, SendingStation

LEMMA FlowStation ==
    ASSUME ServeInv, FlowTypes, FlowInv, DeviceStep \/ UserStep, UNCHANGED appVars
    PROVE  FlowInv'
<1>1. CASE Pass  BY <1>1, FlowPass
<1>2. CASE Wait
    <2>1. UNCHANGED <<toApp, portOpen, conected, types>>  BY <1>2 DEF Wait, wireVars
    <2>2. QED  BY <2>1, QuietStation
<1>3. CASE PollSel
    <2>1. UNCHANGED <<toApp, portOpen, types>>  BY <1>3 DEF PollSel
    <2>2. CASE StartStop
        <3>1. conected' = (conected /\ serialOn')  BY <2>2 DEF StartStop
        <3>2. conected' => conected  BY <3>1, Zenon
        <3>3. QED  BY <2>1, <3>2, QuietStation
    <2>3. CASE NoKey
        <3>1. conected' = conected  BY <2>3 DEF NoKey
        <3>2. QED  BY <2>1, <3>1, QuietStation
    <2>4. QED  BY <1>3, <2>2, <2>3 DEF PollSel
<1>4. CASE EventEnd
    <2>1. UNCHANGED <<toApp, portOpen, conected, types>>  BY <1>4 DEF EventEnd, wireVars
    <2>2. QED  BY <2>1, QuietStation
<1>5. CASE ReadY  BY <1>5, FlowReadY
<1>6. CASE ReadX
    <2>1. UNCHANGED <<toApp, portOpen>> /\ ~conected'  BY <1>6 DEF ReadX
    <2>2. QED  BY <2>1, QuietStation
<1>7. CASE ReadOther
    <2>1. UNCHANGED <<toApp, portOpen, conected, types>>  BY <1>7 DEF ReadOther
    <2>2. QED  BY <2>1, QuietStation
<1>8. CASE RetypeEvent
    <2>1. FlowTypes'  BY TypesStation
    <2>2. QED  BY <1>8, <2>1, FlowRetype
<1>9. CASE StoreEvent
    <2>1. UNCHANGED <<toApp, portOpen, conected, types>>  BY <1>9 DEF StoreEvent, wireVars
    <2>2. QED  BY <2>1, QuietStation
<1>10. CASE DelayEvent
    <2>1. SendDelay \in Messages  BY MessageFacts DEF FlowTypes
    <2>2. SendDelay.k = "D"  BY DEF SendDelay, Message
    <2>3. ToApp(<<SendDelay>>) /\ UNCHANGED <<portOpen, conected, types>>
        BY <1>10 DEF DelayEvent
    <2>4. QED  BY <2>1, <2>2, <2>3, FlowPlain
<1>11. CASE TimeEvent
    <2>1. UNCHANGED <<toApp, portOpen, conected, types>>  BY <1>11 DEF TimeEvent
    <2>2. QED  BY <2>1, QuietStation
<1>12. CASE Stream
    <2> DEFINE m == Message("M", 6, <<>>)
    <2>1. m \in Messages  BY MessageFacts DEF FlowTypes, Kind
    <2>2. m.k = "M"  BY DEF Message
    <2> HIDE DEF m
    <2>3. UNCHANGED <<portOpen, conected, types>>  BY <1>12 DEF Stream
    <2>4. ToApp(<<m>>) \/ toApp' = toApp  BY <1>12 DEF Stream, m
    <2>5. CASE ToApp(<<m>>)  BY <2>1, <2>2, <2>3, <2>5, FlowPlain
    <2>6. CASE toApp' = toApp  BY <2>3, <2>6, QuietStation
    <2>7. QED  BY <2>4, <2>5, <2>6
<1>13. CASE Released
    <2>1. UNCHANGED <<toApp, portOpen, conected, types>>  BY <1>13 DEF Released, wireVars
    <2>2. QED  BY <2>1, QuietStation
<1>14. CASE MenuRetype      \* only without a client
    <2>1. UNCHANGED <<toApp, portOpen>>  BY <1>14 DEF MenuRetype, wireVars
    <2>2. ~conected'  BY <1>14 DEF MenuRetype, ServeInv, ClientServed
    <2>3. QED  BY <2>1, <2>2, QuietStation
<1>15. CASE MenuSetTime \/ MenuSetDelay
    <2>1. UNCHANGED <<toApp, portOpen, conected, types>>
        BY <1>15 DEF MenuSetTime, MenuSetDelay, wireVars
    <2>2. QED  BY <2>1, QuietStation
<1>16. CASE MenuLeave
    <2>1. UNCHANGED <<toApp, portOpen, conected, types>>  BY <1>16 DEF MenuLeave, wireVars
    <2>2. QED  BY <2>1, QuietStation
<1>17. CASE Restart
    <2>1. UNCHANGED <<toApp, portOpen>> /\ ~conected'  BY <1>17 DEF Restart
    <2>2. QED  BY <2>1, QuietStation
<1>18. QED
    BY <1>1, <1>2, <1>3, <1>4, <1>5, <1>6, <1>7, <1>8, <1>9, <1>10, <1>11, <1>12, <1>13,
       <1>14, <1>15, <1>16, <1>17 DEF DeviceStep, UserStep, SerialEvent

-----------------------------------------------------------------------------
(* Every step of SensApl keeps the tables in agreement, as long as nobody  *)
(* presses the disconnect button                                           *)

\* Nothing is read and nothing listened to that was not before.
LEMMA QuietApp ==
    ASSUME FlowInv, UNCHANGED <<toApp, firstContact, conected, types>>,
           portOpen => portOpen', edt' # "closing",
           reader' = "V" => appTypes' = current'.types, Due' = Due
    PROVE  FlowInv'
<1>1. ValuesUnderstood(toApp', firstContact', Due')  BY DEF FlowInv
<1>2. conected' => Agreed(Directors, toApp', firstContact', Due', types')  BY DEF FlowInv
<1>3. QED  BY <1>1, <1>2 DEF FlowInv

\* The window is closed: nothing is under way to an end without contact.
LEMMA FlowExit ==
    ASSUME FlowInv, Exit, UNCHANGED deviceVars PROVE FlowInv'
<1>1. toApp' = <<>> /\ ~firstContact' /\ ~portOpen' /\ reader' = "out" /\ edt' # "closing"
    BY DEF Exit
<1>2. 1..Len(toApp') = {} /\ 1..(Len(toApp') + 1) - 1 = {}  BY <1>1
<1>3. ValuesUnderstood(toApp', firstContact', Due')  BY <1>2 DEF ValuesUnderstood
<1>4. ~Heard(toApp', firstContact', Len(toApp') + 1)  BY <1>1, <1>2 DEF Heard
<1>5. Agreed(Directors, toApp', firstContact', Due', types')  BY <1>4 DEF Agreed
<1>6. QED  BY <1>1, <1>3, <1>5 DEF FlowInv

\* The first message is begun: before the contact only 'Y' counts; with it, what a table
\* tells is due, and values meet the tables (Serial.java:443-541).
LEMMA FlowReadFirst ==
    ASSUME FlowTypes, FlowInv, ReadFirst, UNCHANGED deviceVars PROVE FlowInv'
<1> DEFINE h == Head(toApp)
<1>1. /\ toApp \in Seq(Messages) /\ toApp # <<>> /\ toApp' = Tail(toApp)
      /\ reader = "in"
      /\ UNCHANGED <<portOpen, appTypes, edt, conected, types>>
    BY DEF ReadFirst, FlowTypes, deviceVars
<1>2. /\ Len(toApp) \in Nat \ {0} /\ h = toApp[1] /\ Len(toApp') = Len(toApp) - 1
      /\ \A i \in 1..Len(toApp') : toApp'[i] = toApp[i + 1]
    BY <1>1
<1>3. Due = appTypes
    <2>1. Due = [d \in Directors |-> appTypes[d]]  BY <1>1 DEF Due
    <2>2. QED  BY <2>1 DEF FlowTypes
<1> HIDE DEF h
<1>4. firstContact' <=> (firstContact \/ h.k = "Y")
    <2>1. CASE firstContact  BY <2>1 DEF ReadFirst
    <2>2. CASE ~firstContact
        <3>1. firstContact' = (h.k = "Y")  BY <2>2 DEF ReadFirst, h
        <3>2. QED  BY <2>2, <3>1
    <2>3. QED  BY <2>1, <2>2
<1>5. firstContact =>
        \A d \in Directors : Due'[d] = IF Tells(h, d) THEN h.types[d] ELSE Due[d]
    <2> SUFFICES ASSUME firstContact, NEW d \in Directors
                 PROVE  Due'[d] = IF Tells(h, d) THEN h.types[d] ELSE Due[d]
        OBVIOUS
    <2>1. Due'[d] = IF reader' \in {"TA", "TD"} /\ d \in DOMAIN current'.types
                    THEN current'.types[d] ELSE appTypes[d]
        BY <1>1 DEF Due
    <2>2. CASE h.k \in {"TA", "TD"}
        <3>1. reader' = h.k /\ current' = [h EXCEPT !.n = @ - 1]
            BY <2>2 DEF ReadFirst, h
        <3>2. current'.types = h.types
            <4>1. h \in Messages  BY <1>1, <1>2
            <4>2. QED  BY <3>1, <4>1 DEF Messages
        <3>3. QED  BY <1>3, <2>1, <2>2, <3>1, <3>2 DEF Tells
    <2>3. CASE h.k \notin {"TA", "TD"}
        <3>1. reader' \in {"in", "C", "V"}  BY <1>1, <2>3 DEF ReadFirst, h
        <3>2. QED  BY <1>3, <2>1, <2>3, <3>1 DEF Tells
    <2>4. QED  BY <2>2, <2>3
<1>6. \A i \in 1..Len(toApp') + 1, d \in Directors : \A v :
        /\ Heard(toApp', firstContact', i) <=> Heard(toApp, firstContact, i + 1)
        /\ Knows(toApp, firstContact, Due, i + 1, d, v)
             => Knows(toApp', firstContact', Due', i, d, v)
    <2> SUFFICES ASSUME NEW i \in 1..Len(toApp') + 1, NEW d \in Directors, NEW v
                 PROVE  /\ Heard(toApp', firstContact', i)
                             <=> Heard(toApp, firstContact, i + 1)
                        /\ Knows(toApp, firstContact, Due, i + 1, d, v)
                             => Knows(toApp', firstContact', Due', i, d, v)
        OBVIOUS
    <2>1. i \in Nat \ {0} /\ i <= Len(toApp)  BY <1>2
    <2>2. firstContact => Due'[d] = IF Tells(h, d) THEN h.types[d] ELSE Due[d]  BY <1>5
    <2>3. /\ firstContact => firstContact'
          /\ Head(toApp).k = "Y" => firstContact'
          /\ firstContact' => firstContact \/ Head(toApp).k = "Y"
        BY <1>4 DEF h
    <2>4. /\ firstContact /\ Tells(Head(toApp), d) => Due'[d] = Head(toApp).types[d]
          /\ firstContact /\ ~Tells(Head(toApp), d) => Due'[d] = Due[d]
        BY <2>2 DEF h
    <2> DEFINE g == firstContact'
               due2 == Due'
    <2>5. /\ Heard(Tail(toApp), g, i) <=> Heard(toApp, firstContact, i + 1)
          /\ Knows(toApp, firstContact, Due, i + 1, d, v)
               => Knows(Tail(toApp), g, due2, i, d, v)
        <3>1. /\ firstContact => g
              /\ Head(toApp).k = "Y" => g
              /\ g => firstContact \/ Head(toApp).k = "Y"
            BY <2>3
        <3>2. /\ firstContact /\ Tells(Head(toApp), d) => due2[d] = Head(toApp).types[d]
              /\ firstContact /\ ~Tells(Head(toApp), d) => due2[d] = Due[d]
            BY <2>4
        <3> HIDE DEF g, due2
        <3>3. QED  BY <1>1, <2>1, <3>1, <3>2, TailKnows
    <2>6. QED  BY <1>1, <2>5
<1>7. ValuesUnderstood(toApp', firstContact', Due')
    <2> SUFFICES ASSUME NEW i \in 1..Len(toApp'), toApp'[i].k = "V"
                 PROVE  /\ DOMAIN toApp'[i].types = Directors
                        /\ Heard(toApp', firstContact', i) =>
                             \A d \in Directors :
                                Knows(toApp', firstContact', Due', i, d, toApp'[i].types[d])
        BY DEF ValuesUnderstood
    <2>1. i + 1 \in 1..Len(toApp) /\ toApp'[i] = toApp[i + 1] /\ i \in 1..Len(toApp') + 1
        BY <1>2
    <2>2. /\ DOMAIN toApp[i + 1].types = Directors
          /\ Heard(toApp, firstContact, i + 1) =>
               \A d \in Directors :
                  Knows(toApp, firstContact, Due, i + 1, d, toApp[i + 1].types[d])
        BY <2>1 DEF FlowInv, ValuesUnderstood
    <2>3. QED  BY <1>6, <2>1, <2>2
<1>8. conected' => Agreed(Directors, toApp', firstContact', Due', types')
    <2> SUFFICES ASSUME conected, Heard(toApp', firstContact', Len(toApp') + 1),
                        NEW d \in Directors
                 PROVE  Knows(toApp', firstContact', Due', Len(toApp') + 1, d, types[d])
        BY <1>1 DEF Agreed
    <2>1. Len(toApp') + 1 \in 1..Len(toApp') + 1 /\ (Len(toApp') + 1) + 1 = Len(toApp) + 1
        BY <1>2
    <2>2. Heard(toApp, firstContact, Len(toApp) + 1)  BY <1>6, <2>1
    <2>3. Knows(toApp, firstContact, Due, Len(toApp) + 1, d, types[d])
        BY <2>2 DEF FlowInv, Agreed
    <2>4. QED  BY <1>6, <2>1, <2>3
<1>9. ASSUME reader' = "V" PROVE appTypes' = current'.types
    <2>1. firstContact /\ h.k = "V" /\ current' = [h EXCEPT !.n = @ - 1]
        BY <1>1, <1>9 DEF ReadFirst, h
    <2>2. h \in Messages  BY <1>1, <1>2
    <2>3. current'.types = h.types  BY <2>1, <2>2 DEF Messages
    <2>4. 1 \in 1..Len(toApp) /\ toApp[1].k = "V" /\ Heard(toApp, firstContact, 1)
        BY <1>2, <2>1 DEF Heard
    <2>5. /\ DOMAIN h.types = Directors
          /\ \A d \in Directors : Knows(toApp, firstContact, Due, 1, d, h.types[d])
        BY <1>2, <2>4 DEF FlowInv, ValuesUnderstood
    <2>6. \A d \in Directors : Due[d] = h.types[d]
        <3>1. 1..1 - 1 = {}  OBVIOUS
        <3>2. QED  BY <2>5, <3>1 DEF Knows
    <2>7. h.types = [d \in Directors |-> h.types[d]]
        <3>1. h.types \in Table  BY <2>2 DEF Messages
        <3>2. PICK S \in SUBSET Directors : h.types \in [S -> Token]  BY <3>1 DEF Table
        <3>3. S = Directors  BY <2>5, <3>2
        <3>4. QED  BY <3>2, <3>3
    <2>8. appTypes = [d \in Directors |-> appTypes[d]]  BY DEF FlowTypes
    <2>9. appTypes = h.types  BY <1>3, <2>6, <2>7, <2>8
    <2>10. QED  BY <1>1, <2>3, <2>9
<1>10. (firstContact' => portOpen') /\ (~portOpen' => toApp' = <<>>)
    <2>1. portOpen  BY <1>1 DEF FlowInv
    <2>2. QED  BY <1>1, <2>1
<1>11. edt' # "closing"  BY <1>1 DEF FlowInv
<1>12. QED  BY <1>7, <1>8, <1>9, <1>10, <1>11 DEF FlowInv

\* The rest is read, and what was due is there.
LEMMA FlowReadRest ==
    ASSUME FlowTypes, FlowInv, ReadRest, UNCHANGED deviceVars PROVE FlowInv'
<1>1. UNCHANGED <<toApp, portOpen, firstContact, edt, conected, types>> /\ reader' = "in"
    BY DEF ReadRest, wireVars, deviceVars
<1>2. appTypes' = Due
    <2>1. CASE reader \in {"TA", "TD"}  BY <2>1 DEF ReadRest, Due
    <2>2. CASE reader \notin {"TA", "TD"}
        <3>1. Due = [d \in Directors |-> appTypes[d]]  BY <2>2 DEF Due
        <3>2. appTypes' = appTypes  BY <2>2 DEF ReadRest
        <3>3. QED  BY <3>1, <3>2 DEF FlowTypes
    <2>3. QED  BY <2>1, <2>2
<1>3. Due' = [d \in Directors |-> appTypes'[d]]  BY <1>1 DEF Due
<1>4. Due' = Due
    <2>1. Due = [d \in Directors |-> Due[d]]  BY DEF Due
    <2>2. QED  BY <1>2, <1>3, <2>1
<1>5. edt' # "closing"  BY <1>1 DEF FlowInv
<1>6. QED  BY <1>1, <1>4, <1>5, QuietApp

LEMMA FlowApp ==
    ASSUME "disconnect" \notin Buttons, FlowTypes, FlowInv,
           Commands \/ EdtStep \/ ReaderStep, UNCHANGED deviceVars
    PROVE  FlowInv'
<1>1. UNCHANGED <<conected, types>>  BY DEF deviceVars
<1>2. ASSUME UNCHANGED <<appTypes, reader, current>>
      PROVE  Due' = Due /\ (reader' = "V" => appTypes' = current'.types)
    BY <1>2 DEF Due, FlowInv
<1>3. CASE Connect
    <2>1. UNCHANGED <<toApp, firstContact, appTypes, reader, current>>
          /\ portOpen' = TRUE /\ edt' = "connecting"
        BY <1>3 DEF Connect
    <2>2. QED  BY <1>1, <1>2, <2>1, QuietApp
<1>4. CASE ConnectEnd \/ SetTimeEnd
    <2>1. UNCHANGED <<toApp, portOpen, firstContact, appTypes, reader, current>>
          /\ edt' = "idle"
        BY <1>4 DEF ConnectEnd, SetTimeEnd
    <2>2. QED  BY <1>1, <1>2, <2>1, QuietApp
<1>5. CASE Disconnect  BY <1>5 DEF Disconnect, Command
<1>6. CASE Close  BY <1>6 DEF Close, FlowInv
<1>7. CASE Retype \/ SetDelay \/ StartReading \/ StopReading
    <2>1. UNCHANGED <<toApp, portOpen, firstContact, appTypes, reader, current, edt>>
        BY <1>7 DEF Retype, SetDelay, StartReading, StopReading
    <2>2. edt' # "closing"  BY <2>1 DEF FlowInv
    <2>3. QED  BY <1>1, <1>2, <2>1, <2>2, QuietApp
<1>8. CASE SetTime
    <2>1. UNCHANGED <<toApp, portOpen, firstContact, appTypes, reader, current>>
          /\ edt' = "sendTime"
        BY <1>8 DEF SetTime
    <2>2. QED  BY <1>1, <1>2, <2>1, QuietApp
<1>9. CASE Exit  BY <1>9, FlowExit
<1>10. CASE Enter
    <2>1. UNCHANGED <<toApp, portOpen, firstContact, appTypes, current, edt>>
          /\ reader = "out" /\ reader' = "in"
        BY <1>10 DEF Enter, wireVars
    <2>2. Due' = Due  BY <2>1 DEF Due
    <2>3. edt' # "closing"  BY <2>1 DEF FlowInv
    <2>4. QED  BY <1>1, <2>1, <2>2, <2>3, QuietApp
<1>11. CASE Leave
    <2>1. UNCHANGED <<toApp, portOpen, firstContact, appTypes, current, edt>>
          /\ reader = "in" /\ reader' = "out"
        BY <1>11 DEF Leave, wireVars
    <2>2. Due' = Due  BY <2>1 DEF Due
    <2>3. edt' # "closing"  BY <2>1 DEF FlowInv
    <2>4. QED  BY <1>1, <2>1, <2>2, <2>3, QuietApp
<1>12. CASE ReadFirst  BY <1>12, FlowReadFirst
<1>13. CASE ReadRest  BY <1>13, FlowReadRest
<1>14. QED
    BY <1>3, <1>4, <1>5, <1>6, <1>7, <1>8, <1>9, <1>10, <1>11, <1>12, <1>13
       DEF Commands, EdtStep, ReaderStep

-----------------------------------------------------------------------------

LEMMA FlowInit == ASSUME Init PROVE FlowTypes /\ FlowInv
<1> USE DEF Init, DeviceInit, AppInit
<1>1. <<>> \in Seq(Messages)  OBVIOUS
<1>2. 1 \in Token  BY DEF Token
<1>3. FlowTypes  BY <1>1, <1>2, EmptyIsSeq DEF FlowTypes
<1>4. 1..Len(toApp) = {}  OBVIOUS
<1>5. ValuesUnderstood(toApp, firstContact, Due)  BY <1>4 DEF ValuesUnderstood
<1>6. FlowInv  BY <1>5 DEF FlowInv
<1>7. QED  BY <1>3, <1>6

LEMMA FlowNext ==
    ASSUME "disconnect" \notin Buttons, ServeInv, FlowTypes, FlowInv, [Next]_vars
    PROVE  FlowInv'
<1>1. CASE (DeviceStep \/ UserStep) /\ UNCHANGED appVars  BY <1>1, FlowStation
<1>2. CASE (Commands \/ EdtStep \/ ReaderStep) /\ UNCHANGED deviceVars  BY <1>2, FlowApp
<1>3. CASE UNCHANGED <<toApp, portOpen, appVars, conected, types>>
    BY <1>3, QuietStation
<1>4. QED
    <2>1. Deliver /\ UNCHANGED <<deviceVars, appVars>>
            => UNCHANGED <<toApp, portOpen, appVars, conected, types>>
        BY DEF Deliver, deviceVars
    <2>2. UNCHANGED vars => UNCHANGED <<toApp, portOpen, appVars, conected, types>>
        BY DEF vars, wireVars, deviceVars
    <2>3. QED  BY <1>1, <1>2, <1>3, <2>1, <2>2 DEF Next

FlowWhole == ServeInv /\ FlowTypes /\ FlowInv

LEMMA FlowWholeHolds ==
    ASSUME "disconnect" \notin Buttons
    PROVE  Spec => []FlowWhole
<1>1. Init => FlowWhole
    <2>1. Init => ServeInv
        BY DEF Init, DeviceInit, ServeInv, ClientServed, Commanded
    <2>2. QED  BY <2>1, FlowInit DEF FlowWhole
<1>2. FlowWhole /\ [Next]_vars => FlowWhole'
    BY ServeNext, FlowTypesNext, FlowNext DEF FlowWhole
<1>3. QED  BY <1>1, <1>2, PTL DEF Spec

\* As long as nobody presses the disconnect button: whenever SensApl is about to read
\* values (Serial.java:528-541), its tables are the ones the station measured under. For
\* every size of the buffers and whatever is retyped at either end, lost, or restarted.
THEOREM ValuesMeet ==
    ASSUME "disconnect" \notin Buttons
    PROVE  Spec => []ValuesMeetTheirTypes
<1>1. FlowWhole => ValuesMeetTheirTypes
    BY DEF FlowWhole, FlowInv, ValuesMeetTheirTypes
<1>2. QED  BY <1>1, FlowWholeHolds, PTL

\* Likewise: once SensApl has contact and has read everything, its tables are those of the
\* station (Serial.h:108-142, Serial.java:469-491).
THEOREM TablesAgreeHolds ==
    ASSUME "disconnect" \notin Buttons
    PROVE  Spec => []TablesAgree
<1>1. FlowWhole => TablesAgree
    <2> SUFFICES ASSUME FlowWhole, firstContact, conected, toApp = <<>>,
                        reader \in {"out", "in"}
                 PROVE  appTypes = types
        BY DEF TablesAgree
    <2>1. Len(toApp) = 0 /\ 1..(Len(toApp) + 1) - 1 = {}  OBVIOUS
    <2>2. Heard(toApp, firstContact, Len(toApp) + 1)  BY DEF Heard
    <2>3. \A d \in Directors :
            Knows(toApp, firstContact, Due, Len(toApp) + 1, d, types[d])
        BY <2>2 DEF FlowWhole, FlowInv, Agreed
    <2>4. \A d \in Directors : Due[d] = types[d]  BY <2>1, <2>3 DEF Knows
    <2>5. Due = [d \in Directors |-> appTypes[d]]  BY DEF Due
    <2>6. \A d \in Directors : appTypes[d] = types[d]  BY <2>4, <2>5
    <2>7. /\ appTypes = [d \in Directors |-> appTypes[d]]
          /\ types = [d \in Directors |-> types[d]]
        BY DEF FlowWhole, FlowTypes
    <2>8. QED  BY <2>6, <2>7
<1>2. QED  BY <1>1, FlowWholeHolds, PTL

-----------------------------------------------------------------------------
(* What the station reads. As long as nothing is dropped at the full       *)
(* buffer, the line holds the rest of what SensApl wrote, in its order; so *)
(* each 'T' comes with a table, a pin and a type of SensApl's lists.       *)

Line == rx \o toDevice

\* After place i there is what follows the letter of an upload; every 'T' is one's letter.
Upload(q, i) ==
    i + 3 <= Len(q) /\ q[i + 1] \in Directors /\ q[i + 2] = 1 /\ q[i + 3] \in SensorTypes
Whole(q) == \A i \in 1..Len(q) : q[i] = T => Upload(q, i)

LineInv ==
    /\ Whole(Line)
    /\ at = "retype" => Upload(Line, 0)

\* r is what is left of q when n have been read.
Dropped(q, r, n) ==
    /\ n \in 0..Len(q) /\ Len(r) = Len(q) - n
    /\ \A i \in 1..Len(r) : r[i] = q[i + n]

\* The ways to read from a buffer: nothing, all, one byte, some.
LEMMA Dropping ==
    ASSUME NEW q \in Seq(Token)
    PROVE  /\ Dropped(q, q, 0) /\ Dropped(q, <<>>, Len(q))
           /\ q # <<>> => Dropped(q, Tail(q), 1)
           /\ \A n \in 0..Len(q) : Dropped(q, SubSeq(q, n + 1, Len(q)), n)
<1>1. Dropped(q, q, 0)  BY DEF Dropped
<1>2. Dropped(q, <<>>, Len(q))  BY DEF Dropped
<1>3. ASSUME q # <<>> PROVE Dropped(q, Tail(q), 1)  BY <1>3 DEF Dropped
<1>4. ASSUME NEW n \in 0..Len(q) PROVE Dropped(q, SubSeq(q, n + 1, Len(q)), n)
    BY DEF Dropped
<1>5. QED  BY <1>1, <1>2, <1>3, <1>4

\* What is read from the front is gone from the whole.
LEMMA DroppedBefore ==
    ASSUME NEW q \in Seq(Token), NEW r \in Seq(Token), NEW n, Dropped(q, r, n),
           NEW s \in Seq(Token)
    PROVE  Dropped(q \o s, r \o s, n)
<1> DEFINE a == q \o s
           b == r \o s
<1>1. Len(q) \in Nat /\ Len(r) \in Nat /\ Len(s) \in Nat  OBVIOUS
<1>2. n \in Int /\ 0 <= n /\ n <= Len(q) /\ Len(r) = Len(q) - n  BY <1>1 DEF Dropped
<1>3. /\ Len(a) = Len(q) + Len(s)
      /\ \A i \in 1..Len(a) : a[i] = IF i <= Len(q) THEN q[i] ELSE s[i - Len(q)]
    OBVIOUS
<1>4. /\ Len(b) = Len(r) + Len(s)
      /\ \A i \in 1..Len(b) : b[i] = IF i <= Len(r) THEN r[i] ELSE s[i - Len(r)]
    OBVIOUS
<1> HIDE DEF a, b
<1>5. ASSUME NEW i \in 1..Len(b) PROVE b[i] = a[i + n]
    <2>1. i + n \in 1..Len(a)  BY <1>1, <1>2, <1>3, <1>4
    <2>2. CASE i <= Len(r)
        <3>1. i \in 1..Len(r) /\ i + n <= Len(q)  BY <1>1, <1>2, <2>2
        <3>2. r[i] = q[i + n]  BY <3>1 DEF Dropped
        <3>3. QED  BY <1>3, <1>4, <2>1, <3>1, <3>2
    <2>3. CASE ~(i <= Len(r))
        <3>1. ~(i + n <= Len(q)) /\ i - Len(r) = (i + n) - Len(q)  BY <1>1, <1>2, <2>3
        <3>2. b[i] = s[i - Len(r)] /\ a[i + n] = s[(i + n) - Len(q)]
            BY <1>3, <1>4, <2>1, <2>3, <3>1
        <3>3. QED  BY <3>1, <3>2
    <2>4. QED  BY <2>2, <2>3
<1>6. Len(b) = Len(a) - n /\ n <= Len(a)  BY <1>1, <1>2, <1>3, <1>4
<1>7. Dropped(a, b, n)  BY <1>2, <1>5, <1>6 DEF Dropped
<1>8. QED  BY <1>7 DEF a, b

LEMMA UploadDropped ==
    ASSUME NEW q \in Seq(Token), NEW r \in Seq(Token), NEW n, Dropped(q, r, n),
           NEW i \in Nat, Upload(q, i + n)
    PROVE  Upload(r, i)
<1>1. Len(q) \in Nat /\ Len(r) = Len(q) - n /\ n \in Nat  BY DEF Dropped
<1>2. i + 3 <= Len(r)  BY <1>1 DEF Upload
<1>3. i + 1 \in 1..Len(r) /\ i + 2 \in 1..Len(r) /\ i + 3 \in 1..Len(r)  BY <1>1, <1>2
<1>4. r[i + 1] = q[i + n + 1] /\ r[i + 2] = q[i + n + 2] /\ r[i + 3] = q[i + n + 3]
    <2>1. r[i + 1] = q[(i + 1) + n] /\ r[i + 2] = q[(i + 2) + n] /\ r[i + 3] = q[(i + 3) + n]
        BY <1>3 DEF Dropped
    <2>2. (i + 1) + n = i + n + 1 /\ (i + 2) + n = i + n + 2 /\ (i + 3) + n = i + n + 3
        BY <1>1
    <2>3. QED  BY <2>1, <2>2
<1>5. QED  BY <1>2, <1>4 DEF Upload

LEMMA WholeDropped ==
    ASSUME NEW q \in Seq(Token), NEW r \in Seq(Token), NEW n, Dropped(q, r, n), Whole(q)
    PROVE  Whole(r)
<1> SUFFICES ASSUME NEW i \in 1..Len(r), r[i] = T PROVE Upload(r, i)  BY DEF Whole
<1>1. Len(q) \in Nat /\ Len(r) = Len(q) - n /\ n \in Nat  BY DEF Dropped
<1>2. i + n \in 1..Len(q) /\ r[i] = q[i + n] /\ i \in Nat  BY <1>1 DEF Dropped
<1>3. Upload(q, i + n)  BY <1>2 DEF Whole
<1>4. QED  BY <1>2, <1>3, UploadDropped

\* What is written leaves what is there alone.
LEMMA UploadWritten ==
    ASSUME NEW q \in Seq(Token), NEW c \in Seq(Token), NEW i \in Nat, Upload(q, i)
    PROVE  Upload(q \o c, i)
<1>1. Len(q) \in Nat /\ i + 3 <= Len(q)  BY DEF Upload
<1>2. Len(q \o c) = Len(q) + Len(c) /\ Len(c) \in Nat  OBVIOUS
<1>3. \A j \in 1..Len(q) : (q \o c)[j] = q[j]  OBVIOUS
<1>4. i + 1 \in 1..Len(q) /\ i + 2 \in 1..Len(q) /\ i + 3 \in 1..Len(q)  BY <1>1
<1>5. QED  BY <1>1, <1>2, <1>3, <1>4 DEF Upload

LEMMA WholeWritten ==
    ASSUME NEW q \in Seq(Token), NEW c \in Seq(Token), Whole(q), Whole(c)
    PROVE  Whole(q \o c)
<1> DEFINE w == q \o c
<1>1. /\ Len(q) \in Nat /\ Len(c) \in Nat /\ Len(w) = Len(q) + Len(c)
      /\ \A j \in 1..Len(q) : w[j] = q[j]
      /\ \A j \in 1..Len(c) : w[Len(q) + j] = c[j]
    OBVIOUS
<1>2. ASSUME NEW i \in 1..Len(q), Upload(q, i) PROVE Upload(w, i)  BY <1>2, UploadWritten
<1> HIDE DEF w
<1> SUFFICES ASSUME NEW i \in 1..Len(w), w[i] = T PROVE Upload(w, i)  BY DEF Whole, w
<1>3. CASE i <= Len(q)
    <2>1. i \in 1..Len(q) /\ q[i] = T  BY <1>1, <1>3
    <2>2. QED  BY <1>2, <2>1 DEF Whole
<1>4. CASE i > Len(q)
    <2>1. PICK j \in 1..Len(c) : i = Len(q) + j
        <3>1. i - Len(q) \in 1..Len(c) /\ i = Len(q) + (i - Len(q))  BY <1>1, <1>4
        <3>2. QED  BY <3>1
    <2>2. c[j] = T  BY <1>1, <2>1
    <2>3. /\ j + 3 <= Len(c) /\ c[j + 1] \in Directors /\ c[j + 2] = 1
          /\ c[j + 3] \in SensorTypes
        BY <2>2 DEF Whole, Upload
    <2>4. /\ j + 1 \in 1..Len(c) /\ j + 2 \in 1..Len(c) /\ j + 3 \in 1..Len(c)
          /\ i + 1 = Len(q) + (j + 1) /\ i + 2 = Len(q) + (j + 2) /\ i + 3 = Len(q) + (j + 3)
        BY <1>1, <2>1, <2>3
    <2>5. w[i + 1] = c[j + 1] /\ w[i + 2] = c[j + 2] /\ w[i + 3] = c[j + 3]
        BY <1>1, <2>4
    <2>6. i + 3 <= Len(w)  BY <1>1, <2>1, <2>3
    <2>7. QED  BY <2>3, <2>5, <2>6 DEF Upload
<1>5. QED  BY <1>1, <1>3, <1>4

\* Every step of the station reads from the front of its buffer, and takes up an upload
\* at its letter only.
LEMMA StationReads ==
    ASSUME FlowTypes, DeviceStep \/ UserStep
    PROVE  /\ toDevice' = toDevice
           /\ \E n \in 0..Len(rx) : Dropped(rx, rx', n)
           /\ at' = "retype" => \/ at = "retype" /\ rx' = rx
                                \/ rx # <<>> /\ Head(rx) = T /\ rx' = Tail(rx)
<1> DEFINE Reads == \E n \in 0..Len(rx) : Dropped(rx, rx', n)
<1>1. rx \in Seq(Token) /\ Len(rx) \in Nat  BY DEF FlowTypes
<1>2. ASSUME rx' = rx PROVE Reads
    <2>1. 0 \in 0..Len(rx) /\ Dropped(rx, rx, 0)  BY <1>1, Dropping
    <2>2. QED  BY <1>2, <2>1
<1>3. ASSUME rx' = <<>> PROVE Reads
    <2>1. Len(rx) \in 0..Len(rx) /\ Dropped(rx, <<>>, Len(rx))  BY <1>1, Dropping
    <2>2. QED  BY <1>3, <2>1
<1>4. ASSUME rx # <<>>, rx' = Tail(rx) PROVE Reads
    <2>1. 1 \in 0..Len(rx) /\ Dropped(rx, Tail(rx), 1)  BY <1>1, <1>4, Dropping
    <2>2. QED  BY <1>4, <2>1
<1>5. ASSUME NEW n \in 0..Len(rx), rx' = SubSeq(rx, n + 1, Len(rx)) PROVE Reads
    <2>1. Dropped(rx, SubSeq(rx, n + 1, Len(rx)), n)  BY <1>1, Dropping
    <2>2. QED  BY <1>5, <2>1
<1> HIDE DEF Reads
<1>6. CASE Pass  BY <1>2, <1>6 DEF Pass, Reads
<1>7. CASE Wait
    <2>1. UNCHANGED <<toDevice, rx>> /\ at' # "retype"  BY <1>7 DEF Wait, wireVars
    <2>2. QED  BY <1>2, <2>1 DEF Reads
<1>8. CASE PollSel
    <2>1. toDevice' = toDevice  BY <1>8 DEF PollSel
    <2>2. CASE StartStop
        <3>1. rx' = <<>> /\ at' # "retype"  BY <2>2 DEF StartStop
        <3>2. QED  BY <1>3, <2>1, <3>1 DEF Reads
    <2>3. CASE NoKey
        <3>1. rx' = rx /\ at' # "retype"  BY <2>3 DEF NoKey
        <3>2. QED  BY <1>2, <2>1, <3>1 DEF Reads
    <2>4. QED  BY <1>8, <2>2, <2>3 DEF PollSel
<1>9. CASE EventEnd
    <2>1. UNCHANGED <<toDevice, rx>> /\ at' # "retype"  BY <1>9 DEF EventEnd, wireVars
    <2>2. QED  BY <1>2, <2>1 DEF Reads
<1>10. CASE ReadY \/ ReadX
    <2>1. rx # <<>> /\ rx' = Tail(rx) /\ toDevice' = toDevice /\ at = "event" /\ at' = at
        BY <1>10 DEF ReadY, ReadX
    <2>2. QED  BY <1>4, <2>1 DEF Reads
<1>11. CASE ReadOther
    <2>1. rx # <<>> /\ rx' = Tail(rx) /\ toDevice' = toDevice  BY <1>11 DEF ReadOther
    <2>2. ASSUME Head(rx) # T PROVE at' # "retype"
        <3>1. CASE Head(rx) = D  BY <1>11, <2>2, <3>1, Zenon DEF ReadOther
        <3>2. CASE Head(rx) # D /\ Head(rx) = B  BY <1>11, <2>2, <3>2, Zenon DEF ReadOther
        <3>3. CASE Head(rx) # D /\ Head(rx) # B /\ Head(rx) = M
            BY <1>11, <2>2, <3>3, Zenon DEF ReadOther
        <3>4. CASE Head(rx) # D /\ Head(rx) # B /\ Head(rx) # M
            BY <1>11, <2>2, <3>4, Zenon DEF ReadOther
        <3>5. QED  BY <3>1, <3>2, <3>3, <3>4
    <2>3. QED  BY <1>4, <2>1, <2>2 DEF Reads
<1>12. CASE RetypeEvent
    <2>1. toDevice' = toDevice /\ at' # "retype" /\ Len(rx) >= 3
        BY <1>12 DEF RetypeEvent
    <2>2. CASE Head(rx) \in Directors
        <3>1. rx' = SubSeq(rx, 3 + 1, Len(rx))  BY <1>12, <2>2 DEF RetypeEvent
        <3>2. 3 \in 0..Len(rx)  BY <1>1, <2>1
        <3>3. QED  BY <1>5, <2>1, <3>1, <3>2 DEF Reads
    <2>3. CASE Head(rx) \notin Directors
        <3>1. rx # <<>> /\ rx' = Tail(rx)  BY <1>1, <1>12, <2>1, <2>3 DEF RetypeEvent
        <3>2. QED  BY <1>4, <2>1, <3>1 DEF Reads
    <2>4. QED  BY <2>2, <2>3
<1>13. CASE StoreEvent
    <2>1. UNCHANGED <<toDevice, rx>> /\ at' # "retype"  BY <1>13 DEF StoreEvent, wireVars
    <2>2. QED  BY <1>2, <2>1 DEF Reads
<1>14. CASE DelayEvent
    <2>1. toDevice' = toDevice /\ at' # "retype"  BY <1>14 DEF DelayEvent
    <2>2. rx' = <<>> \/ \E n \in 1..Len(rx) : rx' = SubSeq(rx, n + 1, Len(rx))
        BY <1>14 DEF DelayEvent
    <2>3. \A n \in 1..Len(rx) : n \in 0..Len(rx)  BY <1>1
    <2>4. QED  BY <1>3, <1>5, <2>1, <2>2, <2>3 DEF Reads
<1>15. CASE TimeEvent
    <2>1. toDevice' = toDevice /\ at' # "retype"  BY <1>15 DEF TimeEvent
    <2>2. \E n \in 1..Len(rx) : rx' = SubSeq(rx, n + 1, Len(rx))  BY <1>15 DEF TimeEvent
    <2>3. \A n \in 1..Len(rx) : n \in 0..Len(rx)  BY <1>1
    <2>4. QED  BY <1>5, <2>1, <2>2, <2>3 DEF Reads
<1>16. CASE Stream
    <2>1. toDevice' = toDevice /\ at' # "retype"  BY <1>16 DEF Stream
    <2>2. rx' = rx \/ (rx # <<>> /\ rx' = Tail(rx))  BY <1>16 DEF Stream
    <2>3. QED  BY <1>2, <1>4, <2>1, <2>2 DEF Reads
<1>17. CASE Released \/ MenuLeave
    <2>1. UNCHANGED <<toDevice, rx>> /\ at' # "retype"
        BY <1>17 DEF Released, MenuLeave, wireVars
    <2>2. QED  BY <1>2, <2>1 DEF Reads
<1>18. CASE MenuRetype \/ MenuSetTime \/ MenuSetDelay
    <2>1. UNCHANGED <<toDevice, rx>> /\ at = "menu" /\ at' = at
        BY <1>18 DEF MenuRetype, MenuSetTime, MenuSetDelay, wireVars
    <2>2. QED  BY <1>2, <2>1 DEF Reads
<1>19. CASE Restart
    <2>1. rx' = <<>> /\ toDevice' = toDevice /\ at' # "retype"  BY <1>19 DEF Restart
    <2>2. QED  BY <1>3, <2>1 DEF Reads
<1>20. QED
    BY <1>6, <1>7, <1>8, <1>9, <1>10, <1>11, <1>12, <1>13, <1>14, <1>15, <1>16, <1>17,
       <1>18, <1>19 DEF DeviceStep, UserStep, SerialEvent

\* What SensApl's two threads write is whole commands, their ends or nothing; each has a
\* bound on its bytes.
Written(c) == c \in Seq(Token) /\ Whole(c)

LEMMA Commanding ==
    /\ \A b \in Token \ {T} : Written(<<b>>)
    /\ \A a \in Token \ {T}, b \in Token \ {T} : Written(<<a, b>>)
    /\ \A d \in Directors, t \in SensorTypes : Written(<<T, d, 1, t>>)
<1>1. ASSUME NEW b \in Token \ {T} PROVE Written(<<b>>)
    BY DEF Written, Whole
<1>2. ASSUME NEW a \in Token \ {T}, NEW b \in Token \ {T} PROVE Written(<<a, b>>)
    BY DEF Written, Whole
<1>3. ASSUME NEW d \in Directors, NEW t \in SensorTypes PROVE Written(<<T, d, 1, t>>)
    <2>1. d \in {65, 68, 73} /\ t \in 1..6
        BY DirectorsAssumption, SensorTypesAssumption DEF A, D, I
    <2>2. <<T, d, 1, t>> \in Seq(Token)
        <3>1. d \in Token /\ t \in Token /\ 1 \in Token /\ T \in Token
            BY <2>1 DEF Token, T
        <3>2. QED  BY <3>1
    <2> DEFINE c == <<T, d, 1, t>>
    <2>3. Len(c) = 4 /\ c[1] = T /\ c[2] = d /\ c[3] = 1 /\ c[4] = t  OBVIOUS
    <2> HIDE DEF c
    <2>4. \A i \in 1..Len(c) : c[i] = T => i = 1
        BY <2>1, <2>3 DEF T
    <2>5. Upload(c, 1)  BY <2>3 DEF Upload
    <2>6. Whole(c)  BY <2>4, <2>5 DEF Whole
    <2>7. QED  BY <2>2, <2>6 DEF Written, c
<1>4. QED  BY <1>1, <1>2, <1>3

-----------------------------------------------------------------------------
(* How many bytes are on the way *)

LEMMA OccurrencesJoined ==
    ASSUME NEW q \in Seq(Token), NEW c \in Seq(Token), NEW b
    PROVE  /\ Occurrences(q, b) \in Nat
           /\ Occurrences(q \o c, b) = Occurrences(q, b) + Occurrences(c, b)
<1> DEFINE w == q \o c
           S == {i \in 1..Len(q) : q[i] = b}
           U == {j \in 1..Len(c) : c[j] = b}
           V == {i \in Len(q) + 1..Len(w) : w[i] = b}
           f == [j \in U |-> Len(q) + j]
<1>1. /\ Len(q) \in Nat /\ Len(c) \in Nat /\ Len(w) = Len(q) + Len(c)
      /\ \A j \in 1..Len(q) : w[j] = q[j]
      /\ \A j \in 1..Len(c) : w[Len(q) + j] = c[j]
      /\ DOMAIN w = 1..Len(w) /\ DOMAIN q = 1..Len(q) /\ DOMAIN c = 1..Len(c)
    OBVIOUS
<1>2. IsFiniteSet(S) /\ IsFiniteSet(U) /\ Cardinality(S) \in Nat /\ Cardinality(U) \in Nat
    <2>1. IsFiniteSet(1..Len(q)) /\ IsFiniteSet(1..Len(c))  BY <1>1, FS_Interval
    <2>2. S \in SUBSET (1..Len(q)) /\ U \in SUBSET (1..Len(c))  OBVIOUS
    <2> HIDE DEF S, U
    <2>3. IsFiniteSet(S) /\ IsFiniteSet(U)  BY <2>1, <2>2, FS_Subset
    <2>4. QED  BY <2>3, FS_CardinalityType
<1> HIDE DEF w
<1>3. IsFiniteSet(V) /\ Cardinality(V) = Cardinality(U)
    <2>1. f \in [U -> V]  BY <1>1
    <2>2. \A i, j \in U : f[i] = f[j] => i = j  BY <1>1
    <2>3. ASSUME NEW i \in V PROVE \E j \in U : f[j] = i
        <3>1. i - Len(q) \in 1..Len(c) /\ Len(q) + (i - Len(q)) = i  BY <1>1
        <3>2. c[i - Len(q)] = b  BY <1>1, <3>1
        <3>3. i - Len(q) \in U  BY <3>1, <3>2
        <3>4. QED  BY <3>1, <3>3
    <2> HIDE DEF f, U, V
    <2>4. f \in Bijection(U, V)
        BY <2>1, <2>2, <2>3 DEF Bijection, Injection, Surjection, IsInjective
    <2>5. ExistsBijection(U, V)  BY <2>4 DEF ExistsBijection
    <2>6. QED  BY <1>2, <2>5, FS_Bijection
<1>4. {i \in DOMAIN w : w[i] = b} = S \cup V
    <2>1. \A i : i \in 1..Len(w) <=> i \in 1..Len(q) \/ i \in Len(q) + 1..Len(w)
        BY <1>1
    <2>2. QED  BY <1>1, <2>1
<1>5. S \cap V = {}
    <2>1. \A i : ~(i \in 1..Len(q) /\ i \in Len(q) + 1..Len(w))  BY <1>1
    <2>2. QED  BY <2>1
<1>6. Occurrences(q, b) = Cardinality(S) /\ Occurrences(c, b) = Cardinality(U)
    BY <1>1 DEF Occurrences
<1>7. Occurrences(w, b) = Cardinality(S \cup V)  BY <1>4 DEF Occurrences
<1> HIDE DEF S, U, V, f
<1>8. Cardinality(S \cup V) = Cardinality(S) + Cardinality(V)
    <2>1. Cardinality(S \cap V) = 0  BY <1>5, FS_EmptySet
    <2>2. Cardinality(S \cup V) = Cardinality(S) + Cardinality(V) - Cardinality(S \cap V)
        BY <1>2, <1>3, FS_Union
    <2>3. QED  BY <1>2, <1>3, <2>1, <2>2
<1>9. QED  BY <1>2, <1>3, <1>6, <1>7, <1>8 DEF w

LEMMA AvailableJoined ==
    ASSUME NEW q \in Seq(Token), NEW c \in Seq(Token)
    PROVE  /\ Available(q) \in Nat
           /\ Available(q \o c) = Available(q) + Available(c)
<1>1. Len(q) \in Nat /\ Len(c) \in Nat /\ Len(q \o c) = Len(q) + Len(c)  OBVIOUS
<1>2. \A b : /\ Occurrences(q, b) \in Nat /\ Occurrences(c, b) \in Nat
             /\ Occurrences(q \o c, b) = Occurrences(q, b) + Occurrences(c, b)
    BY OccurrencesJoined
<1>3. /\ Occurrences(q, NumberText) \in Nat /\ Occurrences(c, NumberText) \in Nat
      /\ Occurrences(q \o c, NumberText)
           = Occurrences(q, NumberText) + Occurrences(c, NumberText)
      /\ Occurrences(q, TimeText) \in Nat /\ Occurrences(c, TimeText) \in Nat
      /\ Occurrences(q \o c, TimeText) = Occurrences(q, TimeText) + Occurrences(c, TimeText)
    BY <1>2
<1>4. /\ Available(q) = Len(q) + 5 * Occurrences(q, NumberText) + 9 * Occurrences(q, TimeText)
      /\ Available(c) = Len(c) + 5 * Occurrences(c, NumberText) + 9 * Occurrences(c, TimeText)
      /\ Available(q \o c) = Len(q \o c) + 5 * Occurrences(q \o c, NumberText)
                                         + 9 * Occurrences(q \o c, TimeText)
    BY DEF Available
<1>5. \A k, l, m, n, x, y \in Nat :
        (k + l) + 5 * (m + n) + 9 * (x + y) = (k + 5 * m + 9 * x) + (l + 5 * n + 9 * y)
    OBVIOUS
<1>6. Available(q \o c) = Available(q) + Available(c)
    <2> DEFINE k == Len(q)
               l == Len(c)
               m == Occurrences(q, NumberText)
               n == Occurrences(c, NumberText)
               x == Occurrences(q, TimeText)
               y == Occurrences(c, TimeText)
    <2>1. Available(q \o c) = (k + l) + 5 * (m + n) + 9 * (x + y)  BY <1>1, <1>3, <1>4
    <2>2. k \in Nat /\ l \in Nat /\ m \in Nat /\ n \in Nat /\ x \in Nat /\ y \in Nat
        BY <1>1, <1>3
    <2>3. Available(q) = k + 5 * m + 9 * x /\ Available(c) = l + 5 * n + 9 * y  BY <1>4
    <2> HIDE DEF k, l, m, n, x, y
    <2>4. QED  BY ONLY <1>5, <2>1, <2>2, <2>3
<1>7. Available(q) \in Nat
    <2> DEFINE k == Len(q)
               m == Occurrences(q, NumberText)
               x == Occurrences(q, TimeText)
    <2>1. k \in Nat /\ m \in Nat /\ x \in Nat  BY <1>1, <1>3
    <2>2. Available(q) = k + 5 * m + 9 * x  BY <1>4
    <2> HIDE DEF k, m, x
    <2>3. QED  BY ONLY <2>1, <2>2
<1>8. QED  BY <1>6, <1>7

\* What a byte, a number and a time take.
LEMMA AvailableOne ==
    ASSUME NEW b \in Token PROVE Available(<<b>>) = Width(b) /\ Available(<<>>) = 0
<1>1. ASSUME NEW a PROVE Occurrences(<<b>>, a) = IF a = b THEN 1 ELSE 0
    <2>1. {i \in DOMAIN <<b>> : <<b>>[i] = a} = IF a = b THEN {1} ELSE {}  OBVIOUS
    <2>2. Cardinality({1}) = 1 /\ Cardinality({}) = 0  BY FS_Singleton, FS_EmptySet
    <2>3. QED  BY <2>1, <2>2 DEF Occurrences
<1>2. \A a : Occurrences(<<>>, a) = 0
    <2>1. \A a : {i \in DOMAIN <<>> : <<>>[i] = a} = {}  OBVIOUS
    <2>2. QED  BY <2>1, FS_EmptySet DEF Occurrences
<1>3. Len(<<b>>) = 1 /\ Len(<<>>) = 0  OBVIOUS
<1>4. Available(<<b>>) = Width(b)
    <2>1. Available(<<b>>) = 1 + 5 * (IF NumberText = b THEN 1 ELSE 0)
                               + 9 * (IF TimeText = b THEN 1 ELSE 0)
        BY <1>1, <1>3 DEF Available
    <2>2. QED  BY <2>1 DEF Width, NumberText, TimeText
<1>5. Available(<<>>) = 0  BY <1>2, <1>3 DEF Available
<1>6. QED  BY <1>4, <1>5

LEMMA AvailableTwo ==
    ASSUME NEW a \in Token, NEW b \in Token
    PROVE  <<a, b>> \in Seq(Token) /\ Available(<<a, b>>) = Width(a) + Width(b)
<1>1. <<a, b>> = <<a>> \o <<b>>
    <2> DEFINE w == <<a>> \o <<b>>
    <2>1. w \in Seq(Token) /\ Len(w) = 2 /\ w[1] = a /\ w[2] = b  OBVIOUS
    <2> HIDE DEF w
    <2>2. w = <<a, b>>  BY <2>1
    <2>3. QED  BY <2>2 DEF w
<1>2. <<a>> \in Seq(Token) /\ <<b>> \in Seq(Token) /\ <<a, b>> \in Seq(Token)  OBVIOUS
<1>3. Available(<<a>>) = Width(a) /\ Available(<<b>>) = Width(b)  BY AvailableOne
<1>4. Available(<<a>> \o <<b>>) = Available(<<a>>) + Available(<<b>>)
    BY <1>2, AvailableJoined
<1>5. QED  BY <1>1, <1>2, <1>3, <1>4

LEMMA AvailableFour ==
    ASSUME NEW a \in Token, NEW b \in Token, NEW c \in Token, NEW d \in Token
    PROVE  Available(<<a, b, c, d>>) = (Width(a) + Width(b)) + (Width(c) + Width(d))
<1>1. <<a, b, c, d>> = <<a, b>> \o <<c, d>>  OBVIOUS
<1>2. <<a, b>> \in Seq(Token) /\ <<c, d>> \in Seq(Token)  BY AvailableTwo
<1>3. Available(<<a, b>>) = Width(a) + Width(b) /\ Available(<<c, d>>) = Width(c) + Width(d)
    BY AvailableTwo
<1>4. Available(<<a, b>> \o <<c, d>>) = Available(<<a, b>>) + Available(<<c, d>>)
    BY <1>2, AvailableJoined
<1>5. QED  BY <1>1, <1>3, <1>4

\* To read makes it no more.
LEMMA AvailableDropped ==
    ASSUME NEW q \in Seq(Token), NEW r \in Seq(Token), NEW n, Dropped(q, r, n)
    PROVE  Available(r) <= Available(q)
<1> DEFINE h == SubSeq(q, 1, n)
<1>1. n \in 0..Len(q) /\ Len(q) \in Nat /\ Len(r) = Len(q) - n  BY DEF Dropped
<1>2. h \in Seq(Token) /\ Len(h) = n /\ \A i \in 1..n : h[i] = q[i]  BY <1>1
<1> HIDE DEF h
<1>3. q = h \o r
    <2>1. h \o r \in Seq(Token) /\ Len(h \o r) = Len(q)  BY <1>1, <1>2
    <2>2. ASSUME NEW i \in 1..Len(q) PROVE (h \o r)[i] = q[i]
        <3>1. CASE i <= n  BY <1>1, <1>2, <3>1
        <3>2. CASE i > n
            <4>1. i - n \in 1..Len(r) /\ (i - n) + n = i  BY <1>1, <3>2
            <4>2. r[i - n] = q[i]  BY <4>1 DEF Dropped
            <4>3. (h \o r)[i] = r[i - n]  BY <1>1, <1>2, <3>2, <4>1
            <4>4. QED  BY <4>2, <4>3
        <3>3. i <= n \/ i > n  BY <1>1
        <3>4. QED  BY <3>1, <3>2, <3>3
    <2> DEFINE w == h \o r
    <2>3. \A u \in Seq(Token) : u = [i \in 1..Len(u) |-> u[i]]  OBVIOUS
    <2>4. Len(w) = Len(q) /\ \A i \in 1..Len(q) : w[i] = q[i]  BY <2>1, <2>2
    <2> HIDE DEF w
    <2>5. w \in Seq(Token)  BY <2>1 DEF w
    <2>6. w = q
        <3>1. w = [i \in 1..Len(w) |-> w[i]] /\ q = [i \in 1..Len(q) |-> q[i]]
            BY <2>3, <2>5
        <3>2. [i \in 1..Len(w) |-> w[i]] = [i \in 1..Len(q) |-> q[i]]  BY <2>4
        <3>3. QED  BY <3>1, <3>2, Zenon
    <2>7. QED  BY <2>6 DEF w
<1>4. Available(q) = Available(h) + Available(r) /\ Available(h) \in Nat
      /\ Available(r) \in Nat
    BY <1>2, <1>3, AvailableJoined
<1>5. QED  BY <1>4

\* What holds of each variable by itself, whatever the line and the tables hold.
Simple ==
    /\ serialOn \in BOOLEAN /\ portOpen \in BOOLEAN
    /\ conected \in BOOLEAN /\ clockSet \in BOOLEAN /\ firstContact \in BOOLEAN
    /\ failures \in 0..MaxFailures /\ given \in 0..MaxCommands
    /\ at \in Places /\ left \in 0..Ticks /\ ticks \in 0..Ticks
    /\ edt \in {"idle", "connecting", "closing", "sendTime"}
    /\ reader \in {"out", "in", "TA", "TD", "C", "V"}

LEMMA SimpleStation ==
    ASSUME Simple, DeviceStep \/ UserStep, UNCHANGED appVars PROVE Simple'
<1> USE TicksAssumption, MaxFailuresAssumption DEF Simple, Places
<1>1. UNCHANGED <<firstContact, given, edt, reader>>  BY DEF appVars
<1>2. CASE Pass  BY <1>1, <1>2 DEF Pass
<1>3. CASE Wait  BY <1>1, <1>3 DEF Wait, wireVars
<1>4. CASE PollSel
    <2>1. left' \in 0..Ticks  BY <1>4 DEF PollSel
    <2>2. UNCHANGED <<portOpen, clockSet, ticks, failures>>  BY <1>4 DEF PollSel
    <2>3. serialOn' \in BOOLEAN /\ conected' \in BOOLEAN /\ at' \in Places
        <3>1. CASE StartStop
            <4>1. serialOn' = ~serialOn /\ conected' = (conected /\ serialOn')
                BY <3>1 DEF StartStop
            <4>2. serialOn' \in BOOLEAN  BY <4>1, Zenon
            <4>3. conected' \in BOOLEAN  BY <4>1, Zenon
            <4>4. at' = "released"  BY <3>1 DEF StartStop
            <4>5. QED  BY <4>2, <4>3, <4>4
        <3>2. CASE NoKey  BY <3>2 DEF NoKey
        <3>3. QED  BY <1>4, <3>1, <3>2 DEF PollSel
    <2>4. QED  BY <1>1, <2>1, <2>2, <2>3
<1>5. CASE EventEnd  BY <1>1, <1>5 DEF EventEnd, wireVars
<1>6. CASE ReadY  BY <1>1, <1>6 DEF ReadY
<1>7. CASE ReadX  BY <1>1, <1>7 DEF ReadX
<1>8. CASE ReadOther
    <2>1. at' \in Places  BY <1>8, ReadOtherNext
    <2>2. QED  BY <1>1, <1>8, <2>1 DEF ReadOther
<1>9. CASE RetypeEvent  BY <1>1, <1>9 DEF RetypeEvent
<1>10. CASE StoreEvent  BY <1>1, <1>10 DEF StoreEvent, wireVars
<1>11. CASE DelayEvent
    <2>1. ticks' \in 0..Ticks  BY <1>11 DEF DelayEvent
    <2>2. at' \in Places  BY <1>11 DEF DelayEvent
    <2>3. UNCHANGED <<serialOn, portOpen, conected, clockSet, failures, left>>
        BY <1>11 DEF DelayEvent
    <2>4. QED  BY <1>1, <2>1, <2>2, <2>3
<1>12. CASE TimeEvent
    <2>1. clockSet' \in BOOLEAN
        <3>1. clockSet' \in {FALSE} \/ clockSet' \in {TRUE} \/ clockSet' \in BOOLEAN
            BY <1>12, Zenon DEF TimeEvent
        <3>2. QED  BY <3>1, Zenon
    <2>2. at' \in Places  BY <1>12 DEF TimeEvent
    <2>3. UNCHANGED <<serialOn, portOpen, conected, ticks, failures, left>>
        BY <1>12 DEF TimeEvent
    <2>4. QED  BY <1>1, <2>1, <2>2, <2>3
<1>13. CASE Stream  BY <1>1, <1>13 DEF Stream
<1>14. CASE Released  BY <1>1, <1>14 DEF Released, wireVars
<1>15. CASE MenuRetype  BY <1>1, <1>15 DEF MenuRetype, wireVars
<1>16. CASE MenuSetTime \/ MenuSetDelay
    BY <1>1, <1>16 DEF MenuSetTime, MenuSetDelay, wireVars
<1>17. CASE MenuLeave  BY <1>1, <1>17 DEF MenuLeave, wireVars
<1>18. CASE Restart
    <2>1. clockSet' \in BOOLEAN  BY <1>18 DEF Restart
    <2>2. failures' \in 0..MaxFailures  BY <1>18 DEF Restart
    <2>3. conected' \in BOOLEAN /\ serialOn' \in BOOLEAN /\ portOpen' \in BOOLEAN
        BY <1>18 DEF Restart
    <2>4. at' \in Places /\ left' \in 0..Ticks /\ ticks' \in 0..Ticks  BY <1>18 DEF Restart
    <2>5. QED  BY <1>1, <2>1, <2>2, <2>3, <2>4
<1>19. QED
    BY <1>2, <1>3, <1>4, <1>5, <1>6, <1>7, <1>8, <1>9, <1>10, <1>11, <1>12, <1>13, <1>14,
       <1>15, <1>16, <1>17, <1>18 DEF DeviceStep, UserStep, SerialEvent

LEMMA SimpleApp ==
    ASSUME Simple, Commands \/ EdtStep \/ ReaderStep, UNCHANGED deviceVars PROVE Simple'
<1> USE MaxCommandsAssumption DEF Simple
<1>1. UNCHANGED <<conected, clockSet, ticks, at, left, failures>>  BY DEF deviceVars
<1>2. ASSUME NEW b \in Buttons, Command(b) PROVE given' \in 0..MaxCommands
    BY <1>2 DEF Command
<1>3. CASE Connect  BY <1>1, <1>3 DEF Connect, Command
<1>4. CASE Disconnect
    <2>1. given' \in 0..MaxCommands  BY <1>4 DEF Disconnect, Command
    <2>2. firstContact' = FALSE /\ edt' = "closing" /\ UNCHANGED <<serialOn, portOpen, reader>>
        BY <1>4 DEF Disconnect
    <2>3. QED  BY <1>1, <2>1, <2>2
<1>5. CASE Retype  BY <1>1, <1>5 DEF Retype, Command
<1>6. CASE SetDelay  BY <1>1, <1>6 DEF SetDelay, Command
<1>7. CASE SetTime  BY <1>1, <1>7 DEF SetTime, Command
<1>8. CASE StartReading  BY <1>1, <1>8 DEF StartReading, Command
<1>9. CASE StopReading  BY <1>1, <1>9 DEF StopReading, Command
<1>10. CASE Exit  BY <1>1, <1>10 DEF Exit
<1>11. CASE ConnectEnd  BY <1>1, <1>11 DEF ConnectEnd
<1>12. CASE Close  BY <1>1, <1>12 DEF Close
<1>13. CASE SetTimeEnd  BY <1>1, <1>13 DEF SetTimeEnd
<1>14. CASE Enter  BY <1>1, <1>14 DEF Enter, wireVars
<1>15. CASE Leave  BY <1>1, <1>15 DEF Leave, wireVars
<1>16. CASE ReadFirst
    <2>1. firstContact' \in BOOLEAN /\ reader' \in {"out", "in", "TA", "TD", "C", "V"}
        <3>1. CASE firstContact
            <4>1. firstContact' = firstContact  BY <1>16, <3>1 DEF ReadFirst
            <4>2. CASE Head(toApp).k \in {"TA", "TD", "C", "V"}
                <5>1. reader' = Head(toApp).k  BY <1>16, <3>1, <4>2 DEF ReadFirst
                <5>2. QED  BY <4>1, <4>2, <5>1
            <4>3. CASE Head(toApp).k \notin {"TA", "TD", "C", "V"}
                <5>1. reader' = reader  BY <1>16, <3>1, <4>3 DEF ReadFirst
                <5>2. QED  BY <4>1, <5>1
            <4>4. QED  BY <4>2, <4>3
        <3>2. CASE ~firstContact
            <4>1. firstContact' = (Head(toApp).k = "Y") /\ reader' = reader
                BY <1>16, <3>2 DEF ReadFirst
            <4>2. firstContact' \in BOOLEAN  BY <4>1, Zenon
            <4>3. QED  BY <4>1, <4>2
        <3>3. QED  BY <3>1, <3>2
    <2>2. UNCHANGED <<serialOn, portOpen, edt, given>>  BY <1>16 DEF ReadFirst
    <2>3. QED  BY <1>1, <2>1, <2>2
<1>17. CASE ReadRest  BY <1>1, <1>17 DEF ReadRest, wireVars
<1>18. QED
    BY <1>3, <1>4, <1>5, <1>6, <1>7, <1>8, <1>9, <1>10, <1>11, <1>12, <1>13, <1>14, <1>15,
       <1>16, <1>17 DEF Commands, EdtStep, ReaderStep

LEMMA SimpleNext == ASSUME Simple, [Next]_vars PROVE Simple'
<1>1. CASE (DeviceStep \/ UserStep) /\ UNCHANGED appVars  BY <1>1, SimpleStation
<1>2. CASE (Commands \/ EdtStep \/ ReaderStep) /\ UNCHANGED deviceVars  BY <1>2, SimpleApp
<1>3. CASE Deliver /\ UNCHANGED <<deviceVars, appVars>>
    BY <1>3 DEF Deliver, Simple, deviceVars, appVars
<1>4. CASE UNCHANGED vars  BY <1>4 DEF vars, wireVars, deviceVars, appVars, Simple
<1>5. QED  BY <1>1, <1>2, <1>3, <1>4 DEF Next

\* The bytes that SensApl's event dispatch thread is still to write for the present command,
\* and how many there are at most for all the commands given.
Pending == IF edt = "connecting" THEN 1 ELSE IF edt = "sendTime" THEN 10 ELSE 0
LoadInv == Available(rx) + Available(toDevice) + Pending <= 11 * given

\* SensApl's two threads write whole commands, their ends or nothing, and no command comes
\* to more than eleven bytes.
LEMMA AppWrites ==
    ASSUME Simple, Commands \/ EdtStep \/ ReaderStep
    PROVE  \E c : /\ Written(c) /\ toDevice' \in {toDevice, toDevice \o c}
                  /\ Available(c) + Pending' <= Pending + 11 * (given' - given)
<1> DEFINE Writes(c) == /\ Written(c) /\ toDevice' \in {toDevice, toDevice \o c}
                        /\ Available(c) + Pending' <= Pending + 11 * (given' - given)
<1>1. /\ {B, D, M, W, X, Y, 1, NumberText, TimeText} \subseteq Token \ {T}
      /\ T \in Token
    BY DEF B, D, M, T, W, X, Y, NumberText, TimeText, Token
<1>2. Directors \subseteq Token \ {T} /\ SensorTypes \subseteq Token \ {T}
    BY DirectorsAssumption, SensorTypesAssumption DEF A, D, I, T, Token
<1>3. \A c : ToDevice(c) => toDevice' \in {toDevice, toDevice \o c}  BY DEF ToDevice
<1>4. ASSUME NEW c, Written(c) PROVE toDevice' = toDevice => toDevice' \in {toDevice, toDevice \o c}
    OBVIOUS
<1>5. given \in Nat /\ Pending \in {0, 1, 10}
    BY MaxCommandsAssumption DEF Simple, Pending
<1>6. Written(<<>>) /\ Available(<<>>) = 0
    <2>1. Written(<<>>)  BY EmptyIsSeq DEF Written, Whole
    <2>2. QED  BY <1>1, <2>1, AvailableOne
<1>7. \A a \in Token \ {T} : Written(<<a>>) /\ Available(<<a>>) = Width(a)
    BY Commanding, AvailableOne
<1>8. \A a \in Token \ {T}, b \in Token \ {T} :
        Written(<<a, b>>) /\ Available(<<a, b>>) = Width(a) + Width(b)
    <2> SUFFICES ASSUME NEW a \in Token \ {T}, NEW b \in Token \ {T}
                 PROVE  Available(<<a, b>>) = Width(a) + Width(b)
        BY Commanding
    <2>1. QED  BY AvailableTwo
<1>9. \A d \in Directors, t \in SensorTypes :
        Written(<<T, d, 1, t>>) /\ Available(<<T, d, 1, t>>) = 4
    <2> SUFFICES ASSUME NEW d \in Directors, NEW t \in SensorTypes
                 PROVE  Available(<<T, d, 1, t>>) = 4
        BY Commanding
    <2>1. d \in 0..255 /\ t \in 0..255
        BY DirectorsAssumption, SensorTypesAssumption DEF A, D, I
    <2>2. Width(d) = 1 /\ Width(t) = 1 /\ Width(T) = 1 /\ Width(1) = 1
        BY <2>1 DEF Width, T, NumberText, TimeText
    <2>3. d \in Token /\ t \in Token /\ 1 \in Token  BY <1>1, <1>2
    <2>4. Available(<<T, d, 1, t>>) = (Width(T) + Width(d)) + (Width(1) + Width(t))
        BY <1>1, <2>3, AvailableFour
    <2>5. QED  BY <2>2, <2>4
<1>10. /\ Width(B) = 1 /\ Width(D) = 1 /\ Width(M) = 1 /\ Width(W) = 1 /\ Width(X) = 1
       /\ Width(Y) = 1 /\ Width(1) = 1 /\ Width(NumberText) = 6 /\ Width(TimeText) = 10
    BY DEF Width, B, D, M, W, X, Y, NumberText, TimeText
<1>11. ASSUME given' = given, Pending' = Pending, toDevice' = toDevice
       PROVE  Writes(<<>>)
    BY <1>5, <1>6, <1>11
<1>12. ASSUME NEW c, Written(c), ToDevice(c), given' = given + 1, Available(c) + Pending' <= 11,
              edt = "idle", Available(c) \in Nat, Pending' \in Nat
       PROVE  Writes(c)
    <2>1. 11 * (given' - given) = 11 /\ Pending = 0  BY <1>5, <1>12 DEF Pending
    <2>2. QED  BY <1>3, <1>12, <2>1
<1> HIDE DEF Writes
<1>13. ASSUME edt' = edt PROVE Pending' = Pending  BY <1>13 DEF Pending
<1>14. \A b \in Buttons : Command(b) => edt = "idle" /\ given' = given + 1
    BY DEF Command
<1>15. CASE Connect
    <2>1. edt = "idle" /\ given' = given + 1 /\ edt' = "connecting" /\ toDevice' = toDevice
        BY <1>15 DEF Connect, Command
    <2>2. Pending = 0 /\ Pending' = 1 /\ 11 * (given' - given) = 11
        BY <1>5, <2>1 DEF Pending
    <2>3. Writes(<<>>)  BY <1>6, <2>1, <2>2 DEF Writes
    <2>4. QED  BY <2>3 DEF Writes
<1>16. CASE Disconnect
    <2>1. /\ edt = "idle" /\ given' = given + 1 /\ ToDevice(<<X>>) /\ edt' = "closing"
        BY <1>16 DEF Disconnect, Command
    <2>2. Pending' = 0  BY <2>1 DEF Pending
    <2>3. Writes(<<X>>)  BY <1>1, <1>7, <1>10, <1>12, <2>1, <2>2
    <2>4. QED  BY <2>3 DEF Writes
<1>17. CASE Retype
    <2>1. /\ edt = "idle" /\ given' = given + 1 /\ edt' = edt
        BY <1>17 DEF Retype, Command
    <2>2. PICK d \in Directors, t \in SensorTypes : ToDevice(<<T, d, 1, t>>)
        BY <1>17 DEF Retype
    <2>3. Pending' = 0  BY <2>1 DEF Pending
    <2>4. Writes(<<T, d, 1, t>>)  BY <1>9, <1>12, <2>1, <2>2, <2>3
    <2>5. QED  BY <2>4 DEF Writes
<1>18. CASE SetDelay
    <2>1. /\ edt = "idle" /\ given' = given + 1 /\ edt' = edt /\ ToDevice(<<D, NumberText>>)
        BY <1>18 DEF SetDelay, Command
    <2>2. Pending' = 0  BY <2>1 DEF Pending
    <2>3. Written(<<D, NumberText>>) /\ Available(<<D, NumberText>>) = 7
        BY <1>1, <1>8, <1>10
    <2>4. Writes(<<D, NumberText>>)  BY <1>12, <2>1, <2>2, <2>3
    <2>5. QED  BY <2>4 DEF Writes
<1>19. CASE SetTime
    <2>1. /\ edt = "idle" /\ given' = given + 1 /\ edt' = "sendTime" /\ ToDevice(<<B>>)
        BY <1>19 DEF SetTime, Command
    <2>2. Pending' = 10  BY <2>1 DEF Pending
    <2>3. Written(<<B>>) /\ Available(<<B>>) = 1  BY <1>1, <1>7, <1>10
    <2>4. Writes(<<B>>)  BY <1>12, <2>1, <2>2, <2>3
    <2>5. QED  BY <2>4 DEF Writes
<1>20. CASE StartReading
    <2>1. /\ edt = "idle" /\ given' = given + 1 /\ edt' = edt /\ ToDevice(<<M, 1>>)
        BY <1>20 DEF StartReading, Command
    <2>2. Pending' = 0  BY <2>1 DEF Pending
    <2>3. Written(<<M, 1>>) /\ Available(<<M, 1>>) = 2  BY <1>1, <1>8, <1>10
    <2>4. Writes(<<M, 1>>)  BY <1>12, <2>1, <2>2, <2>3
    <2>5. QED  BY <2>4 DEF Writes
<1>21. CASE StopReading
    <2>1. /\ edt = "idle" /\ given' = given + 1 /\ edt' = edt /\ ToDevice(<<W>>)
        BY <1>21 DEF StopReading, Command
    <2>2. Pending' = 0  BY <2>1 DEF Pending
    <2>3. Written(<<W>>) /\ Available(<<W>>) = 1  BY <1>1, <1>7, <1>10
    <2>4. Writes(<<W>>)  BY <1>12, <2>1, <2>2, <2>3
    <2>5. QED  BY <2>4 DEF Writes
<1>22. CASE Exit
    <2>1. UNCHANGED <<given, edt, toDevice>>  BY <1>22 DEF Exit
    <2>2. QED  BY <1>11, <1>13, <2>1 DEF Writes
<1>23. CASE ConnectEnd
    <2>1. edt = "connecting" /\ edt' = "idle" /\ given' = given /\ ToDevice(<<Y>>)
        BY <1>23 DEF ConnectEnd
    <2>2. Pending = 1 /\ Pending' = 0 /\ 11 * (given' - given) = 0  BY <1>5, <2>1 DEF Pending
    <2>3. Written(<<Y>>) /\ Available(<<Y>>) = 1  BY <1>1, <1>7, <1>10
    <2>4. Writes(<<Y>>)  BY <1>3, <2>1, <2>2, <2>3 DEF Writes
    <2>5. QED  BY <2>4 DEF Writes
<1>24. CASE Close
    <2>1. edt = "closing" /\ edt' = "idle" /\ UNCHANGED <<given, toDevice>>
        BY <1>24 DEF Close
    <2>2. Pending' = Pending  BY <2>1 DEF Pending
    <2>3. QED  BY <1>11, <2>1, <2>2 DEF Writes
<1>25. CASE SetTimeEnd
    <2>1. edt = "sendTime" /\ edt' = "idle" /\ given' = given /\ ToDevice(<<TimeText>>)
        BY <1>25 DEF SetTimeEnd
    <2>2. Pending = 10 /\ Pending' = 0 /\ 11 * (given' - given) = 0
        BY <1>5, <2>1 DEF Pending
    <2>3. Written(<<TimeText>>) /\ Available(<<TimeText>>) = 10  BY <1>1, <1>7, <1>10
    <2>4. Available(<<TimeText>>) + Pending' <= Pending + 11 * (given' - given)
        BY <2>2, <2>3
    <2>5. toDevice' \in {toDevice, toDevice \o <<TimeText>>}  BY <1>3, <2>1
    <2>6. Writes(<<TimeText>>)  BY <2>3, <2>4, <2>5 DEF Writes
    <2>7. QED  BY <2>6 DEF Writes
<1>26. CASE ReaderStep
    <2>1. UNCHANGED <<given, edt, toDevice>>
        BY <1>26 DEF ReaderStep, Enter, Leave, ReadFirst, ReadRest, wireVars
    <2>2. QED  BY <1>11, <1>13, <2>1 DEF Writes
<1>27. QED
    BY <1>15, <1>16, <1>17, <1>18, <1>19, <1>20, <1>21, <1>22, <1>23, <1>24, <1>25, <1>26
       DEF Commands, EdtStep

-----------------------------------------------------------------------------
(* Every step keeps the line, and what the tables hold                     *)

LEMMA Elements ==
    ASSUME NEW q \in Seq(Token), NEW r \in Seq(Token), Len(q) = Len(r),
           \A i \in 1..Len(q) : q[i] = r[i]
    PROVE  q = r
<1>1. \A u \in Seq(Token) : u = [i \in 1..Len(u) |-> u[i]]  OBVIOUS
<1>2. q = [i \in 1..Len(q) |-> q[i]] /\ r = [i \in 1..Len(r) |-> r[i]]  BY <1>1
<1>3. [i \in 1..Len(q) |-> q[i]] = [i \in 1..Len(r) |-> r[i]]  OBVIOUS
<1>4. QED  BY <1>2, <1>3, Zenon

\* A byte that arrives only moves on; what is written comes last.
LEMMA LineFacts ==
    ASSUME NEW q \in Seq(Token), NEW s \in Seq(Token)
    PROVE  /\ s # <<>> => Append(q, Head(s)) \o Tail(s) = q \o s
           /\ \A c \in Seq(Token) : q \o (s \o c) = (q \o s) \o c
           /\ <<>> \o s = s
<1>1. ASSUME s # <<>> PROVE Append(q, Head(s)) \o Tail(s) = q \o s
    <2> DEFINE a == Append(q, Head(s)) \o Tail(s)
               b == q \o s
    <2>1. a \in Seq(Token) /\ b \in Seq(Token)  BY <1>1
    <2>2. Len(a) = Len(b) /\ \A i \in 1..Len(a) : a[i] = b[i]
        <3>1. Len(a) = Len(b)  BY <1>1
        <3>2. \A i \in 1..Len(q) : a[i] = q[i] /\ b[i] = q[i]  BY <1>1
        <3>3. \A j \in 1..Len(s) : a[Len(q) + j] = s[j] /\ b[Len(q) + j] = s[j]
            <4> SUFFICES ASSUME NEW j \in 1..Len(s)
                         PROVE  a[Len(q) + j] = s[j] /\ b[Len(q) + j] = s[j]
                OBVIOUS
            <4>1. b[Len(q) + j] = s[j]  OBVIOUS
            <4>2. CASE j = 1  BY <1>1, <4>1, <4>2
            <4>3. CASE j # 1
                <5>1. j - 1 \in 1..Len(Tail(s)) /\ Tail(s)[j - 1] = s[j]  BY <1>1, <4>3
                <5>2. Len(Append(q, Head(s))) = Len(q) + 1  OBVIOUS
                <5>3. a[(Len(q) + 1) + (j - 1)] = Tail(s)[j - 1]  BY <1>1, <5>1, <5>2
                <5>4. (Len(q) + 1) + (j - 1) = Len(q) + j  BY <5>1
                <5>5. QED  BY <4>1, <5>1, <5>3, <5>4
            <4>4. QED  BY <4>2, <4>3
        <3>4. Len(b) = Len(q) + Len(s) /\ Len(q) \in Nat /\ Len(s) \in Nat  OBVIOUS
        <3> HIDE DEF a, b
        <3>5. ASSUME NEW i \in 1..Len(a) PROVE a[i] = b[i]
            <4>1. CASE i <= Len(q)  BY <3>1, <3>2, <3>4, <4>1
            <4>2. CASE i > Len(q)
                <5>1. i - Len(q) \in 1..Len(s) /\ Len(q) + (i - Len(q)) = i
                    BY <3>1, <3>4, <4>2
                <5>2. QED  BY <3>3, <5>1
            <4>3. QED  BY <3>4, <4>1, <4>2
        <3>6. QED  BY <3>1, <3>5
    <2> HIDE DEF a, b
    <2>3. a = b  BY <2>1, <2>2, Elements
    <2>4. QED  BY <2>3 DEF a, b
<1>2. ASSUME NEW c \in Seq(Token) PROVE q \o (s \o c) = (q \o s) \o c
    <2> DEFINE a == q \o (s \o c)
               b == (q \o s) \o c
    <2>1. a \in Seq(Token) /\ b \in Seq(Token) /\ Len(a) = Len(b)  OBVIOUS
    <2>2. \A i \in 1..Len(a) : a[i] = b[i]  OBVIOUS
    <2> HIDE DEF a, b
    <2>3. a = b  BY <2>1, <2>2, Elements
    <2>4. QED  BY <2>3 DEF a, b
<1>3. <<>> \o s = s
    <2> DEFINE a == <<>> \o s
    <2>1. a \in Seq(Token) /\ Len(a) = Len(s) /\ \A i \in 1..Len(a) : a[i] = s[i]
        BY EmptyIsSeq
    <2> HIDE DEF a
    <2>2. a = s  BY <2>1, Elements
    <2>3. QED  BY <2>2 DEF a
<1>4. QED  BY <1>1, <1>2, <1>3

LEMMA LineStation ==
    ASSUME FlowTypes, FlowTypes', LineInv, DeviceStep \/ UserStep PROVE LineInv'
<1>1. /\ rx \in Seq(Token) /\ rx' \in Seq(Token) /\ toDevice \in Seq(Token)
      /\ toDevice' = toDevice
    BY StationReads DEF FlowTypes
<1>2. PICK n \in 0..Len(rx) : Dropped(rx, rx', n)  BY StationReads
<1>3. Line \in Seq(Token) /\ Line' = rx' \o toDevice /\ Line' \in Seq(Token)
    BY <1>1 DEF Line
<1>4. Whole(Line')
    <2> DEFINE r == rx'
    <2>1. r \in Seq(Token) /\ Dropped(rx, r, n)  BY <1>1, <1>2
    <2> HIDE DEF r
    <2>2. Dropped(rx \o toDevice, r \o toDevice, n)  BY <1>1, <2>1, DroppedBefore
    <2>3. r \o toDevice = Line'  BY <1>3 DEF r
    <2>4. Dropped(Line, r \o toDevice, n)  BY <2>2 DEF Line
    <2>5. r \o toDevice \in Seq(Token)  BY <1>3, <2>3
    <2>6. Whole(r \o toDevice)  BY <1>3, <2>4, <2>5, WholeDropped DEF LineInv
    <2>7. QED  BY <2>3, <2>6
<1>5. ASSUME at' = "retype" PROVE Upload(Line', 0)
    <2>1. CASE at = "retype" /\ rx' = rx
        <3>1. Line' = Line  BY <1>1, <2>1 DEF Line
        <3>2. QED  BY <2>1, <3>1 DEF LineInv
    <2>2. CASE rx # <<>> /\ Head(rx) = T /\ rx' = Tail(rx)
        <3>1. Dropped(rx, Tail(rx), 1) /\ Tail(rx) \in Seq(Token)
            BY <1>1, <2>2, Dropping
        <3>2. Dropped(Line, Tail(rx) \o toDevice, 1)
            BY <1>1, <3>1, DroppedBefore DEF Line
        <3>3. Tail(rx) \o toDevice = Line'  BY <1>3, <2>2
        <3>4. 1 \in 1..Len(Line) /\ Line[1] = T  BY <1>1, <2>2 DEF Line
        <3>5. Upload(Line, 0 + 1)  BY <3>4 DEF LineInv, Whole
        <3>6. Tail(rx) \o toDevice \in Seq(Token)  BY <1>3, <3>3
        <3>7. Upload(Tail(rx) \o toDevice, 0)  BY <1>3, <3>2, <3>5, <3>6, UploadDropped
        <3>8. QED  BY <3>3, <3>7
    <2>3. QED  BY <1>5, <2>1, <2>2, StationReads
<1>6. QED  BY <1>4, <1>5 DEF LineInv

LEMMA LineApp ==
    ASSUME FlowTypes, Simple, LineInv, Commands \/ EdtStep \/ ReaderStep,
           UNCHANGED deviceVars
    PROVE  LineInv'
<1>1. rx' = rx /\ at' = at  BY AppLeavesStation DEF deviceVars
<1>2. PICK c : Written(c) /\ toDevice' \in {toDevice, toDevice \o c}  BY AppWrites
<1>3. rx \in Seq(Token) /\ toDevice \in Seq(Token) /\ c \in Seq(Token) /\ Line \in Seq(Token)
    BY <1>2 DEF FlowTypes, Written, Line
<1>4. CASE toDevice' = toDevice
    <2>1. Line' = Line  BY <1>1, <1>4 DEF Line
    <2>2. QED  BY <1>1, <2>1 DEF LineInv
<1>5. CASE toDevice' = toDevice \o c
    <2>1. Line' = rx \o (toDevice \o c)  BY <1>1, <1>5 DEF Line
    <2>2. Line' = Line \o c  BY <1>3, <2>1, LineFacts DEF Line
    <2>3. Whole(Line \o c)  BY <1>2, <1>3, WholeWritten DEF LineInv, Written
    <2>4. at = "retype" => Upload(Line \o c, 0)  BY <1>3, UploadWritten DEF LineInv
    <2>5. QED  BY <1>1, <2>2, <2>3, <2>4 DEF LineInv
<1>6. QED  BY <1>2, <1>4, <1>5

\* What arrives at a line that is not started is lost from the front; what arrives at one
\* that is started finds room.
LEMMA LineDeliver ==
    ASSUME FlowTypes, ServeInv, Room, LineInv, Deliver, UNCHANGED deviceVars PROVE LineInv'
<1>1. /\ rx \in Seq(Token) /\ toDevice \in Seq(Token) /\ toDevice # <<>>
      /\ toDevice' = Tail(toDevice) /\ at' = at
    BY DEF FlowTypes, Deliver, deviceVars
<1>2. CASE serialOn
    <2>1. rx' = Append(rx, Head(toDevice))  BY <1>1, <1>2 DEF Deliver, Room
    <2>2. Line' = Line  BY <1>1, <2>1, LineFacts DEF Line
    <2>3. QED  BY <1>1, <2>2 DEF LineInv
<1>3. CASE ~serialOn
    <2>1. rx = <<>> /\ rx' = <<>> /\ at # "retype"
        BY <1>3 DEF Deliver, ServeInv, Commanded
    <2>2. Line = toDevice /\ Line' = Tail(toDevice) /\ Tail(toDevice) \in Seq(Token)
        <3>1. Tail(toDevice) \in Seq(Token)  BY <1>1
        <3>2. Line' = <<>> \o Tail(toDevice) /\ Line = <<>> \o toDevice
            BY <1>1, <2>1 DEF Line
        <3>3. QED  BY <1>1, <3>1, <3>2, LineFacts
    <2>3. Dropped(toDevice, Tail(toDevice), 1)  BY <1>1, Dropping
    <2>4. Whole(Tail(toDevice))  BY <1>1, <2>2, <2>3, WholeDropped DEF LineInv
    <2>5. QED  BY <1>1, <2>1, <2>2, <2>4 DEF LineInv
<1>4. QED  BY <1>2, <1>3

LEMMA LineNext ==
    ASSUME FlowTypes, FlowTypes', ServeInv, Simple, Room, LineInv, [Next]_vars
    PROVE  LineInv'
<1>1. CASE (DeviceStep \/ UserStep) /\ UNCHANGED appVars  BY <1>1, LineStation
<1>2. CASE (Commands \/ EdtStep \/ ReaderStep) /\ UNCHANGED deviceVars  BY <1>2, LineApp
<1>3. CASE Deliver /\ UNCHANGED <<deviceVars, appVars>>  BY <1>3, LineDeliver
<1>4. CASE UNCHANGED vars  BY <1>4 DEF vars, wireVars, deviceVars, LineInv, Line
<1>5. QED  BY <1>1, <1>2, <1>3, <1>4 DEF Next

\* What arrives at the buffer, if there is room, is what it holds more.
LEMMA AvailableDelivered ==
    ASSUME NEW q \in Seq(Token), NEW s \in Seq(Token), s # <<>>
    PROVE  /\ Available(q) \in Nat /\ Available(s) \in Nat /\ Available(Tail(s)) \in Nat
           /\ Width(Head(s)) \in Nat
           /\ Available(Append(q, Head(s))) = Available(q) + Width(Head(s))
           /\ Available(s) = Width(Head(s)) + Available(Tail(s))
<1>1. Head(s) \in Token /\ Tail(s) \in Seq(Token) /\ <<Head(s)>> \in Seq(Token)  OBVIOUS
<1>2. Append(q, Head(s)) = q \o <<Head(s)>>  OBVIOUS
<1>3. s = <<Head(s)>> \o Tail(s)
    <2>1. <<>> \in Seq(Token)  BY EmptyIsSeq
    <2>2. Append(<<>>, Head(s)) \o Tail(s) = <<>> \o s /\ <<>> \o s = s
        BY <2>1, LineFacts
    <2>3. Append(<<>>, Head(s)) = <<Head(s)>>  OBVIOUS
    <2>4. QED  BY <2>2, <2>3
<1>4. Available(<<Head(s)>>) = Width(Head(s))  BY <1>1, AvailableOne
<1>5. Width(Head(s)) \in Nat  BY DEF Width
<1>6. Available(q \o <<Head(s)>>) = Available(q) + Available(<<Head(s)>>)
    BY <1>1, AvailableJoined
<1>7. Available(<<Head(s)>> \o Tail(s)) = Available(<<Head(s)>>) + Available(Tail(s))
    BY <1>1, AvailableJoined
<1>8. Available(q) \in Nat /\ Available(s) \in Nat /\ Available(Tail(s)) \in Nat
    BY <1>1, AvailableJoined
<1>9. QED  BY <1>2, <1>3, <1>4, <1>5, <1>6, <1>7, <1>8

\* The buffer never holds more than its size.
BufferInv == Available(rx) <= RxCap

LEMMA BufferNext ==
    ASSUME FlowTypes, FlowTypes', BufferInv, [Next]_vars PROVE BufferInv'
<1>1. rx \in Seq(Token) /\ rx' \in Seq(Token) /\ toDevice \in Seq(Token)  BY DEF FlowTypes
<1>2. Available(rx) \in Nat /\ RxCap \in Nat  BY <1>1, AvailableJoined, RxCapAssumption
<1>3. CASE (DeviceStep \/ UserStep) /\ UNCHANGED appVars
    <2> DEFINE r == rx'
    <2>1. PICK n \in 0..Len(rx) : Dropped(rx, r, n)  BY <1>3, StationReads
    <2>2. r \in Seq(Token)  BY <1>1
    <2> HIDE DEF r
    <2>3. Available(r) <= Available(rx) /\ Available(r) \in Nat
        BY <1>1, <2>1, <2>2, AvailableDropped, AvailableJoined
    <2>4. Available(r) <= RxCap  BY <1>2, <2>3 DEF BufferInv
    <2>5. QED  BY <2>4 DEF BufferInv, r
<1>4. CASE (Commands \/ EdtStep \/ ReaderStep) /\ UNCHANGED deviceVars
    <2>1. rx' = rx  BY <1>4, AppLeavesStation
    <2>2. QED  BY <2>1 DEF BufferInv
<1>5. CASE Deliver /\ UNCHANGED <<deviceVars, appVars>>
    <2>1. CASE serialOn /\ Available(rx) + Width(Head(toDevice)) <= RxCap
        <3>1. rx' = Append(rx, Head(toDevice)) /\ toDevice # <<>>  BY <1>5, <2>1 DEF Deliver
        <3>2. Available(Append(rx, Head(toDevice))) <= RxCap
            BY <1>1, <2>1, <3>1, AvailableDelivered
        <3>3. QED  BY <3>1, <3>2 DEF BufferInv
    <2>2. CASE ~(serialOn /\ Available(rx) + Width(Head(toDevice)) <= RxCap)
        <3>1. rx' = rx  BY <1>5, <2>2 DEF Deliver
        <3>2. QED  BY <3>1 DEF BufferInv
    <2>3. QED  BY <2>1, <2>2
<1>6. CASE UNCHANGED vars  BY <1>6 DEF vars, wireVars, BufferInv
<1>7. QED  BY <1>3, <1>4, <1>5, <1>6 DEF Next

LEMMA LoadNext ==
    ASSUME FlowTypes, FlowTypes', Simple, Simple', LoadInv, [Next]_vars PROVE LoadInv'
<1>1. rx \in Seq(Token) /\ rx' \in Seq(Token) /\ toDevice \in Seq(Token)  BY DEF FlowTypes
<1>2. /\ Available(rx) \in Nat /\ Available(toDevice) \in Nat /\ Pending \in Nat
      /\ given \in Nat /\ given' \in Nat /\ Pending' \in Nat
    BY <1>1, AvailableJoined, MaxCommandsAssumption DEF Pending, Simple
<1>3. CASE (DeviceStep \/ UserStep) /\ UNCHANGED appVars
    <2> DEFINE r == rx'
    <2>1. PICK n \in 0..Len(rx) : Dropped(rx, r, n)  BY <1>3, StationReads
    <2>2. r \in Seq(Token)  BY <1>1
    <2>3. toDevice' = toDevice /\ given' = given /\ Pending' = Pending
        BY <1>3, StationReads DEF appVars, Pending
    <2> HIDE DEF r
    <2>4. Available(r) <= Available(rx) /\ Available(r) \in Nat
        BY <1>1, <2>1, <2>2, AvailableDropped, AvailableJoined
    <2>5. Available(r) + Available(toDevice) + Pending <= 11 * given
        BY <1>2, <2>4 DEF LoadInv
    <2>6. QED  BY <2>3, <2>5 DEF LoadInv, r
<1>4. CASE (Commands \/ EdtStep \/ ReaderStep) /\ UNCHANGED deviceVars
    <2>1. rx' = rx  BY <1>4, AppLeavesStation
    <2>2. PICK c : /\ Written(c) /\ toDevice' \in {toDevice, toDevice \o c}
                   /\ Available(c) + Pending' <= Pending + 11 * (given' - given)
        BY <1>4, AppWrites
    <2>3. c \in Seq(Token)  BY <2>2 DEF Written
    <2>4. /\ Available(c) \in Nat
          /\ Available(toDevice \o c) = Available(toDevice) + Available(c)
        BY <1>1, <2>3, AvailableJoined
    <2>5. Available(toDevice') \in {Available(toDevice), Available(toDevice) + Available(c)}
        BY <2>2, <2>4
    <2> DEFINE x == Available(rx)
               y == Available(toDevice)
               z == Available(toDevice')
               p == Pending'
               g == given'
    <2>6. x + y + Pending <= 11 * given  BY DEF LoadInv
    <2>7. Available(c) + p <= Pending + 11 * (g - given) /\ z \in {y, y + Available(c)}
        BY <2>2, <2>5
    <2>8. x \in Nat /\ y \in Nat /\ p \in Nat /\ g \in Nat  BY <1>2
    <2> HIDE DEF x, y, z, p, g
    <2>9. x + z + p <= 11 * g  BY <1>2, <2>4, <2>6, <2>7, <2>8
    <2>10. QED  BY <2>1, <2>9 DEF LoadInv, x, y, z, p, g
<1>5. CASE Deliver /\ UNCHANGED <<deviceVars, appVars>>
    <2>1. given' = given /\ Pending' = Pending /\ toDevice # <<>> /\ toDevice' = Tail(toDevice)
        BY <1>5 DEF Deliver, appVars, Pending
    <2>2. rx' = Append(rx, Head(toDevice)) \/ rx' = rx  BY <1>5 DEF Deliver
    <2>3. /\ Available(toDevice) = Width(Head(toDevice)) + Available(Tail(toDevice))
          /\ Available(Append(rx, Head(toDevice))) = Available(rx) + Width(Head(toDevice))
          /\ Width(Head(toDevice)) \in Nat /\ Available(Tail(toDevice)) \in Nat
        BY <1>1, <2>1, AvailableDelivered
    <2>4. Available(Append(rx, Head(toDevice))) + Available(Tail(toDevice)) + Pending <= 11 * given
          /\ Available(rx) + Available(Tail(toDevice)) + Pending <= 11 * given
        BY <1>2, <2>3 DEF LoadInv
    <2>5. QED  BY <2>1, <2>2, <2>4 DEF LoadInv
<1>6. CASE UNCHANGED vars
    BY <1>6 DEF vars, wireVars, appVars, LoadInv, Pending
<1>7. QED  BY <1>3, <1>4, <1>5, <1>6 DEF Next

-----------------------------------------------------------------------------
(* As the line brings whole uploads only, every table, and every message   *)
(* that tells of one, holds types of SensApl's lists.                      *)

Told(m) == \A d \in DOMAIN m.types : m.types[d] \in SensorTypes
AllTold(q) == \A i \in 1..Len(q) : Told(q[i])

ToldInv ==
    /\ types \in [Directors -> SensorTypes] /\ kept \in [Directors -> SensorTypes]
    /\ appTypes \in [Directors -> {0} \cup SensorTypes]
    /\ AllTold(toApp) /\ Told(current)

LEMMA ToldSent ==
    ASSUME NEW q \in Seq(Messages), NEW r \in Seq(Messages), AllTold(q), AllTold(r)
    PROVE  AllTold(q \o r)
<1>1. \A i \in 1..Len(q \o r) :
        \/ i \in 1..Len(q) /\ (q \o r)[i] = q[i]
        \/ i - Len(q) \in 1..Len(r) /\ (q \o r)[i] = r[i - Len(q)]
    OBVIOUS
<1>2. QED  BY <1>1 DEF AllTold

\* What the station may send, while its table holds such types.
LEMMA ToldMessages ==
    ASSUME NEW t \in [Directors -> SensorTypes]
    PROVE  /\ \A k \in Kind, n \in Nat : Told(Message(k, n, <<>>))
           /\ \A n \in Nat : Told(Message("V", n, t))
           /\ Told(SendAnalogType(t)) /\ Told(SendDigitalType(t))
           /\ Told(SendTime) /\ Told(SendDelay) /\ Told(SendConstants)
<1>1. DOMAIN <<>> = {}  OBVIOUS
<1>2. \A k, n : Told(Message(k, n, <<>>))  BY <1>1 DEF Told, Message
<1>3. \A n : Told(Message("V", n, t))  BY DEF Told, Message
<1>4. Told(SendAnalogType(t))
    <2>1. SendAnalogType(t).types = [d \in Directors \ {D} |-> t[d]]
        BY DEF SendAnalogType, Message
    <2>2. QED  BY <2>1 DEF Told
<1>5. Told(SendDigitalType(t))
    <2>1. SendDigitalType(t).types = [d \in Directors \cap {D} |-> t[d]]
        BY DEF SendDigitalType, Message
    <2>2. QED  BY <2>1 DEF Told
<1>6. Told(SendTime) /\ Told(SendDelay) /\ Told(SendConstants)
    BY <1>2 DEF SendTime, SendDelay, SendConstants
<1>7. QED  BY <1>2, <1>3, <1>4, <1>5, <1>6

LEMMA ToldStation ==
    ASSUME FlowTypes, ToldInv, LineInv, DeviceStep \/ UserStep, UNCHANGED appVars
    PROVE  ToldInv'
<1>1. appTypes' = appTypes /\ current' = current  BY DEF appVars
<1>2. types \in [Directors -> Token] /\ toApp \in Seq(Messages)  BY DEF FlowTypes
<1>3. types \in [Directors -> SensorTypes] /\ kept \in [Directors -> SensorTypes]
    BY DEF ToldInv
<1>4. ASSUME NEW r \in Seq(Messages), AllTold(r), ToApp(r) \/ toApp' = toApp
      PROVE  AllTold(toApp')
    BY <1>2, <1>4, ToldSent DEF ToApp, ToldInv
<1>5. ASSUME UNCHANGED <<types, kept, toApp>> PROVE ToldInv'  BY <1>1, <1>5 DEF ToldInv
<1>6. ASSUME UNCHANGED <<types, kept>>, AllTold(toApp') PROVE ToldInv'
    BY <1>1, <1>6 DEF ToldInv
<1>7. ASSUME NEW m \in Messages, Told(m) PROVE <<m>> \in Seq(Messages) /\ AllTold(<<m>>)
    BY <1>7 DEF AllTold
<1>8. CASE Pass
    <2>1. UNCHANGED <<types, kept>> /\ (ToApp(SendValues) \/ toApp' = toApp)
        BY <1>8 DEF Pass
    <2>2. /\ Message("V", 29, types) \in Messages /\ SendTime \in Messages
          /\ Told(Message("V", 29, types)) /\ Told(SendTime)
        BY <1>2, <1>3, MessageFacts, ToldMessages
    <2>3. SendValues \in Seq(Messages) /\ AllTold(SendValues)
        BY <2>2 DEF SendValues, AllTold
    <2>4. QED  BY <1>4, <1>6, <2>1, <2>3
<1>9. CASE Wait \/ EventEnd \/ Released \/ MenuSetTime \/ MenuSetDelay \/ MenuLeave
    <2>1. UNCHANGED <<types, kept, toApp>>
        BY <1>9 DEF Wait, EventEnd, Released, MenuSetTime, MenuSetDelay, MenuLeave, wireVars
    <2>2. QED  BY <1>5, <2>1
<1>10. CASE PollSel \/ ReadX \/ ReadOther \/ TimeEvent
    <2>1. UNCHANGED <<types, kept, toApp>>
        BY <1>10 DEF PollSel, ReadX, ReadOther, TimeEvent
    <2>2. QED  BY <1>5, <2>1
<1>11. CASE ReadY
    <2>1. UNCHANGED <<types, kept>> /\ ToApp(Handshake)  BY <1>11 DEF ReadY
    <2> DEFINE y == Message("Y", 1, <<>>)
               a == SendAnalogType(types)
               d == SendDigitalType(types)
    <2>2. /\ y \in Messages /\ a \in Messages /\ d \in Messages
          /\ SendConstants \in Messages /\ SendDelay \in Messages
        BY <1>2, MessageFacts DEF Kind
    <2>3. Told(y) /\ Told(a) /\ Told(d) /\ Told(SendConstants) /\ Told(SendDelay)
        BY <1>3, ToldMessages DEF Kind
    <2>4. Handshake = <<y, a, d, SendConstants, SendDelay>>  BY DEF Handshake
    <2> HIDE DEF y, a, d
    <2>5. Handshake \in Seq(Messages)  BY <2>2, <2>4
    <2>6. AllTold(Handshake)  BY <2>3, <2>4 DEF AllTold
    <2>7. QED  BY <1>4, <1>6, <2>1, <2>5, <2>6
<1>12. CASE RetypeEvent
    <2>1. at = "retype" /\ Len(rx) >= 3 /\ kept' = kept  BY <1>12 DEF RetypeEvent
    <2>2. /\ Line[1] = rx[1] /\ Line[2] = rx[2] /\ Line[3] = rx[3] /\ rx[1] = Head(rx)
        BY <2>1 DEF Line, FlowTypes
    <2>3. Upload(Line, 0)  BY <2>1 DEF LineInv
    <2>4. Head(rx) \in Directors /\ rx[3] \in SensorTypes  BY <2>2, <2>3 DEF Upload
    <2>5. types' \in [Directors -> SensorTypes]
        BY <1>3, <1>12, <2>4 DEF RetypeEvent
    <2>6. types' \in [Directors -> Token]
        <3>1. SensorTypes \subseteq Token  BY SensorTypesAssumption DEF Token
        <3>2. QED  BY <2>5, <3>1
    <2> DEFINE m == SendType(Head(rx), types')
    <2>7. m \in Messages  BY <2>6, MessageFacts DEF SendType
    <2>8. Told(m)  BY <2>5, ToldMessages DEF SendType
    <2>9. ToApp(<<m>>)  BY <1>12, <2>4 DEF RetypeEvent
    <2> HIDE DEF m
    <2>10. AllTold(toApp')  BY <1>4, <1>7, <2>7, <2>8, <2>9
    <2>11. QED  BY <1>1, <2>1, <2>5, <2>10 DEF ToldInv
<1>13. CASE StoreEvent
    <2>1. kept' = types /\ UNCHANGED <<types, toApp>>  BY <1>13 DEF StoreEvent, wireVars
    <2>2. QED  BY <1>1, <2>1 DEF ToldInv
<1>14. CASE DelayEvent
    <2>1. UNCHANGED <<types, kept>> /\ ToApp(<<SendDelay>>)  BY <1>14 DEF DelayEvent
    <2>2. SendDelay \in Messages /\ Told(SendDelay)
        BY <1>2, <1>3, MessageFacts, ToldMessages
    <2>3. QED  BY <1>4, <1>6, <1>7, <2>1, <2>2
<1>15. CASE Stream
    <2> DEFINE m == Message("M", 6, <<>>)
    <2>1. UNCHANGED <<types, kept>> /\ (ToApp(<<m>>) \/ toApp' = toApp)
        BY <1>15 DEF Stream
    <2>2. m \in Messages /\ Told(m)  BY <1>2, <1>3, MessageFacts, ToldMessages DEF Kind
    <2> HIDE DEF m
    <2>3. QED  BY <1>4, <1>6, <1>7, <2>1, <2>2
<1>16. CASE MenuRetype
    <2>1. types' \in [Directors -> SensorTypes] /\ kept' = types' /\ toApp' = toApp
        BY <1>3, <1>16 DEF MenuRetype, wireVars
    <2>2. QED  BY <1>1, <2>1 DEF ToldInv
<1>17. CASE Restart
    <2>1. types' = kept /\ UNCHANGED <<kept, toApp>>  BY <1>17 DEF Restart
    <2>2. QED  BY <1>1, <2>1 DEF ToldInv
<1>18. QED
    BY <1>8, <1>9, <1>10, <1>11, <1>12, <1>13, <1>14, <1>15, <1>16, <1>17
       DEF DeviceStep, UserStep, SerialEvent

LEMMA ToldApp ==
    ASSUME FlowTypes, ToldInv, Commands \/ EdtStep \/ ReaderStep, UNCHANGED deviceVars
    PROVE  ToldInv'
<1>1. UNCHANGED <<types, kept>>  BY DEF deviceVars
<1>2. toApp \in Seq(Messages)  BY DEF FlowTypes
<1>3. Told(NoMessage)
    <2>1. DOMAIN <<>> = {}  OBVIOUS
    <2>2. QED  BY <2>1 DEF Told, NoMessage, Message
<1>4. AllTold(<<>>)  BY DEF AllTold
<1>5. CASE UNCHANGED <<toApp, appTypes, current>>  BY <1>1, <1>5 DEF ToldInv
<1>6. Connect \/ Disconnect \/ Retype \/ SetDelay \/ SetTime \/ StartReading \/ StopReading
        \/ ConnectEnd \/ SetTimeEnd \/ Enter \/ Leave
      => UNCHANGED <<toApp, appTypes, current>>
    BY DEF Connect, Disconnect, Retype, SetDelay, SetTime, StartReading, StopReading,
           ConnectEnd, SetTimeEnd, Enter, Leave, wireVars
<1>7. CASE Close
    <2>1. toApp' = <<>> /\ UNCHANGED <<appTypes, current>>  BY <1>7 DEF Close
    <2>2. QED  BY <1>1, <1>4, <2>1 DEF ToldInv
<1>8. CASE Exit
    <2>1. toApp' = <<>> /\ current' = NoMessage /\ appTypes' = [d \in Directors |-> 0]
        BY <1>8 DEF Exit
    <2>2. QED  BY <1>1, <1>3, <1>4, <2>1 DEF ToldInv
<1>9. CASE ReadFirst
    <2>1. toApp # <<>> /\ toApp' = Tail(toApp) /\ appTypes' = appTypes
        BY <1>9 DEF ReadFirst
    <2>2. Head(toApp) = toApp[1] /\ 1 \in 1..Len(toApp) /\ Head(toApp) \in Messages
        BY <1>2, <2>1
    <2>3. \A i \in 1..Len(toApp') : i + 1 \in 1..Len(toApp) /\ toApp'[i] = toApp[i + 1]
        BY <1>2, <2>1
    <2>4. AllTold(toApp')  BY <2>3 DEF ToldInv, AllTold
    <2>5. Told(Head(toApp))  BY <2>2 DEF ToldInv, AllTold
    <2>6. Told(current')
        <3>1. current' = current \/ current' = [Head(toApp) EXCEPT !.n = @ - 1]
            BY <1>9 DEF ReadFirst
        <3>2. CASE current' = [Head(toApp) EXCEPT !.n = @ - 1]
            <4>1. current'.types = Head(toApp).types  BY <2>2, <3>2 DEF Messages
            <4>2. QED  BY <2>5, <4>1 DEF Told
        <3>3. QED  BY <3>1, <3>2 DEF ToldInv
    <2>7. QED  BY <1>1, <2>1, <2>4, <2>6 DEF ToldInv
<1>10. CASE ReadRest
    <2>1. toApp' = toApp /\ current' = NoMessage  BY <1>10 DEF ReadRest, wireVars
    <2>2. appTypes' \in [Directors -> {0} \cup SensorTypes]
        BY <1>10 DEF ReadRest, ToldInv, Told
    <2>3. QED  BY <1>1, <1>3, <2>1, <2>2 DEF ToldInv
<1>11. QED
    BY <1>5, <1>6, <1>7, <1>8, <1>9, <1>10 DEF Commands, EdtStep, ReaderStep

LEMMA ToldNext ==
    ASSUME FlowTypes, LineInv, ToldInv, [Next]_vars PROVE ToldInv'
<1>1. CASE (DeviceStep \/ UserStep) /\ UNCHANGED appVars  BY <1>1, ToldStation
<1>2. CASE (Commands \/ EdtStep \/ ReaderStep) /\ UNCHANGED deviceVars  BY <1>2, ToldApp
<1>3. CASE Deliver /\ UNCHANGED <<deviceVars, appVars>>
    BY <1>3 DEF Deliver, ToldInv, deviceVars, appVars
<1>4. CASE UNCHANGED vars  BY <1>4 DEF vars, wireVars, deviceVars, appVars, ToldInv
<1>5. QED  BY <1>1, <1>2, <1>3, <1>4 DEF Next

-----------------------------------------------------------------------------

\* What needs no room in the buffer ...
BasicInv == ServeInv /\ FlowTypes /\ Simple /\ BufferInv

LEMMA BasicHolds == Spec => []BasicInv
<1>1. Init => BasicInv
    <2> SUFFICES ASSUME Init PROVE BasicInv  OBVIOUS
    <2>1. ServeInv  BY DEF Init, DeviceInit, ServeInv, ClientServed, Commanded
    <2>2. FlowTypes  BY FlowInit
    <2>3. Simple
        <3>1. 0 \in 0..Ticks /\ 1 \in 0..Ticks /\ 0 \in 0..MaxFailures /\ 0 \in 0..MaxCommands
            BY TicksAssumption, MaxFailuresAssumption, MaxCommandsAssumption
        <3>2. /\ serialOn = FALSE /\ conected = FALSE /\ clockSet = FALSE
              /\ ticks = 1 /\ at = "pass" /\ left = 0 /\ failures = 0
            BY DEF Init, DeviceInit
        <3>3. /\ portOpen = FALSE /\ firstContact = FALSE /\ edt = "idle" /\ reader = "out"
              /\ given = 0
            BY DEF Init, AppInit
        <3>4. QED  BY <3>1, <3>2, <3>3 DEF Simple, Places
    <2>4. BufferInv
        <3>1. 1 \in Token  BY DEF Token
        <3>2. Available(<<>>) = 0  BY <3>1, AvailableOne
        <3>3. QED  BY <3>2, RxCapAssumption DEF Init, DeviceInit, BufferInv
    <2>5. QED  BY <2>1, <2>2, <2>3, <2>4 DEF BasicInv
<1>2. BasicInv /\ [Next]_vars => BasicInv'
    BY ServeNext, FlowTypesNext, SimpleNext, BufferNext DEF BasicInv
<1>3. QED  BY <1>1, <1>2, PTL DEF Spec

\* ... and what does: nothing may be lost out of the middle of an upload.
SoundInv == LineInv /\ ToldInv

LEMMA SoundHolds == Spec /\ []Room => []SoundInv
<1>1. Init => SoundInv
    <2> SUFFICES ASSUME Init PROVE SoundInv  OBVIOUS
    <2>1. Line = <<>> /\ at = "pass"
        <3>1. rx = <<>> /\ toDevice = <<>> /\ at = "pass"  BY DEF Init, DeviceInit
        <3>2. <<>> \o <<>> = <<>>  BY EmptyIsSeq, LineFacts
        <3>3. QED  BY <3>1, <3>2 DEF Line
    <2>2. LineInv  BY <2>1 DEF LineInv, Whole
    <2>3. Told(NoMessage)
        <3>1. DOMAIN <<>> = {}  OBVIOUS
        <3>2. QED  BY <3>1 DEF Told, NoMessage, Message
    <2>4. ToldInv
        BY <2>3, SensorTypesAssumption DEF Init, DeviceInit, AppInit, ToldInv, AllTold
    <2>5. QED  BY <2>2, <2>4 DEF SoundInv
<1>2. BasicInv /\ BasicInv' /\ Room /\ SoundInv /\ [Next]_vars => SoundInv'
    BY LineNext, ToldNext DEF BasicInv, SoundInv
<1>3. QED  BY <1>1, <1>2, BasicHolds, PTL DEF Spec

LEMMA SoundTypes == ASSUME BasicInv, SoundInv PROVE TypeOK
<1>1. \A i \in DOMAIN toApp : toApp[i].k \in {"Y", "TA", "TD", "C", "D", "V", "A", "M"}
    <2>1. toApp \in Seq(Messages)  BY DEF BasicInv, FlowTypes
    <2>2. \A i \in DOMAIN toApp : toApp[i] \in Messages  BY <2>1
    <2>3. \A m \in Messages : m.k \in Kind  BY DEF Messages
    <2>4. QED  BY <2>2, <2>3 DEF Kind
<1>2. /\ toDevice \in Seq(0..255 \cup {NumberText, TimeText})
      /\ rx \in Seq(0..255 \cup {NumberText, TimeText})
    BY DEF BasicInv, FlowTypes, Token
<1>3. QED  BY <1>1, <1>2 DEF BasicInv, SoundInv, Simple, BufferInv, ToldInv, TypeOK

\* Whatever the two users do, the disconnect button included: as long as no byte comes to
\* a full buffer, every buffer and variable holds what it may, and every table types of
\* SensApl's lists. In the code the buffer of the Arduino core drops what does not fit
\* (HardwareSerial); a lost byte of an upload would make its next byte a pin or a type.
THEOREM TypesWithRoom == Spec /\ []Room => []TypeOK
<1>1. BasicInv /\ SoundInv => TypeOK  BY SoundTypes
<1>2. QED  BY <1>1, BasicHolds, SoundHolds, PTL

\* The buffer does have room for all that is given, if it takes eleven bytes, the most that
\* a command comes to ('B' and ten digits, Serial.java setTime), for each command.
THEOREM RoomHolds ==
    ASSUME 11 * MaxCommands <= RxCap
    PROVE  Spec => []Room
<1>1. Init => LoadInv
    <2> SUFFICES ASSUME Init PROVE LoadInv  OBVIOUS
    <2>1. rx = <<>> /\ toDevice = <<>> /\ Pending = 0 /\ given = 0
        BY DEF Init, DeviceInit, AppInit, Pending
    <2>2. Available(<<>>) = 0
        <3>1. 1 \in Token  BY DEF Token
        <3>2. QED  BY <3>1, AvailableOne
    <2>3. QED  BY <2>1, <2>2 DEF LoadInv
<1>2. BasicInv /\ BasicInv' /\ LoadInv /\ [Next]_vars => LoadInv'
    BY LoadNext DEF BasicInv
<1>3. BasicInv /\ LoadInv => Room
    <2> SUFFICES ASSUME BasicInv, LoadInv, toDevice # <<>>
                 PROVE  Available(rx) + Width(Head(toDevice)) <= RxCap
        BY DEF Room
    <2>1. rx \in Seq(Token) /\ toDevice \in Seq(Token)  BY DEF BasicInv, FlowTypes
    <2>2. /\ Available(rx) \in Nat /\ Width(Head(toDevice)) \in Nat
          /\ Available(toDevice) = Width(Head(toDevice)) + Available(Tail(toDevice))
          /\ Available(Tail(toDevice)) \in Nat
        BY <2>1, AvailableDelivered
    <2>3. Pending \in Nat /\ given \in Nat /\ given <= MaxCommands
        BY MaxCommandsAssumption DEF Pending, BasicInv, Simple
    <2>4. 11 * given <= 11 * MaxCommands  BY <2>3, MaxCommandsAssumption
    <2>5. QED
        BY <2>2, <2>3, <2>4, MaxCommandsAssumption, RxCapAssumption DEF LoadInv
<1>4. QED  BY <1>1, <1>2, <1>3, BasicHolds, PTL DEF Spec

\* As long as no byte comes to a full buffer and nobody presses the disconnect button, the
\* two ends agree and everything holds what it may.
THEOREM InSyncWithRoom ==
    ASSUME "disconnect" \notin Buttons
    PROVE  Spec /\ []Room => []InSync
<1>1. TypeOK /\ TablesAgree => InSync  BY DEF InSync
<1>2. QED  BY <1>1, TypesWithRoom, TablesAgreeHolds, PTL

\* So they do for all tables, types, waits and power failures, and for a buffer of any size,
\* while the commands given are no more than it has room for.
THEOREM InSyncHolds ==
    ASSUME "disconnect" \notin Buttons, 11 * MaxCommands <= RxCap
    PROVE  Spec => []InSync
<1>1. Spec => []Room  BY RoomHolds
<1>2. Spec /\ []Room => []InSync  BY InSyncWithRoom
<1>3. QED  BY <1>1, <1>2, PTL

=============================================================================
