---------------------------- MODULE PanelsProofs ----------------------------
(***************************************************************************)
(* What holds of SensApl's panels for any order of them, any commands of   *)
(* the user and any number of messages.                                    *)
(***************************************************************************)
EXTENDS Panels, TLAPS

Types == [Pins -> Offered]

\* A message tells the types of some panels, or was measured under the types of all.
Messages == [k : {"T"}, types : UNION {[of -> Offered] : of \in SUBSET Pins}]
            \cup [k : {"V"}, types : Types]
Orders == [k : {"T"}, pin : Pins, n : Offered]
          \cup [k : {"stream", "W", "constants"}, pin : Bars, n : {0}]

QueuesInv == toApp \in Seq(Messages) /\ toStation \in Seq(Orders)

-----------------------------------------------------------------------------
\* SensApl knows the type t of panel p when it comes to message i of the queue q: the last
\* table before it that names p says t, or none does, and it knew it before.
Tells(m, p) == m.k = "T" /\ p \in DOMAIN m.types
Known(q, app, i, p, t) ==
    /\ \A j \in 1 .. i - 1 :
         Tells(q[j], p) /\ (\A k \in j + 1 .. i - 1 : ~Tells(q[k], p)) => q[j].types[p] = t
    /\ (\A j \in 1 .. i - 1 : ~Tells(q[j], p)) => app[p] \in {0, t}

\* Values find the types they were measured under; at the end of the queue those of now.
FlowInv ==
    /\ \A i \in 1 .. Len(toApp) :
         toApp[i].k = "V" => \A p \in Pins : Known(toApp, appTypes, i, p, toApp[i].types[p])
    /\ \A p \in Pins : Known(toApp, appTypes, Len(toApp) + 1, p, types[p])

\* The panels that a table being shown has reached.
Reached == IF reader.job \in {"clear", "select"} THEN Pins \ ToSet(reader.left) ELSE Pins
Jobs == {"idle", "clear", "select", "shown", "add"}
ReaderInv ==
    /\ reader \in [job : Jobs, left : Seq(Pins), types : Types \cup {<<>>}]
    /\ reader.job \in {"clear", "select", "add"} => reader.left # <<>>
    /\ reader.job \in {"clear", "select"} => changeCard
    /\ reader.job = "select" =>
         LET p == Head(reader.left) IN combo[p] = -1 \/ card[p] = combo[p]
    /\ reader.job = "add" => \A p \in Pins : appTypes[p] \in {0, reader.types[p]}

WindowInv ==
    /\ \A p \in Pins : combo[p] + 1 \in Offered \cup {0}
    /\ \A p \in Pins \ touched : appTypes[p] > 0
    /\ \A p \in Reached \ touched : combo[p] = appTypes[p] - 1 /\ card[p] = combo[p]
    /\ DOMAIN last = Pins
    /\ \A p \in Pins : last[p].own => last[p].card = last[p].type - 1

PanelsInv == TypeKnown /\ QueuesInv /\ FlowInv /\ ReaderInv /\ WindowInv

-----------------------------------------------------------------------------
(* Constants, messages, queues *)

LEMMA ConstantFacts ==
    /\ Offered \subseteq 1..3 /\ 1 \in Offered
    /\ Pins \subseteq {"A", "I", "D"} /\ Bars \subseteq Pins
    /\ Panel \in Seq(Pins) /\ Panel # <<>>
<1>1. Offered \subseteq 1..3 /\ 1 \in Offered  BY OfferedAssumption
<1>2. Pins \subseteq {"A", "I", "D"} /\ Panel \in Seq(Pins) /\ Panel # <<>>
    BY PanelAssumption DEF Pins, ToSet
<1>3. Bars \subseteq Pins  BY BarsAssumption DEF Pins
<1>4. QED  BY <1>1, <1>2, <1>3

LEMMA MessageFacts ==
    ASSUME NEW m \in Messages
    PROVE  /\ m.k \in {"T", "V"}
           /\ m.k = "T" => \A p \in DOMAIN m.types : m.types[p] \in Offered
           /\ m.k = "V" => m.types \in Types
BY DEF Messages

LEMMA TableFacts ==
    ASSUME NEW of \in SUBSET Pins, NEW t \in Types
    PROVE  /\ Tables(of, t) \in Messages
           /\ \A p : Tells(Tables(of, t), p) <=> p \in of
           /\ \A p \in of : Tables(of, t).types[p] = t[p]
           /\ Tables(of, t).k = "T"
<1> DEFINE f == [p \in of |-> t[p]]
<1>1. f \in [of -> Offered]  BY DEF Types
<1>2. f \in UNION {[o -> Offered] : o \in SUBSET Pins}  BY <1>1
<1>3. DOMAIN f = of /\ \A p \in of : f[p] = t[p]  OBVIOUS
<1>4. Tables(of, t) = [k |-> "T", types |-> f]  BY DEF Tables
<1> HIDE DEF f
<1>5. Tables(of, t).types = f /\ Tables(of, t).k = "T"  BY <1>4
<1>6. Tables(of, t) \in Messages  BY <1>2, <1>4 DEF Messages
<1>7. QED  BY <1>3, <1>5, <1>6 DEF Tells

LEMMA ToldFacts == \A p \in Pins : p \in Told(p) /\ Told(p) \subseteq Pins
BY DEF Told

\* What is put into the queue changes nothing for what stands before it,
LEMMA AppendBefore ==
    ASSUME NEW q \in Seq(Messages), NEW m \in Messages, NEW i \in 1 .. Len(q) + 1,
           NEW app, NEW p, NEW t, Known(q, app, i, p, t)
    PROVE  Known(Append(q, m), app, i, p, t)
<1>1. \A j \in 1 .. i - 1 : Append(q, m)[j] = q[j]  OBVIOUS
<1>2. QED  BY <1>1 DEF Known

\* a table tells what comes after it, and what is no table of p nothing.
LEMMA AppendTold ==
    ASSUME NEW q \in Seq(Messages), NEW m \in Messages, NEW app, NEW p, NEW t,
           Tells(m, p), m.types[p] = t
    PROVE  Known(Append(q, m), app, Len(q) + 2, p, t)
<1>1. Append(q, m)[Len(q) + 1] = m  OBVIOUS
<1>2. \A j \in 1 .. Len(q) + 1 :
         (\A k \in j + 1 .. Len(q) + 1 : ~Tells(Append(q, m)[k], p)) => j = Len(q) + 1
    BY <1>1
<1>3. QED  BY <1>1, <1>2 DEF Known

LEMMA AppendUntold ==
    ASSUME NEW q \in Seq(Messages), NEW m \in Messages, NEW app, NEW p, NEW t,
           ~Tells(m, p), Known(q, app, Len(q) + 1, p, t)
    PROVE  Known(Append(q, m), app, Len(q) + 2, p, t)
<1>1. Append(q, m)[Len(q) + 1] = m /\ \A j \in 1 .. Len(q) : Append(q, m)[j] = q[j]  OBVIOUS
<1>2. QED  BY <1>1 DEF Known

\* A message that is taken moves what it tells into SensApl's table.
LEMMA TailKnown ==
    ASSUME NEW q \in Seq(Messages), q # <<>>, NEW i \in 2 .. Len(q) + 1,
           NEW app, NEW app2, NEW p, NEW t, Known(q, app, i, p, t),
           app2[p] = IF Tells(q[1], p) THEN q[1].types[p] ELSE app[p]
    PROVE  Known(Tail(q), app2, i - 1, p, t)
<1> DEFINE r == Tail(q)
<1>1. r \in Seq(Messages) /\ Len(r) = Len(q) - 1 /\ \A j \in 1 .. Len(q) - 1 : r[j] = q[j + 1]
    OBVIOUS
<1> HIDE DEF r
<1>2. ASSUME NEW j \in 1 .. i - 2, Tells(r[j], p), \A k \in j + 1 .. i - 2 : ~Tells(r[k], p)
      PROVE  r[j].types[p] = t
    <2>1. j + 1 \in 1 .. i - 1 /\ r[j] = q[j + 1]  BY <1>1
    <2>2. ASSUME NEW k \in j + 2 .. i - 1 PROVE ~Tells(q[k], p)
        <3>1. k - 1 \in j + 1 .. i - 2 /\ r[k - 1] = q[k]  BY <1>1
        <3>2. QED  BY <3>1, <1>2
    <2>3. QED  BY <2>1, <2>2, <1>2 DEF Known
<1>3. ASSUME \A j \in 1 .. i - 2 : ~Tells(r[j], p)
      PROVE  app2[p] \in {0, t}
    <2>1. ASSUME NEW k \in 2 .. i - 1 PROVE ~Tells(q[k], p)
        <3>1. k - 1 \in 1 .. i - 2 /\ r[k - 1] = q[k]  BY <1>1
        <3>2. QED  BY <3>1, <1>3
    <2>2. CASE Tells(q[1], p)
        <3>1. q[1].types[p] = t  BY <2>1, <2>2 DEF Known
        <3>2. QED  BY <2>2, <3>1
    <2>3. CASE ~Tells(q[1], p)
        <3>1. \A j \in 1 .. i - 1 : ~Tells(q[j], p)  BY <2>1, <2>3
        <3>2. QED  BY <2>3, <3>1 DEF Known
    <2>4. QED  BY <2>2, <2>3
<1>4. Known(r, app2, i - 1, p, t)  BY <1>2, <1>3 DEF Known
<1>5. QED  BY <1>4 DEF r

\* What Known says depends on the table of p only.
LEMMA SameTable ==
    ASSUME NEW q, NEW i, NEW app, NEW app2, NEW p, NEW t, Known(q, app, i, p, t), app2[p] = app[p]
    PROVE  Known(q, app2, i, p, t)
BY DEF Known

-----------------------------------------------------------------------------
(* The user and the station *)

\* What each part of the invariant is about.
LEMMA Parts ==
    /\ FlowInv /\ UNCHANGED <<toApp, appTypes, types>> => FlowInv'
    /\ ReaderInv /\ UNCHANGED <<reader, changeCard, combo, card, appTypes>> => ReaderInv'
    /\ WindowInv /\ UNCHANGED <<combo, touched, appTypes, reader, card, last>> => WindowInv'
<1>1. FlowInv /\ UNCHANGED <<toApp, appTypes, types>> => FlowInv'  BY DEF FlowInv
<1>2. ReaderInv /\ UNCHANGED <<reader, changeCard, combo, card, appTypes>> => ReaderInv'
    BY DEF ReaderInv
<1>3. WindowInv /\ UNCHANGED <<combo, touched, appTypes, reader, card, last>> => WindowInv'
    BY DEF WindowInv, Reached
<1>4. QED  BY <1>1, <1>2, <1>3

LEMMA PanelsStand == PanelsInv /\ UNCHANGED vars => PanelsInv'
BY Parts DEF PanelsInv, vars, station, window, user, TypeKnown, QueuesInv

LEMMA PanelsStart == Init => PanelsInv
<1> SUFFICES ASSUME Init PROVE PanelsInv  OBVIOUS
<1>1. TypeKnown
    <2>1. changeCard \in BOOLEAN  BY Zenon DEF Init
    <2>2. stream \in Bars \cup {Nobody} /\ reader.job = "idle"  BY DEF Init, Idle
    <2>3. /\ types \in [Pins -> Offered] /\ appTypes \in [Pins -> Offered \cup {0}]
          /\ combo \in [Pins -> -1..2] /\ card \in [Pins -> 0..2]
          /\ started \subseteq Bars /\ touched \subseteq Pins
        BY DEF Init
    <2>4. QED  BY <2>1, <2>2, <2>3 DEF TypeKnown
<1>2. <<>> \in Seq(Messages) /\ <<>> \in Seq(Orders) /\ <<>> \in Seq(Pins) /\ Len(<<>>) = 0
    OBVIOUS
<1>3. QueuesInv  BY <1>2 DEF Init, QueuesInv
<1>4. FlowInv  BY <1>2 DEF Init, FlowInv, Known
<1>5. reader \in [job : Jobs, left : Seq(Pins), types : Types \cup {<<>>}] /\ reader.job = "idle"
    BY <1>2 DEF Init, Idle, Jobs
<1>6. ReaderInv  BY <1>5 DEF ReaderInv
<1>7. WindowInv
    <2>1. ~NoPoint.own  BY DEF NoPoint
    <2>2. DOMAIN last = Pins /\ \A p \in Pins : ~last[p].own
        BY <2>1 DEF Init
    <2>3. Reached \subseteq Pins  BY DEF Reached
    <2>4. touched = Pins /\ \A p \in Pins : combo[p] = 0  BY DEF Init
    <2>5. \A p \in Pins : combo[p] + 1 \in Offered \cup {0}  BY <2>4, ConstantFacts
    <2>6. QED  BY <2>2, <2>3, <2>4, <2>5 DEF WindowInv
<1>8. QED  BY <1>1, <1>3, <1>4, <1>6, <1>7 DEF PanelsInv

Orderings == \E p \in Pins : Upload(p) \/ (p \in Bars /\ (StartCalib(p) \/ StopCalib(p) \/ SendConstants(p)))
LEMMA OrderingsKeep == PanelsInv /\ Orderings => PanelsInv'
<1> SUFFICES ASSUME PanelsInv, Orderings PROVE PanelsInv'  OBVIOUS
<1>1. /\ UNCHANGED <<types, stream, toApp, window, touched>>
      /\ started' \subseteq Bars
      /\ \E c \in Orders : toStation' = Append(toStation, c)
    <2>1. PICK p \in Pins :
            \/ Upload(p)
            \/ p \in Bars /\ (StartCalib(p) \/ StopCalib(p) \/ SendConstants(p))
        BY DEF Orderings
    <2>2. CASE Upload(p)
        <3>1. combo[p] + 1 \in Offered
            BY <2>2, ConstantFacts DEF Upload, PanelsInv, WindowInv, TypeKnown
        <3>2. [k |-> "T", pin |-> p, n |-> combo[p] + 1] \in Orders  BY <3>1 DEF Orders
        <3>3. QED  BY <2>2, <3>2 DEF Upload, Command, Write, PanelsInv, TypeKnown
    <2>3. CASE p \in Bars /\ ~Upload(p)
        <3>1. \A what \in {"stream", "W", "constants"} : [k |-> what, pin |-> p, n |-> 0] \in Orders
            BY <2>3 DEF Orders
        <3>2. QED
            BY <2>1, <2>3, <3>1 DEF StartCalib, StopCalib, SendConstants, Command, Write, PanelsInv,
               TypeKnown
    <2>4. QED  BY <2>1, <2>2, <2>3
<1>2. TypeKnown'  BY <1>1 DEF PanelsInv, TypeKnown, window
<1>3. QueuesInv'  BY <1>1 DEF PanelsInv, QueuesInv
<1>4. FlowInv' /\ ReaderInv' /\ WindowInv'  BY <1>1, Parts DEF PanelsInv, window
<1>5. QED  BY <1>2, <1>3, <1>4 DEF PanelsInv

LEMMA ReceiveKeeps == PanelsInv /\ (Receive \/ Stream) => PanelsInv'
<1> SUFFICES ASSUME PanelsInv, Receive \/ Stream PROVE PanelsInv'  OBVIOUS
<1>1. toStation \in Seq(Orders) /\ toStation # <<>> /\ toStation' = Tail(toStation)
    BY DEF Receive, Stream, PanelsInv, QueuesInv
<1>2. UNCHANGED <<window, user>>  BY DEF Receive, Stream
<1>3. toStation' \in Seq(Orders)  BY <1>1
<1>4. ReaderInv' /\ WindowInv'  BY <1>2, Parts DEF PanelsInv, window, user
<1> DEFINE c == Head(toStation)
<1>5. c \in Orders  BY <1>1
<1>6. CASE UNCHANGED <<types, toApp>> /\ stream' \in Bars \cup {Nobody}
    <2>1. TypeKnown'  BY <1>2, <1>6 DEF PanelsInv, TypeKnown, window, user
    <2>2. QueuesInv' /\ FlowInv'  BY <1>2, <1>3, <1>6, Parts DEF PanelsInv, QueuesInv, window
    <2>3. QED  BY <1>4, <2>1, <2>2 DEF PanelsInv
<1>7. CASE Receive /\ c.k = "T"
    <2>1. c.pin \in Pins /\ c.n \in Offered  BY <1>5, <1>7 DEF Orders
    <2> DEFINE m == Tables(Told(c.pin), types')
    <2>2. types' = [types EXCEPT ![c.pin] = c.n] /\ toApp' = Append(toApp, m) /\ stream' = Nobody
        BY <1>7 DEF Receive
    <2>3. types \in Types /\ types' \in Types  BY <2>1, <2>2 DEF PanelsInv, TypeKnown, Types
    <2>4. /\ m \in Messages /\ m.k = "T" /\ \A p \in Told(c.pin) : Tells(m, p) /\ m.types[p] = types'[p]
          /\ \A p \in Pins : ~Tells(m, p) => types'[p] = types[p]
        <3>1. c.pin \in Told(c.pin) /\ Told(c.pin) \in SUBSET Pins  BY <2>1, ToldFacts
        <3>2. /\ m \in Messages /\ m.k = "T"
              /\ \A p \in Told(c.pin) : Tells(m, p) /\ m.types[p] = types'[p]
            BY ZenonT(40), <2>3, <3>1, TableFacts
        <3>3. \A p \in Pins : p # c.pin => types'[p] = types[p]  BY <2>1, <2>2, <2>3 DEF Types
        <3>4. QED  BY <3>1, <3>2, <3>3
    <2>5. toApp \in Seq(Messages) /\ FlowInv  BY DEF PanelsInv, QueuesInv
    <2> HIDE DEF m, c
    <2>6. toApp' \in Seq(Messages) /\ Len(toApp') = Len(toApp) + 1 /\ toApp'[Len(toApp')] = m
          /\ \A i \in 1 .. Len(toApp) : toApp'[i] = toApp[i]
        BY <2>2, <2>4, <2>5
    <2>7. appTypes' = appTypes  BY <1>2 DEF window
    <2>8. ASSUME NEW i \in 1 .. Len(toApp'), toApp'[i].k = "V", NEW p \in Pins
          PROVE  Known(toApp', appTypes', i, p, toApp'[i].types[p])
        <3>1. i \in 1 .. Len(toApp) /\ toApp'[i] = toApp[i]  BY <2>4, <2>5, <2>6, <2>8
        <3>2. Known(toApp, appTypes, i, p, toApp[i].types[p])  BY <2>5, <2>8, <3>1 DEF FlowInv
        <3>3. i \in 1 .. Len(toApp) + 1  BY <2>5, <3>1
        <3>4. QED  BY <2>2, <2>4, <2>5, <2>7, <3>1, <3>2, <3>3, AppendBefore
    <2>9. ASSUME NEW p \in Pins PROVE Known(toApp', appTypes', Len(toApp') + 1, p, types'[p])
        <3>1. Tells(m, p) => m.types[p] = types'[p]  BY <2>1, <2>4, TableFacts, ToldFacts, <2>3 DEF m
        <3>2. Len(toApp') + 1 = Len(toApp) + 2  BY <2>5, <2>6
        <3>3. Known(toApp, appTypes, Len(toApp) + 1, p, types[p])  BY <2>5 DEF FlowInv
        <3>4. Known(Append(toApp, m), appTypes, Len(toApp) + 2, p, types'[p])
            <4>1. CASE Tells(m, p)  BY <2>4, <2>5, <3>1, <4>1, AppendTold
            <4>2. CASE ~Tells(m, p)
                <5>1. types'[p] = types[p]  BY <2>4, <4>2
                <5>2. QED  BY <2>4, <2>5, <3>3, <4>2, <5>1, AppendUntold
            <4>3. QED  BY <4>1, <4>2
        <3>5. QED  BY <2>2, <2>7, <3>2, <3>4
    <2>10. FlowInv'  BY <2>8, <2>9 DEF FlowInv
    <2>11. TypeKnown'  BY <1>2, <2>2, <2>3 DEF PanelsInv, TypeKnown, Types, window, user
    <2>12. QED  BY <1>3, <1>4, <2>6, <2>10, <2>11 DEF PanelsInv, QueuesInv
<1>8. QED
    <2>1. c.k = "stream" => c.pin \in Bars  BY <1>5 DEF Orders
    <2>2. stream \in Bars \cup {Nobody}  BY DEF PanelsInv, TypeKnown
    <2>3. QED  BY <1>6, <1>7, <2>1, <2>2 DEF Receive, Stream

LEMMA MeasureKeeps == PanelsInv /\ Measure => PanelsInv'
<1> SUFFICES ASSUME PanelsInv, Measure PROVE PanelsInv'  OBVIOUS
<1> DEFINE m == [k |-> "V", types |-> types]
<1>1. UNCHANGED <<types, stream, toStation, window, user>> /\ toApp' = Append(toApp, m)
    BY DEF Measure
<1>2. m \in Messages /\ m.types = types /\ \A p : ~Tells(m, p)
    BY DEF PanelsInv, TypeKnown, Messages, Types, Tells
<1>3. toApp \in Seq(Messages) /\ FlowInv  BY DEF PanelsInv, QueuesInv
<1> HIDE DEF m
<1>4. toApp' \in Seq(Messages) /\ Len(toApp') = Len(toApp) + 1 /\ toApp'[Len(toApp')] = m
      /\ \A i \in 1 .. Len(toApp) : toApp'[i] = toApp[i]
    BY <1>1, <1>2, <1>3
<1>5. appTypes' = appTypes /\ types' = types  BY <1>1 DEF window
<1>6. \A p \in Pins : Known(toApp, appTypes, Len(toApp) + 1, p, types[p])  BY <1>3 DEF FlowInv
<1>7. ASSUME NEW i \in 1 .. Len(toApp'), toApp'[i].k = "V", NEW p \in Pins
      PROVE  Known(toApp', appTypes', i, p, toApp'[i].types[p])
    <2>1. CASE i \in 1 .. Len(toApp)
        <3>1. Known(toApp, appTypes, i, p, toApp[i].types[p]) /\ toApp'[i] = toApp[i]
            BY <1>3, <1>4, <1>7, <2>1 DEF FlowInv
        <3>2. i \in 1 .. Len(toApp) + 1  BY <1>3, <2>1
        <3>3. QED  BY <1>1, <1>2, <1>3, <1>5, <3>1, <3>2, AppendBefore
    <2>2. CASE i = Len(toApp) + 1
        <3>1. toApp'[i].types[p] = types[p]  BY <1>2, <1>4, <2>2
        <3>2. i \in 1 .. Len(toApp) + 1  BY <1>3, <2>2
        <3>3. Known(toApp, appTypes, i, p, types[p])  BY <1>6, <2>2
        <3>4. QED  BY <1>1, <1>2, <1>3, <1>5, <3>1, <3>2, <3>3, AppendBefore
    <2>3. QED  BY <1>3, <1>4, <2>1, <2>2
<1>8. ASSUME NEW p \in Pins PROVE Known(toApp', appTypes', Len(toApp') + 1, p, types'[p])
    <2>1. Len(toApp') + 1 = Len(toApp) + 2  BY <1>3, <1>4
    <2>2. Known(toApp, appTypes, Len(toApp) + 1, p, types[p])  BY <1>6
    <2>3. QED  BY <1>1, <1>2, <1>3, <1>5, <2>1, <2>2, AppendUntold
<1>9. FlowInv'  BY <1>7, <1>8 DEF FlowInv
<1>10. TypeKnown'  BY <1>1 DEF PanelsInv, TypeKnown, window, user
<1>11. ReaderInv' /\ WindowInv'  BY <1>1, Parts DEF PanelsInv, window, user
<1>12. QED  BY <1>1, <1>4, <1>9, <1>10, <1>11 DEF PanelsInv, QueuesInv

LEMMA GreetKeeps == PanelsInv /\ Greet => PanelsInv'
<1> SUFFICES ASSUME PanelsInv, Greet PROVE PanelsInv'  OBVIOUS
<1> DEFINE a == Tables(Told("A"), types)  d == Tables(Told("D"), types)
<1>1. UNCHANGED <<types, stream, toStation, window, user>> /\ toApp' = <<a, d>>
    BY DEF Greet
<1>2. types \in Types  BY DEF PanelsInv, TypeKnown, Types
<1>3. /\ Told("A") \in SUBSET Pins /\ Told("D") \in SUBSET Pins
      /\ Pins \subseteq Told("A") \cup Told("D")
    BY DEF Told
<1>4. /\ a \in Messages /\ a.k = "T" /\ \A p : Tells(a, p) <=> p \in Told("A")
      /\ \A p \in Told("A") : a.types[p] = types[p]
    BY <1>2, <1>3, TableFacts
<1>5. /\ d \in Messages /\ d.k = "T" /\ \A p : Tells(d, p) <=> p \in Told("D")
      /\ \A p \in Told("D") : d.types[p] = types[p]
    BY <1>2, <1>3, TableFacts
<1> HIDE DEF a, d
<1>6. toApp' \in Seq(Messages) /\ Len(toApp') = 2 /\ toApp'[1] = a /\ toApp'[2] = d
    BY <1>1, <1>4, <1>5
<1>7. FlowInv'
    <2>1. \A i \in 1 .. Len(toApp') : toApp'[i].k # "V"  BY <1>4, <1>5, <1>6
    <2>2. ASSUME NEW p \in Pins PROVE Known(toApp', appTypes', 3, p, types[p])
        <3>1. \A j \in 1 .. 2 : Tells(toApp'[j], p) => toApp'[j].types[p] = types[p]
            BY <1>4, <1>5, <1>6
        <3>2. Tells(toApp'[1], p) \/ Tells(toApp'[2], p)  BY <1>3, <1>4, <1>5, <1>6
        <3>3. QED  BY <3>1, <3>2 DEF Known
    <2>3. Len(toApp') + 1 = 3 /\ types' = types  BY <1>1, <1>6
    <2>4. QED  BY <2>1, <2>2, <2>3 DEF FlowInv
<1>8. TypeKnown'  BY <1>1 DEF PanelsInv, TypeKnown, window, user
<1>9. ReaderInv' /\ WindowInv'  BY <1>1, Parts DEF PanelsInv, window, user
<1>10. QED  BY <1>1, <1>6, <1>7, <1>8, <1>9 DEF PanelsInv, QueuesInv

-----------------------------------------------------------------------------
(* The combo boxes and the thread of the serial library *)

LEMMA ChooseKeeps ==
    ASSUME PanelsInv, NEW p \in Pins, NEW t \in Offered, Choose(p, t - 1)
    PROVE  PanelsInv'
<1>1. /\ combo' = [combo EXCEPT ![p] = t - 1]
      /\ card' = IF changeCard THEN [card EXCEPT ![p] = t - 1] ELSE card
      /\ touched' = touched \cup {p}
      /\ UNCHANGED <<station, appTypes, changeCard, reader, last, started>>
    BY DEF Choose, Shown
<1>2. t \in 1..3  BY ConstantFacts
<1>3. TypeKnown'  BY <1>1, <1>2 DEF PanelsInv, TypeKnown, station
<1>4. QueuesInv' /\ FlowInv'  BY <1>1, Parts DEF PanelsInv, QueuesInv, station
<1>5. ReaderInv'
    <2>1. ASSUME reader.job = "select"
          PROVE  combo'[Head(reader.left)] = -1 \/ card'[Head(reader.left)] = combo'[Head(reader.left)]
        <3>1. Head(reader.left) \in Pins /\ changeCard  BY <2>1 DEF PanelsInv, ReaderInv
        <3>2. QED  BY <1>1, <2>1, <3>1 DEF PanelsInv, ReaderInv, TypeKnown
    <2>2. QED  BY <1>1, <2>1 DEF PanelsInv, ReaderInv
<1>6. WindowInv'
    <2>1. \A q \in Pins : q # p => combo'[q] = combo[q] /\ card'[q] = card[q]
        BY <1>1 DEF PanelsInv, TypeKnown
    <2>2. combo'[p] + 1 = t  BY <1>1, <1>2 DEF PanelsInv, TypeKnown
    <2>3. Reached' = Reached /\ Reached \subseteq Pins  BY <1>1 DEF Reached
    <2>4. QED  BY <1>1, <2>1, <2>2, <2>3 DEF PanelsInv, WindowInv
<1>7. QED  BY <1>3, <1>4, <1>5, <1>6 DEF PanelsInv

\* A message is taken from the queue.
LEMMA TakeFlow ==
    ASSUME PanelsInv, toApp # <<>>, toApp' = Tail(toApp), UNCHANGED types,
           \A p \in Pins :
              appTypes'[p] = IF Tells(toApp[1], p) THEN toApp[1].types[p] ELSE appTypes[p]
    PROVE  toApp' \in Seq(Messages) /\ FlowInv'
<1>1. toApp \in Seq(Messages) /\ FlowInv  BY DEF PanelsInv, QueuesInv
<1>2. toApp' \in Seq(Messages) /\ Len(toApp') = Len(toApp) - 1
      /\ \A i \in 1 .. Len(toApp') : toApp'[i] = toApp[i + 1]
    BY <1>1
<1>3. ASSUME NEW i \in 1 .. Len(toApp'), toApp'[i].k = "V", NEW p \in Pins
      PROVE  Known(toApp', appTypes', i, p, toApp'[i].types[p])
    <2>1. i + 1 \in 2 .. Len(toApp) + 1 /\ i + 1 \in 1 .. Len(toApp) /\ i = (i + 1) - 1
        BY <1>1, <1>2
    <2>2. Known(toApp, appTypes, i + 1, p, toApp'[i].types[p])
        BY <1>1, <1>2, <1>3, <2>1 DEF FlowInv
    <2>3. Known(Tail(toApp), appTypes', (i + 1) - 1, p, toApp'[i].types[p])
        BY <1>1, <2>1, <2>2, TailKnown
    <2>4. QED  BY <2>1, <2>3
<1>4. ASSUME NEW p \in Pins PROVE Known(toApp', appTypes', Len(toApp') + 1, p, types'[p])
    <2>1. Len(toApp) + 1 \in 2 .. Len(toApp) + 1 /\ Len(toApp') + 1 = (Len(toApp) + 1) - 1
        BY <1>1, <1>2
    <2>2. Known(toApp, appTypes, Len(toApp) + 1, p, types[p])  BY <1>1 DEF FlowInv
    <2>3. Known(Tail(toApp), appTypes', (Len(toApp) + 1) - 1, p, types[p])
        BY <1>1, <2>1, <2>2, TailKnown
    <2>4. QED  BY <2>1, <2>3
<1>5. QED  BY <1>2, <1>3, <1>4 DEF FlowInv

LEMMA TakeTablesKeeps == PanelsInv /\ TakeTables => PanelsInv'
<1> SUFFICES ASSUME PanelsInv, TakeTables PROVE PanelsInv'  OBVIOUS
<1>1. /\ toApp # <<>> /\ toApp \in Seq(Messages) /\ toApp[1].k = "T" /\ toApp' = Tail(toApp)
      /\ appTypes' = [p \in Pins |-> IF p \in DOMAIN toApp[1].types THEN toApp[1].types[p]
                                    ELSE appTypes[p]]
      /\ changeCard' = TRUE
      /\ UNCHANGED <<types, stream, toStation, combo, card, last, user>>
    BY DEF TakeTables, PanelsInv, QueuesInv
<1>2. reader' = [job |-> "clear", left |-> Panel, types |-> <<>>]
    BY DEF TakeTables, Idle
<1>3. \A p \in Pins : appTypes'[p] = IF Tells(toApp[1], p) THEN toApp[1].types[p] ELSE appTypes[p]
    BY <1>1 DEF Tells
<1>4. toApp' \in Seq(Messages) /\ FlowInv'  BY <1>1, <1>3, TakeFlow
<1>5. toApp[1] \in Messages  BY <1>1
<1>6. \A p \in Pins : Tells(toApp[1], p) => appTypes'[p] \in Offered
    BY <1>3, <1>5, MessageFacts DEF Tells
<1>7. TypeKnown'
    <2>1. changeCard' \in BOOLEAN  BY <1>1, Zenon
    <2>2. appTypes' \in [Pins -> Offered \cup {0}]
        BY <1>1, <1>3, <1>6 DEF PanelsInv, TypeKnown
    <2>3. reader'.job = "clear"  BY <1>2
    <2>4. QED  BY <1>1, <2>1, <2>2, <2>3 DEF PanelsInv, TypeKnown, user
<1>8. ReaderInv'
    <2>1. reader'.job = "clear" /\ reader'.left = Panel /\ changeCard'  BY <1>1, <1>2
    <2>2. reader' \in [job : Jobs, left : Seq(Pins), types : Types \cup {<<>>}]
        BY <1>2, ConstantFacts DEF Jobs
    <2>3. QED  BY <2>1, <2>2, ConstantFacts DEF ReaderInv
<1>9. WindowInv'
    <2>1. Reached' = {}  BY <1>2 DEF Reached, Pins
    <2>2. \A p \in Pins \ touched : appTypes'[p] > 0
        <3>1. \A p \in Pins \ touched : appTypes[p] > 0  BY DEF PanelsInv, WindowInv
        <3>2. \A t \in Offered : t > 0  BY ConstantFacts
        <3>3. \A p \in Pins : Tells(toApp[1], p) => appTypes'[p] > 0  BY <1>6, <3>2
        <3>4. QED  BY <1>3, <3>1, <3>3
    <2>3. QED  BY <1>1, <2>1, <2>2 DEF PanelsInv, WindowInv, user
<1>10. QED  BY <1>1, <1>4, <1>7, <1>8, <1>9 DEF PanelsInv, QueuesInv

LEMMA LeftFacts ==
    ASSUME NEW s \in Seq(Pins), s # <<>>
    PROVE  /\ Head(s) \in ToSet(s) /\ Head(s) \in Pins
           /\ Tail(s) \in Seq(Pins) /\ (Len(s) # 1 => Tail(s) # <<>>)
           /\ \A q \in Pins \ ToSet(Tail(s)) : q = Head(s) \/ q \notin ToSet(s)
           /\ Len(s) = 1 => \A q \in Pins : q = Head(s) \/ q \notin ToSet(s)
<1>1. Head(s) = s[1] /\ 1 \in DOMAIN s /\ Head(s) \in Pins  OBVIOUS
<1>2. Tail(s) \in Seq(Pins) /\ (Len(s) # 1 => Tail(s) # <<>>)
    <2>1. Tail(s) \in Seq(Pins) /\ Len(Tail(s)) = Len(s) - 1  OBVIOUS
    <2>2. Len(<<>>) = 0  OBVIOUS
    <2>3. QED  BY SMTT(30), <2>1, <2>2
<1>3. \A i \in DOMAIN s : i = 1 \/ (i - 1 \in DOMAIN Tail(s) /\ Tail(s)[i - 1] = s[i])  OBVIOUS
<1>4. \A q \in Pins \ ToSet(Tail(s)) : q = Head(s) \/ q \notin ToSet(s)
    BY <1>1, <1>3 DEF ToSet
<1>5. Len(s) = 1 => DOMAIN s = {1}  OBVIOUS
<1>6. QED  BY <1>1, <1>2, <1>4, <1>5 DEF ToSet

LEMMA ClearKeeps == PanelsInv /\ Clear => PanelsInv'
<1> SUFFICES ASSUME PanelsInv, Clear PROVE PanelsInv'  OBVIOUS
<1> DEFINE p == Head(reader.left)
<1>1. /\ reader.job = "clear"
      /\ combo' = [combo EXCEPT ![p] = -1]
      /\ card' = IF combo[p] >= 0 THEN IF changeCard THEN [card EXCEPT ![p] = combo[p]] ELSE card
                 ELSE card
      /\ reader' = [reader EXCEPT !.job = "select"]
      /\ UNCHANGED <<station, appTypes, changeCard, last, user>>
    BY DEF Clear, Shown
<1>2. /\ reader.left \in Seq(Pins) /\ reader.left # <<>> /\ changeCard
      /\ reader \in [job : Jobs, left : Seq(Pins), types : Types \cup {<<>>}]
    BY <1>1 DEF PanelsInv, ReaderInv
<1>3. p \in Pins /\ p \in ToSet(reader.left)  BY <1>2, LeftFacts
<1>4. /\ reader'.job = "select" /\ reader'.left = reader.left
      /\ reader' \in [job : Jobs, left : Seq(Pins), types : Types \cup {<<>>}]
    BY <1>1, <1>2 DEF Jobs
<1>5. combo'[p] = -1 /\ \A q \in Pins : q # p => combo'[q] = combo[q] /\ card'[q] = card[q]
    BY <1>1, <1>3 DEF PanelsInv, TypeKnown
<1> HIDE DEF p
<1>6. TypeKnown'
    BY <1>1, <1>3, <1>4 DEF PanelsInv, TypeKnown, station, user
<1>7. QueuesInv' /\ FlowInv'  BY <1>1, Parts DEF PanelsInv, QueuesInv, station
<1>8. ReaderInv'  BY <1>1, <1>2, <1>4, <1>5 DEF ReaderInv, p
<1>9. WindowInv'
    <2>1. Reached' = Reached /\ p \notin Reached /\ Reached \subseteq Pins
        BY <1>1, <1>3, <1>4 DEF Reached
    <2>2. \A q \in Pins : combo'[q] + 1 \in Offered \cup {0}
        BY <1>5 DEF PanelsInv, WindowInv
    <2>3. QED  BY <1>1, <1>5, <2>1, <2>2 DEF PanelsInv, WindowInv, user
<1>10. QED  BY <1>6, <1>7, <1>8, <1>9 DEF PanelsInv

LEMMA SelectKeeps == PanelsInv /\ Select => PanelsInv'
<1> SUFFICES ASSUME PanelsInv, Select PROVE PanelsInv'  OBVIOUS
<1> DEFINE p == Head(reader.left)  index == appTypes[p] - 1
<1>1. /\ reader.job = "select"
      /\ combo' = [combo EXCEPT ![p] = index]
      /\ card' = IF index >= 0 /\ index # combo[p]
                 THEN IF changeCard THEN [card EXCEPT ![p] = index] ELSE card
                 ELSE card
      /\ touched' = IF appTypes[p] > 0 THEN touched \ {p} ELSE touched
      /\ reader' = IF Len(reader.left) = 1 THEN [Idle EXCEPT !.job = "shown"]
                   ELSE [reader EXCEPT !.job = "clear", !.left = Tail(@)]
      /\ UNCHANGED <<station, appTypes, changeCard, last, started, given>>
    BY DEF Select, Shown
<1>2. /\ reader.left \in Seq(Pins) /\ reader.left # <<>> /\ changeCard
      /\ reader \in [job : Jobs, left : Seq(Pins), types : Types \cup {<<>>}]
      /\ combo[p] = -1 \/ card[p] = combo[p]
    BY <1>1 DEF PanelsInv, ReaderInv
<1>3. p \in Pins  BY <1>2, LeftFacts
<1>4. appTypes[p] \in Offered \cup {0} /\ appTypes[p] \in 0..3 /\ index \in -1..2
    <2>1. appTypes[p] \in Offered \cup {0}  BY <1>3 DEF PanelsInv, TypeKnown
    <2>2. Offered \cup {0} \subseteq 0..3
        <3>1. \A t \in 1..3 : t \in 0..3  OBVIOUS
        <3>2. QED  BY <3>1, ConstantFacts
    <2>3. appTypes[p] \in 0..3  BY <2>1, <2>2
    <2>4. QED  BY <2>1, <2>3
<1>5. /\ reader'.job \in {"shown", "clear"}
      /\ reader'.job = "clear" => reader'.left = Tail(reader.left) /\ reader'.left # <<>>
      /\ reader'.job = "shown" => Len(reader.left) = 1
      /\ reader' \in [job : Jobs, left : Seq(Pins), types : Types \cup {<<>>}]
    <2>1. CASE Len(reader.left) = 1
        <3>1. reader' = [job |-> "shown", left |-> <<>>, types |-> <<>>]  BY <1>1, <2>1 DEF Idle
        <3>2. <<>> \in Seq(Pins)  OBVIOUS
        <3>3. QED  BY <2>1, <3>1, <3>2 DEF Jobs
    <2>2. CASE Len(reader.left) # 1
        <3>1. reader' = [job |-> "clear", left |-> Tail(reader.left), types |-> reader.types]
            BY <1>1, <1>2, <2>2
        <3>2. QED  BY <1>2, <2>2, <3>1, LeftFacts DEF Jobs
    <2>3. QED  BY <2>1, <2>2
<1>6. /\ combo'[p] = index /\ \A q \in Pins : q # p => combo'[q] = combo[q] /\ card'[q] = card[q]
      /\ index >= 0 => card'[p] = index
    BY <1>1, <1>2, <1>3, <1>4 DEF PanelsInv, TypeKnown
<1>7. TypeKnown'
    <2>1. combo' \in [Pins -> -1..2] /\ card' \in [Pins -> 0..2]
        BY <1>1, <1>3, <1>4 DEF PanelsInv, TypeKnown
    <2>2. QED  BY <1>1, <1>5, <2>1 DEF PanelsInv, TypeKnown, station
<1>8. QueuesInv' /\ FlowInv'  BY <1>1, Parts DEF PanelsInv, QueuesInv, station
<1>9. ReaderInv'  BY <1>1, <1>2, <1>5 DEF ReaderInv
<1>10. WindowInv'
    <2>1. \A q \in Reached' : q \in Pins /\ (q = p \/ q \in Reached)
        BY <1>1, <1>2, <1>5, LeftFacts DEF Reached
    <2>2. \A q \in Pins \ touched' : appTypes'[q] > 0
        BY <1>1 DEF PanelsInv, WindowInv
    <2>3. \A q \in Pins : combo'[q] + 1 \in Offered \cup {0}
        BY <1>3, <1>4, <1>6 DEF PanelsInv, WindowInv
    <2>4. ASSUME NEW q \in Reached' \ touched'
          PROVE  combo'[q] = appTypes'[q] - 1 /\ card'[q] = combo'[q]
        <3>1. CASE q = p
            <4>1. index >= 0  BY <1>1, <1>4, <2>1, <2>2, <2>4, <3>1
            <4>2. QED  BY <1>1, <1>6, <3>1, <4>1
        <3>2. CASE q # p
            <4>1. q \in Pins /\ q \in Reached \ touched  BY <1>1, <2>1, <2>4, <3>2
            <4>2. combo[q] = appTypes[q] - 1 /\ card[q] = combo[q]
                BY <4>1 DEF PanelsInv, WindowInv
            <4>3. QED  BY <1>1, <1>6, <3>2, <4>1, <4>2
        <3>3. QED  BY <3>1, <3>2
    <2>5. DOMAIN last' = Pins /\ \A q \in Pins : last'[q].own => last'[q].card = last'[q].type - 1
        BY <1>1 DEF PanelsInv, WindowInv
    <2>6. QED  BY <2>2, <2>3, <2>4, <2>5 DEF WindowInv
<1>11. QED  BY <1>7, <1>8, <1>9, <1>10 DEF PanelsInv

LEMMA RevalidatedKeeps == PanelsInv /\ Revalidated => PanelsInv'
<1> SUFFICES ASSUME PanelsInv, Revalidated PROVE PanelsInv'  OBVIOUS
<1>1. /\ reader.job = "shown" /\ changeCard' = FALSE
      /\ reader' = [job |-> "idle", left |-> <<>>, types |-> <<>>]
      /\ UNCHANGED <<station, appTypes, combo, card, last, user>>
    BY DEF Revalidated, Idle
<1>2. changeCard' \in BOOLEAN  BY <1>1, Zenon
<1>3. TypeKnown'  BY <1>1, <1>2 DEF PanelsInv, TypeKnown, station, user
<1>4. QueuesInv' /\ FlowInv'  BY <1>1, Parts DEF PanelsInv, QueuesInv, station
<1>5. <<>> \in Seq(Pins)  OBVIOUS
<1>6. ReaderInv'  BY <1>1, <1>5 DEF ReaderInv, Jobs
<1>7. Reached' = Reached  BY <1>1 DEF Reached
<1>8. WindowInv'  BY <1>1, <1>7 DEF PanelsInv, WindowInv, user
<1>9. QED  BY <1>3, <1>4, <1>6, <1>8 DEF PanelsInv

LEMMA TakeValuesKeeps == PanelsInv /\ TakeValues => PanelsInv'
<1> SUFFICES ASSUME PanelsInv, TakeValues PROVE PanelsInv'  OBVIOUS
<1>1. /\ reader = Idle /\ toApp # <<>> /\ toApp \in Seq(Messages) /\ toApp[1].k = "V"
      /\ toApp' = Tail(toApp)
      /\ reader' = [job |-> "add", left |-> Panel, types |-> toApp[1].types]
      /\ UNCHANGED <<types, stream, toStation, appTypes, combo, card, changeCard, last, user>>
    BY DEF TakeValues, PanelsInv, QueuesInv
<1>2. toApp[1] \in Messages /\ toApp[1].types \in Types  BY <1>1, MessageFacts
<1>3. \A p \in Pins : ~Tells(toApp[1], p)  BY <1>1 DEF Tells
<1>4. toApp' \in Seq(Messages) /\ FlowInv'  BY <1>1, <1>3, TakeFlow
<1>5. TypeKnown'  BY <1>1 DEF PanelsInv, TypeKnown, user
<1>6. ASSUME NEW p \in Pins PROVE appTypes[p] \in {0, toApp[1].types[p]}
    <2>1. Known(toApp, appTypes, 1, p, toApp[1].types[p])
        BY <1>1 DEF PanelsInv, FlowInv
    <2>2. QED  BY <2>1 DEF Known
<1>7. ReaderInv'
    <2>1. reader' \in [job : Jobs, left : Seq(Pins), types : Types \cup {<<>>}]
        BY <1>1, <1>2, ConstantFacts DEF Jobs
    <2>2. reader'.job = "add" /\ reader'.left # <<>> /\ reader'.types = toApp[1].types
        BY <1>1, ConstantFacts
    <2>3. QED  BY <1>1, <1>6, <2>1, <2>2 DEF ReaderInv
<1>8. Reached' = Reached  BY <1>1 DEF Reached, Idle
<1>9. WindowInv'  BY <1>1, <1>8 DEF PanelsInv, WindowInv, user
<1>10. QED  BY <1>1, <1>4, <1>5, <1>7, <1>9 DEF PanelsInv, QueuesInv

LEMMA AddValueKeeps == PanelsInv /\ AddValue => PanelsInv'
<1> SUFFICES ASSUME PanelsInv, AddValue PROVE PanelsInv'  OBVIOUS
<1> DEFINE p == Head(reader.left)
           point == [card |-> combo[p], type |-> reader.types[p], own |-> p \notin touched]
<1>1. /\ reader.job = "add"
      /\ last' = last \/ last' = [last EXCEPT ![p] = point]
      /\ reader' = Idle \/ (Len(reader.left) # 1 /\ reader' = [reader EXCEPT !.left = Tail(@)])
      /\ UNCHANGED <<station, appTypes, combo, card, changeCard, user>>
    BY DEF AddValue
<1>2. /\ reader.left \in Seq(Pins) /\ reader.left # <<>>
      /\ reader \in [job : Jobs, left : Seq(Pins), types : Types \cup {<<>>}]
      /\ \A q \in Pins : appTypes[q] \in {0, reader.types[q]}
    BY <1>1 DEF PanelsInv, ReaderInv
<1>3. p \in Pins /\ Tail(reader.left) \in Seq(Pins)
      /\ (Len(reader.left) # 1 => Tail(reader.left) # <<>>)
    BY <1>2, LeftFacts
<1>4. /\ reader' \in [job : Jobs, left : Seq(Pins), types : Types \cup {<<>>}]
      /\ \/ reader'.job = "idle"
         \/ reader'.job = "add" /\ reader'.left # <<>> /\ reader'.types = reader.types
    <2>1. CASE reader' = Idle
        <3>1. <<>> \in Seq(Pins)  OBVIOUS
        <3>2. QED  BY <2>1, <3>1 DEF Idle, Jobs
    <2>2. CASE Len(reader.left) # 1 /\ reader' = [reader EXCEPT !.left = Tail(@)]
        <3>1. reader' = [job |-> "add", left |-> Tail(reader.left), types |-> reader.types]
            BY <1>1, <1>2, <2>2
        <3>2. reader.types \in Types \cup {<<>>}  BY <1>2
        <3>3. reader' \in [job : Jobs, left : Seq(Pins), types : Types \cup {<<>>}]
            BY <1>3, <3>1, <3>2 DEF Jobs
        <3>4. reader'.job = "add" /\ reader'.left # <<>> /\ reader'.types = reader.types
            BY <1>3, <2>2, <3>1
        <3>5. QED  BY <3>3, <3>4
    <2>3. QED  BY <1>1, <2>1, <2>2
<1>5. TypeKnown'  BY <1>1, <1>4 DEF PanelsInv, TypeKnown, station, user
<1>6. QueuesInv' /\ FlowInv'  BY <1>1, Parts DEF PanelsInv, QueuesInv, station
<1>7. ReaderInv'  BY <1>1, <1>2, <1>4 DEF ReaderInv
<1>8. p \notin touched => combo[p] = reader.types[p] - 1
    <2>1. Reached = Pins  BY <1>1 DEF Reached
    <2>2. p \notin touched => combo[p] = appTypes[p] - 1 /\ appTypes[p] > 0
        BY <1>3, <2>1 DEF PanelsInv, WindowInv
    <2>3. QED  BY <1>2, <1>3, <2>2
<1>9. point.own => point.card = point.type - 1  BY <1>8
<1> HIDE DEF point
<1>10. DOMAIN last' = Pins /\ \A q \in Pins : last'[q].own => last'[q].card = last'[q].type - 1
    BY <1>1, <1>3, <1>9 DEF PanelsInv, WindowInv
<1>11. Reached' = Reached  BY <1>1, <1>4 DEF Reached
<1>12. WindowInv'  BY <1>1, <1>10, <1>11 DEF PanelsInv, WindowInv, user
<1>13. QED  BY <1>5, <1>6, <1>7, <1>12 DEF PanelsInv

-----------------------------------------------------------------------------
LEMMA PanelsHold == Spec => []PanelsInv
<1>1. PanelsInv /\ [Next]_vars => PanelsInv'
    <2> SUFFICES ASSUME PanelsInv, [Next]_vars PROVE PanelsInv'  OBVIOUS
    <2>1. CASE Orderings  BY <2>1, OrderingsKeep
    <2>2. CASE \E p \in Pins : \E t \in Offered : Choose(p, t - 1)  BY <2>2, ChooseKeeps
    <2>3. CASE Receive \/ Stream \/ Measure \/ Greet
        BY <2>3, ReceiveKeeps, MeasureKeeps, GreetKeeps
    <2>4. CASE TakeTables \/ Clear \/ Select \/ Revalidated \/ TakeValues \/ AddValue
        BY <2>4, TakeTablesKeeps, ClearKeeps, SelectKeeps, RevalidatedKeeps, TakeValuesKeeps,
           AddValueKeeps
    <2>5. CASE UNCHANGED vars  BY <2>5, PanelsStand
    <2>6. QED  BY <2>1, <2>2, <2>3, <2>4, <2>5, ConstantFacts DEF Next, Orderings
<1>2. QED  BY <1>1, PanelsStart, PTL DEF Spec

\* For any panels in any order, any number of commands and messages, and wherever the thread
\* of the serial library and the user come between each other (SensApl.java:97-147): a combo
\* box the user has left alone since the last table shows the card of the pin's type, and a
\* value is plotted on the card of the type it was measured under.
THEOREM PanelsFollowHolds == Spec => []PanelsFollow
<1>1. PanelsInv => PanelsFollow
    <2> SUFFICES ASSUME PanelsInv PROVE PanelsFollow  OBVIOUS
    <2>1. reader.job \notin {"clear", "select"} => Reached = Pins  BY DEF Reached
    <2>2. QED  BY <2>1 DEF PanelsInv, PanelsFollow, WindowInv
<1>2. QED  BY <1>1, PanelsHold, PTL

-----------------------------------------------------------------------------
\* A command is taken from the queue: what comes first may become what the station does.
LEMMA TailStream ==
    ASSUME NoStrayStream, toStation \in Seq(Orders), toStation # <<>>,
           toStation' = Tail(toStation), started' = started,
           stream' # Nobody => (toStation[1].k = "stream"
                                 \/ (stream # Nobody /\ toStation[1].k # "W"))
    PROVE  NoStrayStream'
<1>1. /\ Len(toStation') = Len(toStation) - 1 /\ Len(toStation) \in Nat
      /\ \A i \in 1 .. Len(toStation) - 1 : toStation'[i] = toStation[i + 1]
  OBVIOUS
<1> SUFFICES ASSUME started = {}, NEW i \in 0 .. Len(toStation'), Streams(i)'
             PROVE  \E j \in i + 1 .. Len(toStation') : toStation'[j].k = "W"
  BY DEF NoStrayStream
<1>2. ASSUME NEW j \in i + 2 .. Len(toStation), toStation[j].k = "W"
      PROVE  \E l \in i + 1 .. Len(toStation') : toStation'[l].k = "W"
  <2>1. j - 1 \in i + 1 .. Len(toStation') /\ toStation'[j - 1] = toStation[j]
    BY <1>1
  <2> QED BY <1>2, <2>1
<1>3. \E j \in i + 2 .. Len(toStation) : toStation[j].k = "W"
  <2>1. CASE i > 0
    <3>1. i + 1 \in 1 .. Len(toStation) /\ Streams(i + 1)
      BY <1>1, <2>1 DEF Streams
    <3> QED BY <3>1 DEF NoStrayStream
  <2>2. CASE i = 0 /\ toStation[1].k = "stream"
    <3>1. 1 \in 0 .. Len(toStation) /\ Streams(1)
      BY <1>1, <2>2 DEF Streams
    <3> QED BY <2>2, <3>1 DEF NoStrayStream
  <2>3. CASE i = 0 /\ stream # Nobody /\ toStation[1].k # "W"
    <3>1. 0 \in 0 .. Len(toStation) /\ Streams(0)
      BY <1>1, <2>3 DEF Streams
    <3>2. PICK j \in 1 .. Len(toStation) : toStation[j].k = "W"
      BY <3>1 DEF NoStrayStream
    <3>3. j # 1  BY <2>3, <3>2
    <3> QED BY <2>3, <3>2, <3>3
  <2>4. i = 0 => stream' # Nobody  BY DEF Streams
  <2> QED BY <2>1, <2>2, <2>3, <2>4, <1>1
<1> QED BY <1>2, <1>3

\* A command is given: the station comes to it last.
LEMMA AppendStream ==
    ASSUME NEW c \in Orders, toStation \in Seq(Orders), toStation' = Append(toStation, c),
           stream' = stream,
           started' = {} => (NoStrayStream /\ started = {} /\ c.k # "stream") \/ c.k = "W"
    PROVE  NoStrayStream'
<1>1. /\ Len(toStation') = Len(toStation) + 1 /\ Len(toStation) \in Nat
      /\ \A i \in 1 .. Len(toStation) : toStation'[i] = toStation[i]
      /\ toStation'[Len(toStation) + 1] = c
  OBVIOUS
<1> SUFFICES ASSUME started' = {}, NEW i \in 0 .. Len(toStation'), Streams(i)'
             PROVE  \E j \in i + 1 .. Len(toStation') : toStation'[j].k = "W"
  BY DEF NoStrayStream
<1>2. c.k # "stream"  OBVIOUS
<1>3. i \in 0 .. Len(toStation) /\ Streams(i)
  BY <1>1, <1>2 DEF Streams
<1>4. CASE c.k = "W"
  <2>1. Len(toStation) + 1 \in i + 1 .. Len(toStation')  BY <1>1, <1>3
  <2> QED BY <1>1, <1>4, <2>1
<1>5. CASE NoStrayStream /\ started = {}
  <2>1. PICK j \in i + 1 .. Len(toStation) : toStation[j].k = "W"
    BY <1>3, <1>5 DEF NoStrayStream
  <2>2. j \in i + 1 .. Len(toStation') /\ toStation'[j] = toStation[j]
    BY <1>1, <1>3
  <2> QED BY <2>1, <2>2
<1> QED BY <1>4, <1>5

LEMMA NoStrayKeeps == PanelsInv /\ NoStrayStream /\ [Next]_vars => NoStrayStream'
<1> SUFFICES ASSUME PanelsInv, NoStrayStream, [Next]_vars PROVE NoStrayStream'  OBVIOUS
<1>1. toStation \in Seq(Orders)  BY DEF PanelsInv, QueuesInv
<1>2. ASSUME NEW p \in Pins, Upload(p) PROVE NoStrayStream'
  <2>1. combo[p] + 1 \in Offered
    BY <1>2, ConstantFacts DEF Upload, PanelsInv, WindowInv, TypeKnown
  <2> DEFINE c == [k |-> "T", pin |-> p, n |-> combo[p] + 1]
  <2>2. c \in Orders /\ c.k # "stream"  BY <2>1 DEF Orders
  <2>3. toStation' = Append(toStation, c) /\ stream' = stream /\ started' = started
    BY <1>2 DEF Upload, Command, Write
  <2> HIDE DEF c
  <2> QED BY <1>1, <2>2, <2>3, AppendStream
<1>3. ASSUME NEW b \in Bars, StartCalib(b) PROVE NoStrayStream'
  <2>1. started' # {}  BY <1>3 DEF StartCalib
  <2> QED BY <2>1 DEF NoStrayStream
<1>4. ASSUME NEW b \in Bars, StopCalib(b) PROVE NoStrayStream'
  <2> DEFINE c == [k |-> "W", pin |-> b, n |-> 0]
  <2>1. c \in Orders /\ c.k = "W"  BY DEF Orders
  <2>2. toStation' = Append(toStation, c) /\ stream' = stream
    BY <1>4 DEF StopCalib, Write
  <2> HIDE DEF c
  <2> QED BY <1>1, <2>1, <2>2, AppendStream
<1>5. ASSUME NEW b \in Bars, SendConstants(b) PROVE NoStrayStream'
  <2> DEFINE c == [k |-> "constants", pin |-> b, n |-> 0]
  <2>1. c \in Orders /\ c.k # "stream"  BY DEF Orders
  <2>2. toStation' = Append(toStation, c) /\ stream' = stream /\ started' = started
    BY <1>5 DEF SendConstants, Command, Write
  <2> HIDE DEF c
  <2> QED BY <1>1, <2>1, <2>2, AppendStream
<1>6. CASE Receive
  <2>1. /\ stream = Nobody /\ toStation # <<>> /\ toStation' = Tail(toStation)
        /\ stream' = IF toStation[1].k = "stream" THEN toStation[1].pin ELSE Nobody
        /\ started' = started
    BY <1>1, <1>6 DEF Receive, user
  <2> QED BY <1>1, <2>1, TailStream
<1>7. CASE Stream
  <2>1. /\ stream # Nobody /\ toStation # <<>> /\ toStation' = Tail(toStation)
        /\ stream' = IF toStation[1].k = "W" THEN Nobody ELSE stream
        /\ started' = started
    BY <1>1, <1>7 DEF Stream, user
  <2> QED BY <1>1, <2>1, TailStream
<1>8. ASSUME UNCHANGED <<toStation, stream, started>> PROVE NoStrayStream'
  BY <1>8 DEF NoStrayStream, Streams
<1>9. CASE \/ \E p \in Pins : \E t \in Offered : Choose(p, t - 1)
           \/ Measure \/ Greet \/ TakeTables \/ Clear \/ Select \/ Revalidated \/ TakeValues
           \/ AddValue \/ UNCHANGED vars
  <2>1. UNCHANGED <<toStation, stream, started>>
    BY <1>9 DEF Choose, Measure, Greet, TakeTables, Clear, Select, Revalidated, TakeValues,
       AddValue, vars, station, user
  <2> QED BY <1>8, <2>1
<1> QED BY <1>2, <1>3, <1>4, <1>5, <1>6, <1>7, <1>9 DEF Next

\* With any number of bars, started and stopped in any order, among any other commands
\* (CalibrationBar.java:195, Serial.h:145-172): once no bar is started, every stream that the
\* station is in or will still come to is ended by a 'W' behind it in the queue, so that
\* constants sent from then on are stored and not eaten.
THEOREM NoStrayStreamHolds == Spec => []NoStrayStream
<1>1. Init => NoStrayStream
  <2> SUFFICES ASSUME Init PROVE NoStrayStream  OBVIOUS
  <2>1. stream = Nobody /\ toStation = <<>> /\ Len(<<>>) = 0  BY DEF Init
  <2> QED BY <2>1 DEF NoStrayStream, Streams
<1>2. QED  BY <1>1, NoStrayKeeps, PanelsHold, PTL DEF Spec

=============================================================================
