------------------------------- MODULE Panels -------------------------------
(***************************************************************************)
(* The panels of SensApl: one for each pin, with a combo box of sensor     *)
(* types, a stack of cards, one of them shown, and on the cards of pH and  *)
(* EC a calibration bar (AnalogTabPanel, DigitalTabPanel, I2CTabPanel,     *)
(* TabPanel, CalibrationBar). The user works on the event dispatch thread  *)
(* while the thread of the serial library, without any lock, revalidates   *)
(* the same panels from what the station says (SensApl.java:97-147).       *)
(*                                                                         *)
(* Contact is held throughout, and no byte is lost: Session has the rest.  *)
(* A command is one token on its way to the station, since the station     *)
(* waits for all bytes of one, and its stream eats them all. The station's *)
(* types are among those the combo boxes offer.                            *)
(***************************************************************************)
EXTENDS Integers, Sequences, SequencesExt

CONSTANTS
    Panel,          \* the panels in the order they are revalidated
    Bars,           \* the panels that have a calibration bar
    Offered,        \* the types a combo box offers: 1 is "N/A"
    MaxCommands, MaxMessages    \* bounds: commands of the user, messages unread

ASSUME PanelAssumption == Panel \in Seq({"A", "I", "D"}) \ {<<>>} /\ IsInjective(Panel)
ASSUME BarsAssumption == Bars \subseteq {"A", "D"} \cap ToSet(Panel)
ASSUME OfferedAssumption == Offered \in {1..2, 1..3}
ASSUME BoundsAssumption == MaxCommands \in Nat /\ MaxMessages \in Nat

Pins == ToSet(Panel)
Nobody == "nobody"

VARIABLES
    types, stream, toStation,       \* the station: its tables, whose pin it streams
    toApp,                          \* messages to SensApl
    appTypes, combo, card,          \* SensApl: the tables, the selected index, the card shown
    changeCard, reader,             \* changeCard; what serialEvent has left to do
    started,                        \* the bars whose start button is pressed
    touched,                        \* the combo boxes used since the last table came
    last,                           \* the latest point of each panel's plots
    given                           \* commands given; a stop is not counted

station == <<types, stream, toStation, toApp>>
window == <<appTypes, combo, card, changeCard, reader, last>>
user == <<started, touched, given>>
vars == <<station, window, user>>

Idle == [job |-> "idle", left |-> <<>>, types |-> <<>>]
NoPoint == [card |-> 0, type |-> 1, own |-> FALSE]

Init ==
    /\ types \in [Pins -> Offered]
    /\ stream = Nobody /\ toStation = <<>> /\ toApp = <<>>
    /\ appTypes = [p \in Pins |-> 0]
    /\ combo = [p \in Pins |-> 0] /\ card = [p \in Pins |-> 0]
    /\ changeCard = FALSE /\ reader = Idle
    /\ started = {} /\ touched = Pins /\ given = 0
    /\ last = [p \in Pins |-> NoPoint]

-----------------------------------------------------------------------------
(* The user, on the event dispatch thread. *)

Write(token) ==
    /\ toStation' = Append(toStation, token)
    /\ UNCHANGED <<types, stream, toApp, window>>
Command(token) == given < MaxCommands /\ given' = given + 1 /\ Write(token)

\* itemStateChanged(): the card follows the combo box only while the tables are shown.
Shown(p, index) == IF changeCard THEN [card EXCEPT ![p] = index] ELSE card

Choose(p, index) ==
    /\ given < MaxCommands
    /\ index # combo[p]
    /\ given' = given + 1
    /\ combo' = [combo EXCEPT ![p] = index]
    /\ card' = Shown(p, index)
    /\ touched' = touched \cup {p}
    /\ UNCHANGED <<station, appTypes, changeCard, reader, last, started>>

\* The set button: what is chosen goes to the station, the table comes back.
Upload(p) ==
    /\ combo[p] >= 0
    /\ Command([k |-> "T", pin |-> p, n |-> combo[p] + 1])
    /\ UNCHANGED <<started, touched>>

StartCalib(b) ==
    /\ b \notin started
    /\ Command([k |-> "stream", pin |-> b, n |-> 0])
    /\ started' = started \cup {b}
    /\ UNCHANGED touched

StopCalib(b) ==
    /\ b \in started
    /\ Write([k |-> "W", pin |-> b, n |-> 0])
    /\ started' = started \ {b}
    /\ UNCHANGED <<touched, given>>

\* The send button is disabled while its own bar is started; another may be.
SendConstants(b) ==
    /\ b \notin started
    /\ Command([k |-> "constants", pin |-> b, n |-> 0])
    /\ UNCHANGED <<started, touched>>

-----------------------------------------------------------------------------
(* The station. *)

\* The tables are told together: the analog with the I2C one, the digital ones alone.
Told(p) == IF p = "D" THEN Pins \cap {"D"} ELSE Pins \ {"D"}
Tables(of, t) == [k |-> "T", types |-> [p \in of |-> t[p]]]

Receive ==
    /\ stream = Nobody /\ toStation # <<>>
    /\ LET c == Head(toStation) IN
       /\ types' = IF c.k = "T" THEN [types EXCEPT ![c.pin] = c.n] ELSE types
       /\ toApp' = IF c.k = "T" THEN Append(toApp, Tables(Told(c.pin), types')) ELSE toApp
       /\ stream' = IF c.k = "stream" THEN c.pin ELSE Nobody
    /\ toStation' = Tail(toStation)
    /\ UNCHANGED <<window, user>>

\* One turn of the stream: a reading is sent (and fits no case of upgradePHsignal and
\* upgradeECsignal), a byte is read and, but for 'W', dropped.
FaultyStream ==             \* empties the receive buffer first
    /\ stream # Nobody /\ toStation # <<>>
    /\ stream' = IF Last(toStation).k = "W" THEN Nobody ELSE stream
    /\ toStation' = <<>>
    /\ UNCHANGED <<types, toApp, window, user>>
Stream ==
    /\ stream # Nobody /\ toStation # <<>>
    /\ stream' = IF Head(toStation).k = "W" THEN Nobody ELSE stream
    /\ toStation' = Tail(toStation)
    /\ UNCHANGED <<types, toApp, window, user>>

\* A pass of the loop; the handshake has the tables sent, before any values.
Measure ==
    /\ stream = Nobody
    /\ Len(toApp) < MaxMessages
    /\ toApp' = Append(toApp, [k |-> "V", types |-> types])
    /\ UNCHANGED <<types, stream, toStation, window, user>>
Greet ==
    /\ stream = Nobody
    /\ toApp = <<>>
    /\ toApp' = toApp \o <<Tables(Told("A"), types), Tables(Told("D"), types)>>
    /\ UNCHANGED <<types, stream, toStation, window, user>>

-----------------------------------------------------------------------------
(* The thread of the serial library. *)

TakeTables ==
    /\ reader = Idle /\ toApp # <<>> /\ Head(toApp).k = "T"
    /\ appTypes' = [p \in Pins |->
          IF p \in DOMAIN Head(toApp).types THEN Head(toApp).types[p] ELSE appTypes[p]]
    /\ toApp' = Tail(toApp)
    /\ changeCard' = TRUE
    /\ reader' = [Idle EXCEPT !.job = "clear", !.left = Panel]
    /\ UNCHANGED <<types, stream, toStation, combo, card, last, user>>

\* retype(): setSelectedItem(null), whose event shows the card of the item deselected, so
\* that setSelectedIndex() is a change and shows its card even if it was chosen before.
FaultyClear ==              \* leaves the selection as it is
    /\ reader.job = "clear"
    /\ reader' = [reader EXCEPT !.job = "select"]
    /\ UNCHANGED <<station, appTypes, combo, card, changeCard, last, user>>
Clear ==
    /\ reader.job = "clear"
    /\ LET p == Head(reader.left) IN
       /\ combo' = [combo EXCEPT ![p] = -1]
       /\ card' = IF combo[p] >= 0 THEN Shown(p, combo[p]) ELSE card
    /\ reader' = [reader EXCEPT !.job = "select"]
    /\ UNCHANGED <<station, appTypes, changeCard, last, user>>
Select ==
    /\ reader.job = "select"
    /\ LET p == Head(reader.left)  index == appTypes[p] - 1 IN
       /\ combo' = [combo EXCEPT ![p] = index]
       /\ card' = IF index >= 0 /\ index # combo[p] THEN Shown(p, index) ELSE card
       /\ touched' = IF appTypes[p] > 0 THEN touched \ {p} ELSE touched
    /\ reader' = IF Len(reader.left) = 1 THEN [Idle EXCEPT !.job = "shown"]
                 ELSE [reader EXCEPT !.job = "clear", !.left = Tail(@)]
    /\ UNCHANGED <<station, appTypes, changeCard, last, started, given>>
Revalidated ==
    /\ reader.job = "shown"
    /\ changeCard' = FALSE
    /\ reader' = Idle
    /\ UNCHANGED <<station, appTypes, combo, card, last, user>>

TakeValues ==
    /\ reader = Idle /\ toApp # <<>> /\ Head(toApp).k = "V"
    /\ toApp' = Tail(toApp)
    /\ reader' = [job |-> "add", left |-> Panel, types |-> Head(toApp).types]
    /\ UNCHANGED <<types, stream, toStation, appTypes, combo, card, changeCard, last, user>>

\* addValue(): the combo box says which plot. The cards of the I2C panel are null: with one
\* selected the exception ends the message, and the panels behind go without their values.
AddValue ==
    /\ reader.job = "add"
    /\ LET p == Head(reader.left)
           thrown == p = "I" /\ combo[p] > 0
       IN /\ last' = IF combo[p] > 0 /\ ~thrown
                     THEN [last EXCEPT ![p] = [card |-> combo[p], type |-> reader.types[p],
                                               own |-> p \notin touched]]
                     ELSE last
          /\ reader' = IF thrown \/ Len(reader.left) = 1 THEN Idle
                       ELSE [reader EXCEPT !.left = Tail(@)]
    /\ UNCHANGED <<station, appTypes, combo, card, changeCard, user>>

-----------------------------------------------------------------------------

Next ==
    \/ \E p \in Pins : Upload(p) \/ \E t \in Offered : Choose(p, t - 1)
    \/ \E b \in Bars : StartCalib(b) \/ StopCalib(b) \/ SendConstants(b)
    \/ Receive \/ Stream \/ Measure \/ Greet
    \/ TakeTables \/ Clear \/ Select \/ Revalidated \/ TakeValues \/ AddValue

Spec == Init /\ [][Next]_vars

-----------------------------------------------------------------------------

\* What the variables hold: -1 is the empty selection while a panel is retyped.
TypeKnown ==
    /\ types \in [Pins -> Offered] /\ appTypes \in [Pins -> Offered \cup {0}]
    /\ combo \in [Pins -> -1..2] /\ card \in [Pins -> 0..2]
    /\ changeCard \in BOOLEAN /\ started \subseteq Bars /\ touched \subseteq Pins
    /\ reader.job \in {"idle", "clear", "select", "shown", "add"}
    /\ stream \in Bars \cup {Nobody}

\* A panel whose combo box the user has left alone since the last table shows the card of
\* its type, and plots a value on the card of the type it was measured under: whatever was
\* chosen and not uploaded, uploaded twice, or chosen while the tables were being shown.
PanelsFollow ==
    /\ TypeKnown
    /\ \A p \in Pins \ touched :
          reader.job \notin {"clear", "select"} => combo[p] = appTypes[p] - 1 /\ card[p] = combo[p]
    /\ \A p \in Pins : last[p].own => last[p].card = last[p].type - 1

\* The station streams now (0), or will begin to with command i.
Streams(i) == IF i = 0 THEN stream # Nobody ELSE toStation[i].k = "stream"

\* When no bar is started, the station will have left its stream before it reads what the
\* user does next, so that constants sent then are stored and not eaten: although two bars
\* may be started, and the first stop ends a stream that the second still waits for.
NoStrayStream ==
    started = {} =>
      \A i \in 0 .. Len(toStation) :
        Streams(i) => \E j \in i + 1 .. Len(toStation) : toStation[j].k = "W"

=============================================================================
