-------------------------------- MODULE Menu --------------------------------
(***************************************************************************)
(* The station's menus (Menu.h): functions that call each other and wait   *)
(* for a key. The state is the C stack of the menus under way with the     *)
(* globals they share. An action is what one key does, up to the next wait *)
(* or call, or what a menu does when the one it called has returned. What  *)
(* the menus set is here only as far as it is a type of a pin: delays and  *)
(* constants are in Settings.                                              *)
(***************************************************************************)
EXTENDS Integers, Sequences, SequencesExt, FiniteSetsExt

CONSTANTS
    PinMenuLength,      \* for each table: the items of PinConectMenu, title included
    TypeMenuLength,     \* AnalogMenuLength, DigitalMenuLength, I2CMenuLength
    Outside,            \* indices for which CalibMenu reads outside digitalTypeArray
                        \* and finds there what stands for EC
    MaxDepth            \* bounds the stack; in the station the RAM does

Tables == 1..3          \* analog, digital, I2C: the items of ConectMenu
PH == 2
EC == 4
SizeofAnalog == PinMenuLength[1]        \* position 0 of an array is not used
MaxIndex == PinMenuLength[1] + PinMenuLength[2]

ASSUME MenuLengthAssumption ==
    /\ PinMenuLength \in [Tables -> 2..5]
    /\ TypeMenuLength \in [Tables -> 2..7]
\* The three or four bytes in front of the array count; the one behind it does not.
ASSUME OutsideAssumption == Outside \subseteq 0..(SizeofAnalog - 1)
ASSUME MaxDepthAssumption == MaxDepth \in Nat \ {0}

VARIABLES
    stack,          \* the menus under way, each with its own n
    at,             \* "key": the top one waits for a key; "back": its callee has returned
    showStatus,     \* the menu is open
    returning,      \* something has been done: back to the main menu
    firstRun,       \* tells loop() that the menu was open
    level, path,    \* the globals in which the items chosen are handed on
    types           \* the type arrays

vars == <<stack, at, showStatus, returning, firstRun, level, path, types>>
control == <<showStatus, returning, firstRun>>

Pins(t) == 1..(PinMenuLength[t] - 1)
TypesOf(t) == 1..(TypeMenuLength[t] - 1)

\* n is the item highlighted, and afterwards the one chosen (0 for KeyBack); in CalibMenu
\* the index; in a step of the calibration the pin. type is that of the calibration.
Frame(f, n, type) == [f |-> f, n |-> n, type |-> type]
Menu(f, preset) == Frame(f, preset, "none")

Top == Last(stack)
Waiting(f) == at = "key" /\ stack # <<>> /\ Top.f = f
Back(F) == at = "back" /\ stack # <<>> /\ Top.f \in F

\* The top menu has another n; having chosen n it calls another menu; or it returns.
WithTop(frame) == Append(Front(stack), frame)
WithN(n) == WithTop(Frame(Top.f, n, Top.type))
Call(n, frame) ==
    /\ Len(stack) < MaxDepth
    /\ stack' = Append(WithN(n), frame)
Return == stack' = Front(stack) /\ at' = "back"

\* Any types may be stored, by the menu before or by a client.
Init ==
    /\ stack = <<>> /\ at = "back"
    /\ showStatus = FALSE /\ returning = FALSE /\ firstRun = FALSE
    /\ level = 0 /\ path = [i \in 0..4 |-> 0]
    /\ \E a \in [Pins(1) -> TypesOf(1)], d \in [Pins(2) -> TypesOf(2)], i \in [Pins(3) -> TypesOf(3)] :
          types = <<a, d, i>>

-----------------------------------------------------------------------------
(* loop(), and the highlighting in makeMenu. *)

\* KeyBack opens the menu (which waits until it is released).
Open ==
    /\ stack = <<>> /\ ~firstRun
    /\ showStatus' = TRUE
    /\ stack' = <<Menu("MainMenu", 1)>> /\ at' = "key"
    /\ level' = 0
    /\ UNCHANGED <<returning, firstRun, path, types>>

\* loop() breaks its wait off and begins anew.
Loop ==
    /\ stack = <<>> /\ firstRun
    /\ firstRun' = FALSE
    /\ UNCHANGED <<stack, at, showStatus, returning, level, path, types>>

Lists == {"MainMenu", "ConectMenu", "PinConectMenu", "TypeMenu", "SetTimeMenu"}
Length(f) ==
    CASE f = "MainMenu" -> 5 [] f = "ConectMenu" -> 4 [] f = "SetTimeMenu" -> 6
      [] f = "PinConectMenu" -> PinMenuLength[path[1]]
      [] f = "TypeMenu" -> TypeMenuLength[path[1]]

Down(n, length) == IF n < 2 THEN length - 1 ELSE n - 1
FaultyUp(n, length) == IF n > length - 1 THEN 1 ELSE n + 1      \* one item too far
Up(n, length) == IF n > length - 2 THEN 1 ELSE n + 1

Highlight ==
    /\ at = "key" /\ stack # <<>> /\ Top.f \in Lists
    /\ \E n \in {Down(Top.n, Length(Top.f)), Up(Top.n, Length(Top.f))} :
          stack' = WithN(n)
    /\ UNCHANGED <<at, control, level, path, types>>

-----------------------------------------------------------------------------
(* Connecting a sensor: ConectMenu, PinConectMenu, TypeMenu. *)

ConectSel ==
    /\ Waiting("ConectMenu")
    /\ Call(Top.n, Menu("PinConectMenu", 1))
    /\ path' = [path EXCEPT ![level] = Top.n]
    /\ level' = 2
    /\ UNCHANGED <<at, control, types>>

\* KeyBack calls the menu above instead of returning to it.
ConectBack ==
    /\ Waiting("ConectMenu")
    /\ Call(0, Menu("MainMenu", 1))
    /\ level' = 0
    /\ UNCHANGED <<at, control, path, types>>

FaultyPinConectSel ==       \* overwrites the table
    /\ Waiting("PinConectMenu")
    /\ path' = [path EXCEPT ![level - 1] = Top.n]
    /\ Call(Top.n, Menu("TypeMenu", types[path[1]][Top.n]))
    /\ level' = 3
    /\ UNCHANGED <<at, control, types>>
PinConectSel ==
    /\ Waiting("PinConectMenu")
    /\ path' = [path EXCEPT ![level] = Top.n]
    /\ Call(Top.n, Menu("TypeMenu", types[path[1]][Top.n]))
    /\ level' = 3
    /\ UNCHANGED <<at, control, types>>

\* KeyBack in PinConectMenu or TypeMenu.
ToConectMenu ==
    /\ Waiting("PinConectMenu") \/ Waiting("TypeMenu")
    /\ Call(0, Menu("ConectMenu", 1))
    /\ level' = 1
    /\ UNCHANGED <<at, control, path, types>>

\* Assign() and done().
TypeSel ==
    /\ Waiting("TypeMenu")
    /\ path' = [path EXCEPT ![level] = Top.n]
    /\ types' = [types EXCEPT ![path[1]][path[2]] = Top.n]
    /\ returning' = TRUE
    /\ Return
    /\ UNCHANGED <<showStatus, firstRun, level>>

-----------------------------------------------------------------------------
(* Calibration: CalibMenu counts the positions of both arrays through, the *)
(* digital ones from SizeofAnalog on.                                      *)

Analog(i) == IF i \in Pins(1) THEN types[1][i] ELSE 1
Digital(i) ==
    IF i - SizeofAnalog \in Pins(2) THEN types[2][i - SizeofAnalog]
    ELSE IF i \in Outside THEN EC ELSE 1

\* index-sizeof(analogTypeArray) is unsigned: it is above 0 for the analog pins, too.
Clibrateable(i) == (i # SizeofAnalog /\ Digital(i) = EC) \/ (i < SizeofAnalog /\ Analog(i) = PH)

\* checkAndPrintType()
CheckType(i) ==
    CASE i < SizeofAnalog /\ Analog(i) = PH -> "PH"
      [] ~(i < SizeofAnalog /\ Analog(i) = PH) /\ i # SizeofAnalog /\ Digital(i) = EC -> "EC"
      [] OTHER -> "none"

Found == {i \in 0..(MaxIndex - 1) : Clibrateable(i)}
FirstIndex == Min((Found \ {0}) \cup {MaxIndex})
IndexUp(i) == IF \E j \in Found : j > i THEN Min({j \in Found : j > i}) ELSE Min(Found)
\* Position 0 is passed over; the search from 0, where KeyUp comes if 0 is in Outside, goes
\* down from 255 (uint8_t), over bytes far behind the arrays that are taken not to stand for EC.
IndexDown(i) == IF \E j \in Found \ {0} : j < i THEN Max({j \in Found : j < i}) ELSE Max(Found)

\* CalibMenu(), called by a menu that leaves the stack s behind: on a station with nothing
\* to calibrate it returns at once.
CalibMenu(n) ==
    /\ Call(n, Frame("CalibMenu", FirstIndex, CheckType(FirstIndex)))
    /\ returning' = (returning \/ CheckType(FirstIndex) = "none")
    /\ at' = IF showStatus /\ ~returning' THEN "key" ELSE "back"
    /\ UNCHANGED <<showStatus, firstRun, level, path, types>>

CalibMove ==
    /\ Waiting("CalibMenu")
    /\ \E i \in {IndexDown(Top.n), IndexUp(Top.n)} :
          stack' = WithTop(Frame("CalibMenu", i, CheckType(i)))
    /\ UNCHANGED <<at, control, level, path, types>>

\* A pin is a uint8_t and counts from 0.
FaultyPinOf(i, type) ==     \* the position in the array instead
    IF type = "PH" THEN i ELSE (i - SizeofAnalog) % 256
PinOf(i, type) == IF type = "PH" THEN i - 1 ELSE (i - SizeofAnalog - 1) % 256

CalibSel ==
    /\ Waiting("CalibMenu")
    /\ Call(Top.n, Frame("CalibFirstStep", PinOf(Top.n, Top.type), Top.type))
    /\ UNCHANGED <<at, control, level, path, types>>

CalibBack ==
    /\ Waiting("CalibMenu")
    /\ returning' = TRUE
    /\ Return
    /\ UNCHANGED <<showStatus, firstRun, level, path, types>>

\* The steps; the first two take KeyBack for another CalibMenu, the others wait for KeySel.
NextStep == [CalibFirstStep |-> "CalibSecondStep", CalibSecondStep |-> "CalibThirdStep",
             CalibThirdStep |-> "CalibFourthStep"]
Steps == DOMAIN NextStep \cup {"CalibFourthStep"}

StepSel ==
    /\ \E f \in DOMAIN NextStep :
          Waiting(f) /\ Call(Top.n, Frame(NextStep[f], Top.n, Top.type))
    /\ UNCHANGED <<at, control, level, path, types>>

StepBack ==
    /\ Waiting("CalibFirstStep") \/ Waiting("CalibSecondStep")
    /\ CalibMenu(Top.n)

\* Keys that only change, or read again, the value on the display.
Adjust ==
    /\ at = "key" /\ stack # <<>> /\ Top.f \in Steps \cup {"DelayMenu", "SubTimeMenu"}
    /\ UNCHANGED vars

\* The constants are stored (SetConstants of Settings); done().
CalibFourthSel ==
    /\ Waiting("CalibFourthStep")
    /\ returning' = TRUE
    /\ Return
    /\ UNCHANGED <<showStatus, firstRun, level, path, types>>

-----------------------------------------------------------------------------
(* The delay (what its keys count is in Settings) and the time. *)

DelaySel ==
    /\ Waiting("DelayMenu")
    /\ returning' = TRUE /\ at' = "back"
    /\ UNCHANGED <<stack, showStatus, firstRun, level, path, types>>

DelayBack ==
    /\ Waiting("DelayMenu")
    /\ Call(0, Menu("MainMenu", 1))
    /\ level' = 0
    /\ UNCHANGED <<at, control, path, types>>

SetTimeSel ==
    /\ Waiting("SetTimeMenu")
    /\ path' = [path EXCEPT ![level] = Top.n]
    /\ Call(Top.n, Menu("SubTimeMenu", 0))
    /\ UNCHANGED <<at, control, level, types>>

SetTimeBack ==
    /\ Waiting("SetTimeMenu")
    /\ returning' = TRUE
    /\ Return
    /\ UNCHANGED <<showStatus, firstRun, level, path, types>>

\* The time is set and SetTimeMenu called again, inside; KeyBack sets nothing.
FaultySubTimeSel ==         \* leaves returning as done() sets it
    /\ Waiting("SubTimeMenu")
    /\ Call(0, Menu("SetTimeMenu", 1))
    /\ level' = 1
    /\ returning' = TRUE
    /\ UNCHANGED <<at, showStatus, firstRun, path, types>>
SubTimeSel ==
    /\ Waiting("SubTimeMenu")
    /\ Call(0, Menu("SetTimeMenu", 1))
    /\ level' = 1
    /\ returning' = FALSE
    /\ UNCHANGED <<at, showStatus, firstRun, path, types>>

SubTimeBack ==
    /\ Waiting("SubTimeMenu")
    /\ Call(0, Menu("SetTimeMenu", 1))
    /\ level' = 1
    /\ UNCHANGED <<at, control, path, types>>

-----------------------------------------------------------------------------
(* MainMenu, and the returns. *)

MainSel ==
    /\ Waiting("MainMenu")
    /\ \/ /\ Top.n \in {1, 3, 4}
          /\ Call(Top.n, CASE Top.n = 1 -> Menu("ConectMenu", 1)
                           [] Top.n = 3 -> Menu("DelayMenu", 0)
                           [] Top.n = 4 -> Menu("SetTimeMenu", 1))
          /\ level' = IF Top.n = 3 THEN level ELSE 1
          /\ UNCHANGED <<at, control, path, types>>
       \/ Top.n = 2 /\ CalibMenu(2)

\* The menu is closed: this MainMenu returns, and so must all the others on the stack.
MainBack ==
    /\ Waiting("MainMenu")
    /\ showStatus' = FALSE /\ returning' = FALSE /\ firstRun' = TRUE
    /\ Return
    /\ UNCHANGED <<level, path, types>>

\* A menu that MainMenu called has returned.
BackInMain ==
    /\ Back({"MainMenu"})
    /\ returning' = FALSE
    /\ IF showStatus
       THEN /\ stack' = WithN(1) /\ at' = "key"
            /\ UNCHANGED firstRun
       ELSE Return /\ firstRun' = TRUE
    /\ UNCHANGED <<showStatus, level, path, types>>

\* These end with the call of another.
BackAtEnd ==
    /\ Back({"ConectMenu", "PinConectMenu", "TypeMenu", "SetTimeMenu", "CalibThirdStep"})
    /\ Return
    /\ UNCHANGED <<control, level, path, types>>

\* These call from a loop: while(showStatus && !returning).
FaultyBackInLoop ==         \* while(!returning)
    /\ Back({"CalibMenu", "CalibFirstStep", "CalibSecondStep", "DelayMenu", "SubTimeMenu"})
    /\ IF ~returning THEN at' = "key" /\ UNCHANGED stack ELSE Return
    /\ UNCHANGED <<control, level, path, types>>
BackInLoop ==
    /\ Back({"CalibMenu", "CalibFirstStep", "CalibSecondStep", "DelayMenu", "SubTimeMenu"})
    /\ IF showStatus /\ ~returning THEN at' = "key" /\ UNCHANGED stack ELSE Return
    /\ UNCHANGED <<control, level, path, types>>

-----------------------------------------------------------------------------

Key ==
    \/ Open \/ Highlight \/ MainSel \/ MainBack
    \/ ConectSel \/ ConectBack \/ PinConectSel \/ ToConectMenu \/ TypeSel
    \/ CalibMove \/ CalibSel \/ CalibBack \/ StepSel \/ StepBack \/ Adjust \/ CalibFourthSel
    \/ DelaySel \/ DelayBack \/ SetTimeSel \/ SetTimeBack \/ SubTimeSel \/ SubTimeBack
Step == Loop \/ BackInMain \/ BackAtEnd \/ BackInLoop

Next == Key \/ Step

\* The thread goes on by itself; nobody has to press a key.
Spec == Init /\ [][Next]_vars /\ WF_vars(Step)

-----------------------------------------------------------------------------

FramesOK ==
    \A k \in DOMAIN stack : stack[k].n \in 0..255 /\ stack[k].type \in {"PH", "EC", "none"}

TypeOK ==
    /\ FramesOK
    /\ at = "key" /\ Top.f \in Lists => Top.n \in 1..(Length(Top.f) - 1)
    /\ Len(stack) <= MaxDepth /\ at \in {"key", "back"}
    /\ showStatus \in BOOLEAN /\ returning \in BOOLEAN /\ firstRun \in BOOLEAN
    /\ level \in 0..3 /\ path \in [0..4 -> 0..6]
    /\ DOMAIN types = Tables /\ \A t \in Tables : types[t] \in [Pins(t) -> TypesOf(t)]

\* Whoever waits for a key does so in an open menu with nothing left to return from: a
\* makeMenu in a closed one would end without a value (Menu.h:74-101), and a loop with
\* returning left set by an earlier done() would end after one key.
KeysMeanOpen == at = "key" => showStatus /\ ~returning

\* The choices travel in globals, level and path, which nested menus overwrite. Where
\* they are about to be used (the list of pins, Assign, the field of the time:
\* Menu.h:137-155, 61-66 and 394-414) they are those of the menus that lead here.
PathIsTheWay ==
    LET Chosen(k, f, i) == stack[Len(stack) - k].f = f /\ stack[Len(stack) - k].n = path[i]
    IN  /\ Waiting("PinConectMenu") => Chosen(1, "ConectMenu", 1)
        /\ Waiting("TypeMenu") => Chosen(2, "ConectMenu", 1) /\ Chosen(1, "PinConectMenu", 2)
        /\ Waiting("SubTimeMenu") => Chosen(1, "SetTimeMenu", 1)

\* Every pin under calibration, also in the steps another CalibMenu was called from, has
\* the sensor it is calibrated for, unless a read outside the array says so.
HasType(pin, type) ==
    \/ type = "PH" /\ pin + 1 \in Pins(1) /\ types[1][pin + 1] = PH
    \/ type = "EC" /\ pin + 1 \in Pins(2) /\ types[2][pin + 1] = EC
    \/ type = "EC" /\ \E i \in Outside : pin = PinOf(i, "EC")
CalibratedHasType ==
    \A k \in DOMAIN stack : stack[k].f \in Steps => HasType(stack[k].n, stack[k].type)

\* Closing the menu in whichever MainMenu, however deep, ends in loop() without another
\* key, which then begins anew (firstRun).
ClosedMeansLoop == (stack # <<>> /\ ~showStatus) ~> (stack = <<>> /\ firstRun)

=============================================================================
