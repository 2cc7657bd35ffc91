------------------------------- MODULE Clock -------------------------------
(***************************************************************************)
(* The clock: Time.cpp, which counts on from what it was set to and asks   *)
(* its provider now and then; DS1307RTC.cpp and the chip behind it; the    *)
(* connection menu, the time menu and message 'B', which set them.         *)
(*                                                                         *)
(* The unit is the minute: seconds are left out. A byte is 0 .. 255.       *)
(***************************************************************************)
EXTENDS Integers, FiniteSets

CONSTANTS Starts,         \* times at which the model begins
          SyncInterval,   \* syncInterval
          Steps,          \* by which time passes in the model
          ClientTimes,    \* what a client may set, in minutes
          MaxUsed,        \* bounds how often time passes and is set in the model
          FreshRTC        \* may the chip be one that has never been started?

VARIABLES sysTime, late, nextSyncTime, Status,   \* late: minutes that now() has not yet counted
          provider,     \* getTimePtr is RTC.get
          connected,    \* I2CTypeArray[1] == 3, also in the EEPROM
          chip,         \* the DS1307: answering, its clock running, its registers,
                        \* and whether they were given a time they cannot keep
          tm,           \* what the time menu has read and is changing
          due,          \* the time that was set last, going on; -1 if none ever was
          told,         \* the chip has been told of it
          used

clock == <<sysTime, late, nextSyncTime, Status>>
vars == <<clock, provider, connected, chip, tm, due, told, used>>

-----------------------------------------------------------------------------
\* The calendar. A year counts from 1970.

Leap(y) == LET Y == 1970 + y IN Y % 4 = 0 /\ (Y % 100 # 0 \/ Y % 400 = 0)
Days(y, month) ==
    CASE month = 2 -> IF Leap(y) THEN 29 ELSE 28
      [] month \in {4, 6, 9, 11} -> 30
      [] OTHER -> 31

\* The loops over years and months, summed up.
DaysBeforeYear(y) == 365 * y + (y + 1) \div 4 - (y + 69) \div 100 + (y + 369) \div 400
DaysBeforeMonth(y, month) ==
    <<0, 31, 59, 90, 120, 151, 181, 212, 243, 273, 304, 334>>[month]
      + IF month > 2 /\ Leap(y) THEN 1 ELSE 0

\* The chip counts its years from 2000 to 2099, in minutes from here to here.
Y2000 == DaysBeforeYear(30) * 1440
Y2100 == DaysBeforeYear(130) * 1440

ASSUME ClockAssumption ==
    /\ Starts \subseteq Y2000 .. Y2100 - 1
    /\ ClientTimes \cup Steps \subseteq Nat \ {0}
    /\ SyncInterval \in Nat \ {0} /\ MaxUsed \in Nat /\ FreshRTC \in BOOLEAN

\* The first year that does not end before the day, the month likewise.
BreakTime(time) ==
    LET days  == time \div 1440
        y     == CHOOSE n \in days \div 366 .. days \div 365 :
                   DaysBeforeYear(n) <= days /\ days < DaysBeforeYear(n + 1)
        rest  == days - DaysBeforeYear(y)
        month == CHOOSE m \in 1 .. 12 : DaysBeforeMonth(y, m) <= rest
                                        /\ rest < DaysBeforeMonth(y, m) + Days(y, m)
    IN  [Minute |-> time % 60, Hour |-> (time \div 60) % 24, Wday |-> ((days + 4) % 7) + 1,
         Day |-> rest - DaysBeforeMonth(y, month) + 1, Month |-> month, Year |-> y]

MakeTime(e) ==
    (DaysBeforeYear(e.Year) + DaysBeforeMonth(e.Year, e.Month) + e.Day - 1) * 1440
      + e.Hour * 60 + e.Minute

Exists(e) == e.Day <= Days(e.Year, e.Month)
Keepable(e) == Exists(e) /\ e.Year \in 30 .. 129

-----------------------------------------------------------------------------
\* The chip, and DS1307RTC.

FaultyDec2bcd(n) == (((n \div 10) * 10) + (n % 10)) % 256     \* tens times ten
Dec2bcd(n) == (((n \div 10) * 16) + (n % 10)) % 256
Bcd2dec(n) == ((n \div 16) * 10) + (n % 16)

\* tmYearToY2k is a subtraction in a byte.
Registers(e) ==
    [Minute |-> Dec2bcd(e.Minute), Hour |-> Dec2bcd(e.Hour), Wday |-> Dec2bcd(e.Wday),
     Day |-> Dec2bcd(e.Day), Month |-> Dec2bcd(e.Month), Year |-> Dec2bcd((e.Year - 30) % 256)]
Fields(r) ==
    [Minute |-> Bcd2dec(r.Minute), Hour |-> Bcd2dec(r.Hour % 64), Wday |-> Bcd2dec(r.Wday),
     Day |-> Bcd2dec(r.Day), Month |-> Bcd2dec(r.Month), Year |-> Bcd2dec(r.Year) + 30]

ChipTime == MakeTime(Fields(chip.registers))

\* RTC.get: 0 if the chip does not answer or stands still.
Get == IF chip.answers /\ chip.running THEN ChipTime ELSE 0

\* RTC.write, which starts a clock that stood still. (RTC.set writes twice,
\* to stop it and to start it.)
Written(e) == IF chip.answers
              THEN [chip EXCEPT !.registers = Registers(e), !.running = TRUE,
                                !.garbled = ~Keepable(e)]
              ELSE chip

\* After 2099 the chip goes on with 2000 (external).
Rolled(e) == [e EXCEPT !.Year = 30 + ((@ - 30) % 100)]

\* Minutes pass in the chip (external). What becomes of a day that does not
\* exist at the next midnight, the data sheet does not say.
Ticked(n) ==
    LET e     == Fields(chip.registers)
        next  == Rolled(BreakTime(MakeTime(e) + n))
        first == [next EXCEPT !.Day = 1, !.Month = IF e.Month = 12 THEN 1 ELSE e.Month + 1]
    IN  IF ~chip.running THEN {chip}
        ELSE IF Exists(e) THEN {[chip EXCEPT !.registers = Registers(next)]}
        ELSE IF e.Hour * 60 + e.Minute + n < 1440
          THEN {[chip EXCEPT !.registers = Registers([e EXCEPT !.Hour = next.Hour, !.Minute = next.Minute])]}
        ELSE {[chip EXCEPT !.registers = Registers(x)] : x \in {next, first}}

-----------------------------------------------------------------------------
\* Time.cpp

SetTime(t) == [sys |-> t, late |-> 0, sync |-> t + SyncInterval, status |-> "timeSet"]

FaultyNow(ask) ==        \* asks at every call
    LET s == sysTime + late
        t == Get
    IN  IF ~ask THEN [sys |-> s, late |-> 0, sync |-> nextSyncTime, status |-> Status]
        ELSE SetTime(t)
\* now() with or without a provider.
Now(ask) ==
    LET s == sysTime + late
        t == Get
    IN  IF ~ask \/ nextSyncTime > s THEN [sys |-> s, late |-> 0, sync |-> nextSyncTime, status |-> Status]
        ELSE IF t # 0 THEN SetTime(t)
        ELSE [sys |-> s, late |-> 0, sync |-> nextSyncTime,
              status |-> IF Status = "timeNotSet" THEN Status ELSE "timeNeedsSync"]

\* setSyncProvider
Registered(n) == IF Get # 0 THEN SetTime(Get)
                 ELSE [n EXCEPT !.sync = n.sys,
                                !.status = IF @ = "timeNotSet" THEN @ ELSE "timeNeedsSync"]

Take(n) == sysTime' = n.sys /\ late' = n.late /\ nextSyncTime' = n.sync /\ Status' = n.status

Unset == [sys |-> 0, late |-> 0, sync |-> 0, status |-> "timeNotSet"]

\* The provider is asked; if there is still no time, the chip is given ours.
Connect(n) ==
    LET r == Registered(n)
    IN  /\ Take(r)
        /\ provider' = TRUE
        /\ chip' = IF r.status # "timeSet" THEN Written(BreakTime(r.sys)) ELSE chip
        /\ due' = IF r.status = "timeSet" THEN r.sys ELSE due
        /\ told' = (r.status = "timeSet" /\ ~chip.garbled)

-----------------------------------------------------------------------------
\* setup(), after the power has come (back).
Begins(isThere) ==
    IF isThere THEN Connect(Unset)
    ELSE Take(Unset) /\ provider' = FALSE /\ due' = -1 /\ told' = FALSE /\ UNCHANGED chip

Init ==
    /\ sysTime = 0 /\ late = 0 /\ nextSyncTime = 0 /\ Status = "timeNotSet"
    /\ provider = FALSE /\ connected = FALSE
    /\ \E t \in Starts, runs \in IF FreshRTC THEN BOOLEAN ELSE {TRUE} :
         chip = [answers |-> TRUE, running |-> runs, garbled |-> FALSE,
                 registers |-> Registers(BreakTime(t))]
    /\ tm = <<>> /\ due = -1 /\ told = FALSE /\ used = 0

Restart ==
    /\ Begins(connected)
    /\ tm' = <<>>
    /\ UNCHANGED <<connected, used>>

Use == used < MaxUsed /\ used' = used + 1

\* Time passes, while the station measures or waits for a key.
Elapse(n) ==
    /\ Use
    /\ late' = late + n
    /\ due' = IF due = -1 THEN due ELSE due + n
    /\ chip' \in Ticked(n)
    /\ UNCHANGED <<sysTime, nextSyncTime, Status, provider, connected, tm, told>>

\* The loop shows the time, logs it, sends it.
Look ==
    /\ tm = <<>>
    /\ Take(Now(provider))
    /\ UNCHANGED <<provider, connected, chip, tm, due, told, used>>

\* Assign() of the connection menu; taking the RTC away does not end its
\* being the provider.
AssignRTC ==
    /\ tm = <<>>
    /\ connected' = TRUE
    /\ Connect(Now(FALSE))
    /\ UNCHANGED <<tm, used>>

Unassign ==
    /\ tm = <<>> /\ connected
    /\ connected' = FALSE
    /\ UNCHANGED <<clock, provider, chip, tm, due, told, used>>

\* 'T' of a client changes the type and nothing else.
ClientAssigns ==
    /\ tm = <<>> /\ ~connected
    /\ connected' = TRUE
    /\ UNCHANGED <<clock, provider, chip, tm, due, told, used>>

\* 'B' of a client: the time is set, the RTC is not.
ClientSets(t) ==
    /\ tm = <<>> /\ Use
    /\ Take(SetTime(t))
    /\ due' = t /\ told' = FALSE
    /\ UNCHANGED <<provider, connected, chip, tm>>

\* SubTimeMenu reads the time when it opens, and sets what it has read but
\* for one field when a key is pressed.
OpenTimeMenu ==
    /\ tm = <<>>
    /\ Take(Now(provider))
    /\ tm' = BreakTime(sysTime')
    /\ UNCHANGED <<provider, connected, chip, due, told, used>>

Limits(field) ==
    CASE field = "Year" -> {30, 129} [] field = "Month" -> {2, 12}
      [] field = "Day" -> {1, 31}        [] field = "Hour" -> {23}
      [] field = "Minute" -> {59}

FaultySetField(field, value) ==      \* forgets the RTC
    LET e == [tm EXCEPT ![field] = value]
    IN  /\ tm # <<>> /\ Use
        /\ Take(SetTime(MakeTime(e)))
        /\ due' = MakeTime(e)
        /\ told' = (connected /\ chip.answers /\ Keepable(e))
        /\ tm' = <<>>
        /\ UNCHANGED <<chip, provider, connected>>
SetField(field, value) ==
    LET e == [tm EXCEPT ![field] = value]
    IN  /\ tm # <<>> /\ Use
        /\ Take(SetTime(MakeTime(e)))
        /\ due' = MakeTime(e)
        /\ chip' = IF connected THEN Written(e) ELSE chip
        /\ told' = (connected /\ chip.answers /\ Keepable(e))
        /\ tm' = <<>>
        /\ UNCHANGED <<provider, connected>>

LeaveTimeMenu ==
    /\ tm # <<>> /\ tm' = <<>>
    /\ UNCHANGED <<clock, provider, connected, chip, due, told, used>>

\* The chip is pulled off the bus, or put back.
ChipComesOrGoes ==
    /\ chip' = [chip EXCEPT !.answers = ~@]
    /\ UNCHANGED <<clock, provider, connected, tm, due, told, used>>

Next ==
    \/ Restart \/ Look \/ AssignRTC \/ Unassign \/ ClientAssigns
    \/ OpenTimeMenu \/ LeaveTimeMenu \/ ChipComesOrGoes
    \/ \E n \in Steps : Elapse(n)
    \/ \E t \in ClientTimes : ClientSets(t)
    \/ \E f \in {"Year", "Month", "Day", "Hour", "Minute"} : \E v \in Limits(f) : SetField(f, v)

Spec == Init /\ [][Next]_vars

-----------------------------------------------------------------------------
Shown == sysTime + late

\* What the variables of Time.cpp and the chip hold; its registers are bytes.
TypeOK ==
    /\ Status \in {"timeNotSet", "timeNeedsSync", "timeSet"}
    /\ {provider, connected, told, chip.answers, chip.running} \subseteq BOOLEAN
    /\ sysTime \in Nat /\ late \in Nat /\ nextSyncTime \in Nat
    /\ due \in Nat \cup {-1}
    /\ \A f \in DOMAIN chip.registers : chip.registers[f] \in 0 .. 255

\* Whatever order clients, menu, RTC and power come in, the clock goes on
\* from what it was set to last, or else shows what the RTC says, until the
\* RTC begins again.
KeepsTime ==
    Status # "timeNotSet" /\ ~chip.garbled /\ Shown < Y2100 => Shown = due \/ (provider /\ Shown = ChipTime)

\* An RTC that was told keeps the time that was set, over restarts.
RTCKeepsTime == told /\ due < Y2100 => chip.running /\ ChipTime = due

\* Breaking a time down and putting it together again changes nothing, also
\* on the way through the RTC's BCD registers, up to 2099.
Conversions ==
    LET e == BreakTime(Shown)
    IN  /\ TypeOK
        /\ MakeTime(e) = Shown /\ Exists(e)
        /\ e.Year \in 30 .. 129 => Fields(Registers(e)) = e

=============================================================================
