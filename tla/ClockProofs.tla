---------------------------- MODULE ClockProofs ----------------------------
(***************************************************************************)
(* Proofs about Clock, for any times, steps and synchronization interval:  *)
(* the conversions between minutes, dates and the RTC's registers are      *)
(* inverse to each other, the clock keeps the time that was set last, and  *)
(* an RTC that was told of it keeps it too, both until the RTC's years     *)
(* begin again in 2100.                                                    *)
(*                                                                         *)
(* The calendar comes first: years and months follow each other without a  *)
(* gap, so every day has a year and a month. The inductive invariant says  *)
(* what holds in between: registers that were given a time they can keep   *)
(* hold a date that exists, and only such registers are believed.          *)
(***************************************************************************)
EXTENDS Clock, TLAPS, NaturalsInduction, WellFoundedInduction

Date == [Minute : 0..59, Hour : 0..23, Wday : 1..7, Day : 1..31, Month : 1..12, Year : Nat]

-----------------------------------------------------------------------------
\* The calendar

YearDays(y) == IF Leap(y) THEN 366 ELSE 365

\* A year begins where the year before has ended.
LEMMA YearStep ==
    ASSUME NEW y \in Nat
    PROVE  /\ DaysBeforeYear(y) \in Nat
           /\ DaysBeforeYear(y + 1) = DaysBeforeYear(y) + YearDays(y)
           /\ YearDays(y) \in 365..366
<1>1. DaysBeforeYear(y) \in Nat
  BY DEF DaysBeforeYear
<1>2. /\ (y + 1 + 1) \div 4 = (y + 1) \div 4 + (IF (1970 + y) % 4 = 0 THEN 1 ELSE 0)
      /\ (y + 1 + 69) \div 100 = (y + 69) \div 100 + (IF (1970 + y) % 100 = 0 THEN 1 ELSE 0)
      /\ (y + 1 + 369) \div 400 = (y + 369) \div 400 + (IF (1970 + y) % 400 = 0 THEN 1 ELSE 0)
  OBVIOUS
<1>3. ((1970 + y) % 400 = 0 => (1970 + y) % 100 = 0) /\ ((1970 + y) % 100 = 0 => (1970 + y) % 4 = 0)
  OBVIOUS
<1> QED
  BY <1>1, <1>2, <1>3 DEF DaysBeforeYear, YearDays, Leap

LEMMA YearBounds ==
    ASSUME NEW y \in Nat
    PROVE  365 * y <= DaysBeforeYear(y) /\ DaysBeforeYear(y) <= 366 * y
BY DEF DaysBeforeYear

LEMMA YearsInOrder ==
    ASSUME NEW y \in Nat, NEW z \in Nat, y <= z
    PROVE  DaysBeforeYear(y) <= DaysBeforeYear(z)
BY DEF DaysBeforeYear

\* Every nonempty set of numbers has a least one.
LEMMA Least ==
    ASSUME NEW S \in SUBSET Nat, S # {}
    PROVE  \E x \in S : \A y \in S : x <= y
<1>1. PICK R : R = OpToRel(<, Nat)
  OBVIOUS
<1>2. R = {ss \in Nat \X Nat : ss[1] < ss[2]}
  BY <1>1, Zenon DEF OpToRel
<1>3. IsWellFoundedOn(R, Nat)
  BY <1>1, NatLessThanWellFounded
<1>4. PICK x \in S : \A y \in S : ~ (<<y, x>> \in R)
  BY <1>3, WFMin
<1>5. \A y \in S : x <= y
  <2> TAKE y \in S
  <2>1. x \in Nat /\ y \in Nat /\ ~ (<<y, x>> \in {ss \in Nat \X Nat : ss[1] < ss[2]})
    BY <1>2, <1>4
  <2>2. ~ (y < x)
    BY <2>1
  <2> QED
    BY <2>1, <2>2
<1> QED
  BY <1>5

YearOf(days) ==
    CHOOSE n \in days \div 366 .. days \div 365 :
      DaysBeforeYear(n) <= days /\ days < DaysBeforeYear(n + 1)

\* Every day has a year.
LEMMA YearExists ==
    ASSUME NEW days \in Nat
    PROVE  /\ YearOf(days) \in Nat
           /\ DaysBeforeYear(YearOf(days)) <= days
           /\ days < DaysBeforeYear(YearOf(days) + 1)
<1>1. PICK S : S = {n \in Nat : days < DaysBeforeYear(n + 1)}
  OBVIOUS
<1>2. days \in S
  <2>1. days + 1 \in Nat
    OBVIOUS
  <2>2. days < DaysBeforeYear(days + 1)
    <3>1. 365 * (days + 1) <= DaysBeforeYear(days + 1) /\ DaysBeforeYear(days + 1) \in Nat
      BY <2>1, YearBounds, YearStep
    <3> QED
      BY <3>1
  <2> QED
    BY <1>1, <2>2
<1>3. PICK n \in S : \A k \in S : n <= k
  BY <1>1, <1>2, Least
<1>4. n \in Nat /\ days < DaysBeforeYear(n + 1) /\ DaysBeforeYear(n) \in Nat /\ DaysBeforeYear(n + 1) \in Nat
  BY <1>1, YearStep
<1>5. DaysBeforeYear(n) <= days
  <2>1. CASE n = 0
    BY <2>1 DEF DaysBeforeYear
  <2>2. CASE n # 0
    <3>1. n - 1 \in Nat /\ (n - 1) + 1 = n
      BY <1>4, <2>2
    <3>2. n - 1 \notin S
      BY <1>3, <1>4, <3>1
    <3>3. ~ (days < DaysBeforeYear((n - 1) + 1))
      BY <1>1, <3>1, <3>2
    <3> QED
      BY <1>4, <3>1, <3>3
  <2> QED
    BY <2>1, <2>2
<1>6. n \in days \div 366 .. days \div 365
  <2>1. 365 * n <= days
    BY <1>4, <1>5, YearBounds
  <2>2. days < 366 * (n + 1)
    BY <1>4, YearBounds
  <2> QED
    BY <1>4, <2>1, <2>2
<1>7. /\ YearOf(days) \in days \div 366 .. days \div 365
      /\ DaysBeforeYear(YearOf(days)) <= days /\ days < DaysBeforeYear(YearOf(days) + 1)
  BY <1>4, <1>5, <1>6, Zenon DEF YearOf
<1> QED
  BY <1>7

\* The months of a year follow each other from its first day to its last.
LEMMA MonthTable ==
    ASSUME NEW y \in Nat
    PROVE  /\ DaysBeforeMonth(y, 1) = 0
           /\ \A m \in 1..11 : DaysBeforeMonth(y, m + 1) = DaysBeforeMonth(y, m) + Days(y, m)
           /\ DaysBeforeMonth(y, 12) + Days(y, 12) = YearDays(y)
           /\ \A m \in 1..12 : DaysBeforeMonth(y, m) \in 0..335 /\ Days(y, m) \in 28..31
<1>1. /\ DaysBeforeMonth(y, 1) = 0 /\ DaysBeforeMonth(y, 2) = 31
      /\ \E L \in 0..1 :
           /\ L = (IF Leap(y) THEN 1 ELSE 0)
           /\ DaysBeforeMonth(y, 3) = 59 + L /\ DaysBeforeMonth(y, 4) = 90 + L
           /\ DaysBeforeMonth(y, 5) = 120 + L /\ DaysBeforeMonth(y, 6) = 151 + L
           /\ DaysBeforeMonth(y, 7) = 181 + L /\ DaysBeforeMonth(y, 8) = 212 + L
           /\ DaysBeforeMonth(y, 9) = 243 + L /\ DaysBeforeMonth(y, 10) = 273 + L
           /\ DaysBeforeMonth(y, 11) = 304 + L /\ DaysBeforeMonth(y, 12) = 334 + L
  BY DEF DaysBeforeMonth
<1>2. /\ Days(y, 1) = 31 /\ Days(y, 2) = (IF Leap(y) THEN 29 ELSE 28) /\ Days(y, 3) = 31
      /\ Days(y, 4) = 30 /\ Days(y, 5) = 31 /\ Days(y, 6) = 30
      /\ Days(y, 7) = 31 /\ Days(y, 8) = 31 /\ Days(y, 9) = 30
      /\ Days(y, 10) = 31 /\ Days(y, 11) = 30 /\ Days(y, 12) = 31
  BY DEF Days
<1> QED
  BY <1>1, <1>2 DEF YearDays

MonthOf(y, rest) ==
    CHOOSE m \in 1 .. 12 : DaysBeforeMonth(y, m) <= rest /\ rest < DaysBeforeMonth(y, m) + Days(y, m)

\* Every day of a year has a month.
LEMMA MonthExists ==
    ASSUME NEW y \in Nat, NEW rest \in Nat, rest < YearDays(y)
    PROVE  /\ MonthOf(y, rest) \in 1..12
           /\ DaysBeforeMonth(y, MonthOf(y, rest)) <= rest
           /\ rest < DaysBeforeMonth(y, MonthOf(y, rest)) + Days(y, MonthOf(y, rest))
<1>1. \E m \in 1 .. 12 : DaysBeforeMonth(y, m) <= rest /\ rest < DaysBeforeMonth(y, m) + Days(y, m)
  <2>1. YearDays(y) \in 365..366
    BY YearStep
  <2>2. PICK S : S = {m \in 1..12 : rest < DaysBeforeMonth(y, m) + Days(y, m)}
    OBVIOUS
  <2>3. S \in SUBSET Nat /\ 12 \in S
    BY <2>2, MonthTable
  <2>4. PICK m \in S : \A k \in S : m <= k
    BY <2>3, Least
  <2>5. m \in 1..12 /\ rest < DaysBeforeMonth(y, m) + Days(y, m)
    BY <2>2
  <2>6. DaysBeforeMonth(y, m) <= rest
    <3>1. CASE m = 1
      BY <3>1, MonthTable
    <3>2. CASE m # 1
      <4>1. m - 1 \in 1..11 /\ (m - 1) + 1 = m /\ m - 1 \in 1..12
        BY <2>5, <3>2
      <4>2. m - 1 \notin S
        BY <2>4, <2>5, <4>1
      <4>3. ~ (rest < DaysBeforeMonth(y, m - 1) + Days(y, m - 1))
        BY <2>2, <4>1, <4>2
      <4>4. DaysBeforeMonth(y, m) = DaysBeforeMonth(y, m - 1) + Days(y, m - 1)
        BY <4>1, MonthTable
      <4>5. DaysBeforeMonth(y, m) \in 0..335
        BY <2>5, MonthTable
      <4> QED
        BY <4>3, <4>4, <4>5
    <3> QED
      BY <3>1, <3>2
  <2> QED
    BY <2>5, <2>6
<1> QED
  BY <1>1, Zenon DEF MonthOf

LEMMA MinutesOfDays ==
    ASSUME NEW t \in Nat
    PROVE  (t \div 1440) * 1440 + ((t \div 60) % 24) * 60 + (t % 60) = t
<1>1. PICK q, r : q = t \div 60 /\ r = t % 60
  OBVIOUS
<1>2. q \in Nat /\ r \in 0..59 /\ t = 60 * q + r
  BY <1>1
<1>3. PICK d, h : d = q \div 24 /\ h = q % 24
  OBVIOUS
<1>4. d \in Nat /\ h \in 0..23 /\ q = 24 * d + h
  BY <1>2, <1>3
<1>5. t = 1440 * d + 60 * h + r
  BY <1>2, <1>4
<1>6. t \div 1440 = d
  BY <1>2, <1>4, <1>5
<1> QED
  BY <1>1, <1>2, <1>3, <1>4, <1>5, <1>6

\* A time broken down is a date that exists, of the right year, and is put
\* together to the same time.
LEMMA Broken ==
    ASSUME NEW t \in Nat
    PROVE  /\ BreakTime(t) \in Date /\ Exists(BreakTime(t))
           /\ MakeTime(BreakTime(t)) = t
           /\ DaysBeforeYear(BreakTime(t).Year) <= t \div 1440
           /\ t \div 1440 < DaysBeforeYear(BreakTime(t).Year + 1)
<1> DEFINE days == t \div 1440
           y == YearOf(days)
           rest == days - DaysBeforeYear(y)
           month == MonthOf(y, rest)
<1>1. days \in Nat
  OBVIOUS
<1>2. y \in Nat /\ DaysBeforeYear(y) <= days /\ days < DaysBeforeYear(y + 1)
  BY <1>1, YearExists
<1>3. /\ DaysBeforeYear(y) \in Nat /\ DaysBeforeYear(y + 1) = DaysBeforeYear(y) + YearDays(y)
      /\ YearDays(y) \in 365..366
  BY <1>2, YearStep
<1>4. rest \in Nat /\ rest < YearDays(y)
  BY <1>1, <1>2, <1>3
<1>5. /\ month \in 1..12 /\ DaysBeforeMonth(y, month) <= rest
      /\ rest < DaysBeforeMonth(y, month) + Days(y, month)
  BY <1>2, <1>4, MonthExists
<1>6. DaysBeforeMonth(y, month) \in 0..335 /\ Days(y, month) \in 28..31
  BY <1>2, <1>5, MonthTable
<1>7. BreakTime(t) = [Minute |-> t % 60, Hour |-> (t \div 60) % 24, Wday |-> ((days + 4) % 7) + 1,
                      Day |-> rest - DaysBeforeMonth(y, month) + 1, Month |-> month, Year |-> y]
  BY SMTT(30) DEF BreakTime, YearOf, MonthOf
<1>8. t % 60 \in 0..59 /\ (t \div 60) % 24 \in 0..23 /\ ((days + 4) % 7) + 1 \in 1..7
  BY <1>1
<1> HIDE DEF rest, month, y
<1>9. /\ rest - DaysBeforeMonth(y, month) + 1 \in 1..31
      /\ rest - DaysBeforeMonth(y, month) + 1 <= Days(y, month)
  BY <1>4, <1>5, <1>6, SMTT(60)
<1>10. days * 1440 + ((t \div 60) % 24) * 60 + (t % 60) = t
  BY MinutesOfDays
<1> HIDE DEF days
<1>11. BreakTime(t) \in Date /\ Exists(BreakTime(t))
  BY <1>2, <1>5, <1>7, <1>8, <1>9 DEF Date, Exists
<1>12. MakeTime(BreakTime(t)) = t
  <2>1. MakeTime(BreakTime(t)) =
          (DaysBeforeYear(y) + DaysBeforeMonth(y, month) + (rest - DaysBeforeMonth(y, month) + 1) - 1) * 1440
            + ((t \div 60) % 24) * 60 + (t % 60)
    <3>1. /\ BreakTime(t).Year = y /\ BreakTime(t).Month = month /\ BreakTime(t).Minute = t % 60
          /\ BreakTime(t).Hour = (t \div 60) % 24 /\ BreakTime(t).Day = rest - DaysBeforeMonth(y, month) + 1
      BY <1>7
    <3> QED
      BY <3>1 DEF MakeTime
  <2>2. DaysBeforeYear(y) + DaysBeforeMonth(y, month) + (rest - DaysBeforeMonth(y, month) + 1) - 1 = days
    BY <1>1, <1>3, <1>6 DEF rest
  <2> QED
    BY <1>10, <2>1, <2>2
<1>13. /\ DaysBeforeYear(BreakTime(t).Year) <= t \div 1440
       /\ t \div 1440 < DaysBeforeYear(BreakTime(t).Year + 1)
  BY <1>2, <1>7 DEF days
<1> QED
  BY <1>11, <1>12, <1>13

-----------------------------------------------------------------------------
\* The registers

RegisterSet == [Minute : 0..255, Hour : 0..255, Wday : 0..255, Day : 0..255, Month : 0..255, Year : 0..255]
\* What may stand in the fields of a time that no calendar has.
AnyDate == [Minute : Nat, Hour : Nat, Wday : Nat, Day : Nat, Month : 1..12, Year : Nat]

LEMMA Digits ==
    ASSUME NEW n \in Nat
    PROVE  /\ Dec2bcd(n) \in 0..255
           /\ n <= 99 => Bcd2dec(Dec2bcd(n)) = n
           /\ n <= 39 => Dec2bcd(n) % 64 = Dec2bcd(n)
<1>1. PICK d, u : d = n \div 10 /\ u = n % 10
  OBVIOUS
<1>2. d \in Nat /\ u \in 0..9 /\ n = 10 * d + u
  BY <1>1
<1>3. Dec2bcd(n) = ((d * 16) + u) % 256
  BY <1>1 DEF Dec2bcd
<1>4. Dec2bcd(n) \in 0..255
  <2>1. PICK x : x = (d * 16) + u
    OBVIOUS
  <2>2. x \in Nat /\ Dec2bcd(n) = x % 256
    BY <1>2, <1>3, <2>1
  <2> QED
    BY <2>2
<1>5. ASSUME n <= 99 PROVE Bcd2dec(Dec2bcd(n)) = n
  <2>1. d \in 0..9
    BY <1>2, <1>5
  <2>2. Dec2bcd(n) = (d * 16) + u
    BY <1>2, <1>3, <2>1
  <2>3. Dec2bcd(n) \div 16 = d /\ Dec2bcd(n) % 16 = u
    BY <1>2, <2>1, <2>2
  <2> QED
    BY <1>2, <2>1, <2>3 DEF Bcd2dec
<1>6. ASSUME n <= 39 PROVE Dec2bcd(n) % 64 = Dec2bcd(n)
  <2>1. d \in 0..3
    BY <1>2, <1>6
  <2>2. Dec2bcd(n) = (d * 16) + u
    BY <1>2, <1>3, <2>1
  <2> QED
    BY <1>2, <2>1, <2>2
<1> QED
  BY <1>4, <1>5, <1>6

LEMMA RegistersOfAny ==
    ASSUME NEW e \in AnyDate
    PROVE  Registers(e) \in RegisterSet /\ Fields(Registers(e)).Month = e.Month
<1>1. /\ e.Minute \in Nat /\ e.Hour \in Nat /\ e.Wday \in Nat /\ e.Day \in Nat /\ e.Month \in 1..12
      /\ (e.Year - 30) % 256 \in Nat
  BY DEF AnyDate
<1>2. /\ Dec2bcd(e.Minute) \in 0..255 /\ Dec2bcd(e.Hour) \in 0..255 /\ Dec2bcd(e.Wday) \in 0..255
      /\ Dec2bcd(e.Day) \in 0..255 /\ Dec2bcd(e.Month) \in 0..255 /\ Dec2bcd((e.Year - 30) % 256) \in 0..255
  BY <1>1, Digits
<1>3. Bcd2dec(Dec2bcd(e.Month)) = e.Month
  BY <1>1, Digits
<1> QED
  BY <1>2, <1>3 DEF Registers, RegisterSet, Fields

LEMMA DateIsAny == Date \subseteq AnyDate
BY DEF Date, AnyDate

\* A date from 2000 to 2099 comes back from the registers as it was.
LEMMA RegistersKeep ==
    ASSUME NEW e \in Date, e.Year \in 30..129
    PROVE  Fields(Registers(e)) = e
<1>1. /\ e.Minute \in 0..59 /\ e.Hour \in 0..23 /\ e.Wday \in 1..7 /\ e.Day \in 1..31 /\ e.Month \in 1..12
      /\ (e.Year - 30) % 256 = e.Year - 30
  BY DEF Date
<1>2. /\ Bcd2dec(Dec2bcd(e.Minute)) = e.Minute /\ Bcd2dec(Dec2bcd(e.Hour) % 64) = e.Hour
      /\ Bcd2dec(Dec2bcd(e.Wday)) = e.Wday /\ Bcd2dec(Dec2bcd(e.Day)) = e.Day
      /\ Bcd2dec(Dec2bcd(e.Month)) = e.Month
  BY <1>1, Digits
<1>3. Bcd2dec(Dec2bcd(e.Year - 30)) + 30 = e.Year
  <2>1. e.Year - 30 \in Nat /\ e.Year - 30 <= 99
    OBVIOUS
  <2>2. Bcd2dec(Dec2bcd(e.Year - 30)) = e.Year - 30
    BY <2>1, Digits
  <2> QED
    BY <2>1, <2>2
<1>4. Fields(Registers(e)) = [Minute |-> e.Minute, Hour |-> e.Hour, Wday |-> e.Wday,
                              Day |-> e.Day, Month |-> e.Month, Year |-> e.Year]
  BY <1>1, <1>2, <1>3 DEF Fields, Registers
<1> QED
  BY <1>4 DEF Date

LEMMA FieldsAny ==
    ASSUME NEW r \in RegisterSet, Fields(r).Month \in 1..12
    PROVE  Fields(r) \in AnyDate /\ Fields(r).Year >= 30
<1>1. \A n \in 0..255 : Bcd2dec(n) \in Nat /\ n % 64 \in 0..255
  BY DEF Bcd2dec
<1>2. /\ r.Minute \in 0..255 /\ r.Hour \in 0..255 /\ r.Wday \in 0..255
      /\ r.Day \in 0..255 /\ r.Month \in 0..255 /\ r.Year \in 0..255
  BY DEF RegisterSet
<1>3. /\ Bcd2dec(r.Minute) \in Nat /\ Bcd2dec(r.Hour % 64) \in Nat /\ Bcd2dec(r.Wday) \in Nat
      /\ Bcd2dec(r.Day) \in Nat /\ Bcd2dec(r.Year) \in Nat
  BY <1>1, <1>2
<1> QED
  BY <1>3 DEF Fields, AnyDate

LEMMA MakeTimePositive ==
    ASSUME NEW e \in AnyDate, e.Year >= 30
    PROVE  MakeTime(e) \in Nat \ {0}
<1>1. e.Minute \in Nat /\ e.Hour \in Nat /\ e.Day \in Nat /\ e.Month \in 1..12 /\ e.Year \in Nat
  BY DEF AnyDate
<1>2. DaysBeforeYear(e.Year) \in Nat /\ 365 * e.Year <= DaysBeforeYear(e.Year)
  BY <1>1, YearStep, YearBounds
<1>3. DaysBeforeMonth(e.Year, e.Month) \in Nat
  <2>1. DaysBeforeMonth(e.Year, e.Month) \in 0..335
    BY <1>1, MonthTable
  <2> QED
    BY <2>1
<1>4. PICK a, b : a = DaysBeforeYear(e.Year) /\ b = DaysBeforeMonth(e.Year, e.Month)
  OBVIOUS
<1>5. MakeTime(e) = (a + b + e.Day - 1) * 1440 + e.Hour * 60 + e.Minute
  BY <1>4 DEF MakeTime
<1>6. a \in Nat /\ b \in Nat /\ a >= 365 * 30
  BY <1>1, <1>2, <1>3, <1>4
<1> QED
  BY <1>1, <1>5, <1>6

\* What the chip shows when its years begin again exists.
LEMMA RolledExists ==
    ASSUME NEW e \in Date, Exists(e), e.Year >= 30
    PROVE  /\ Rolled(e) \in Date /\ Exists(Rolled(e)) /\ Rolled(e).Year \in 30..129
           /\ e.Year <= 129 => Rolled(e) = e
<1>1. PICK y : y = 30 + ((e.Year - 30) % 100)
  OBVIOUS
<1>2. e.Year \in Nat /\ e.Year - 30 \in Nat /\ e.Month \in 1..12 /\ e.Day \in 1..31
  BY DEF Date
<1>3. y \in 30..129 /\ (e.Year <= 129 => y = e.Year)
  BY <1>1, <1>2
<1>4. Rolled(e) = [Minute |-> e.Minute, Hour |-> e.Hour, Wday |-> e.Wday,
                   Day |-> e.Day, Month |-> e.Month, Year |-> y]
  BY <1>1 DEF Rolled, Date
<1>5. Leap(e.Year) => Leap(y)
  <2>1. PICK c : c = (e.Year - 30) \div 100
    OBVIOUS
  <2>2. c \in Nat /\ e.Year = 100 * c + y
    BY <1>1, <1>2, <2>1
  <2>3. (1970 + e.Year) % 4 = 0 => (1970 + y) % 4 = 0
    BY <1>3, <2>2
  <2>4. (1970 + y) % 100 = 0 => (1970 + y) % 400 = 0
    BY <1>3
  <2> QED
    BY <2>3, <2>4 DEF Leap
<1>6. Days(e.Year, e.Month) <= Days(y, e.Month) /\ Days(e.Year, e.Month) \in 28..31 /\ Days(y, e.Month) \in 28..31
  <2>1. Days(e.Year, e.Month) \in 28..31 /\ Days(y, e.Month) \in 28..31
    BY SMTT(30), <1>2, <1>3, MonthTable
  <2>2. CASE e.Month = 2
    BY <1>5, <2>2 DEF Days
  <2>3. CASE e.Month # 2
    <3>1. Days(e.Year, e.Month) = Days(y, e.Month)
      BY <2>3 DEF Days
    <3> QED
      BY <2>1, <3>1
  <2> QED
    BY <2>1, <2>2, <2>3
<1>7. Exists(Rolled(e))
  <2>1. e.Day <= Days(e.Year, e.Month)
    BY DEF Exists
  <2>2. e.Day <= Days(y, e.Month)
    BY <1>2, <1>6, <2>1
  <2>3. Rolled(e).Day = e.Day /\ Rolled(e).Year = y /\ Rolled(e).Month = e.Month
    BY <1>4
  <2> QED
    BY <2>2, <2>3 DEF Exists
<1>8. Rolled(e) \in Date /\ Rolled(e).Year \in 30..129
  BY <1>3, <1>4 DEF Date
<1>9. e.Year <= 129 => Rolled(e) = e
  BY <1>3, <1>4 DEF Date
<1> QED
  BY <1>7, <1>8, <1>9

-----------------------------------------------------------------------------
\* The inductive invariant

ChipSet == [answers : BOOLEAN, running : BOOLEAN, garbled : BOOLEAN, registers : RegisterSet]
ChipOK(c) == c \in ChipSet /\ Fields(c.registers).Month \in 1..12
\* The registers hold a date of the chip's century.
Valid(c) ==
    /\ Fields(c.registers) \in Date /\ Exists(Fields(c.registers))
    /\ Fields(c.registers).Year \in 30..129

TypesOK ==
    /\ Status \in {"timeNotSet", "timeNeedsSync", "timeSet"}
    /\ provider \in BOOLEAN /\ connected \in BOOLEAN /\ told \in BOOLEAN
    /\ sysTime \in Nat /\ late \in Nat /\ nextSyncTime \in Nat
    /\ due \in Nat \cup {-1}
    /\ ChipOK(chip)
    /\ tm = <<>> \/ tm \in Date

\* A time the chip cannot keep is a time it was given, and then it runs.
GarbledInv == IF chip.garbled THEN chip.running ELSE Valid(chip)
ToldInv == told /\ due < Y2100 => ~chip.garbled /\ chip.running /\ ChipTime = due
ShownInv ==
    Status # "timeNotSet" /\ Shown < Y2100 =>
      Shown = due \/ (provider /\ chip.running /\ (chip.garbled \/ Shown = ChipTime))
ClockInv == TypesOK /\ GarbledInv /\ ToldInv /\ ShownInv

-----------------------------------------------------------------------------
\* The chip

LEMMA ChipTimePositive ==
    ASSUME NEW c, ChipOK(c)
    PROVE  /\ Fields(c.registers) \in AnyDate /\ Fields(c.registers).Year >= 30
           /\ MakeTime(Fields(c.registers)) \in Nat \ {0}
<1>1. c.registers \in RegisterSet /\ Fields(c.registers).Month \in 1..12
  BY DEF ChipOK, ChipSet
<1>2. Fields(c.registers) \in AnyDate /\ Fields(c.registers).Year >= 30
  BY <1>1, FieldsAny
<1> QED
  BY <1>2, MakeTimePositive

\* Time in the chip's century has its years.
LEMMA YearOfTime ==
    ASSUME NEW t \in Nat
    PROVE  /\ t >= Y2000 => BreakTime(t).Year >= 30
           /\ t < Y2100 => BreakTime(t).Year <= 129
<1>1. PICK y : y = BreakTime(t).Year
  OBVIOUS
<1>2. y \in Nat /\ DaysBeforeYear(y) <= t \div 1440 /\ t \div 1440 < DaysBeforeYear(y + 1)
  BY <1>1, Broken DEF Date
<1>3. DaysBeforeYear(y) \in Nat /\ DaysBeforeYear(y + 1) \in Nat /\ DaysBeforeYear(30) \in Nat /\ DaysBeforeYear(130) \in Nat
  BY <1>2, YearStep
<1>4. ASSUME t >= Y2000 PROVE y >= 30
  <2>1. t \div 1440 >= DaysBeforeYear(30)
    BY <1>3, <1>4 DEF Y2000
  <2>2. SUFFICES ASSUME y + 1 <= 30 PROVE FALSE
    BY <1>2
  <2>3. DaysBeforeYear(y + 1) <= DaysBeforeYear(30)
    BY <1>2, <2>2, YearsInOrder
  <2> QED
    BY <1>2, <1>3, <2>1, <2>3
<1>5. ASSUME t < Y2100 PROVE y <= 129
  <2>1. t \div 1440 < DaysBeforeYear(130)
    BY <1>3, <1>5 DEF Y2100
  <2>2. SUFFICES ASSUME 130 <= y PROVE FALSE
    BY <1>2
  <2>3. DaysBeforeYear(130) <= DaysBeforeYear(y)
    BY <1>2, <2>2, YearsInOrder
  <2> QED
    BY <1>2, <1>3, <2>1, <2>3
<1> QED
  BY <1>1, <1>4, <1>5

LEMMA DateNotBefore ==
    ASSUME NEW e \in Date, e.Year >= 30
    PROVE  MakeTime(e) \in Nat /\ MakeTime(e) >= Y2000
<1>1. e.Minute \in 0..59 /\ e.Hour \in 0..23 /\ e.Day \in 1..31 /\ e.Month \in 1..12 /\ e.Year \in Nat
  BY DEF Date
<1>2. PICK a, b : a = DaysBeforeYear(e.Year) /\ b = DaysBeforeMonth(e.Year, e.Month)
  OBVIOUS
<1>3. b \in 0..335
  BY <1>1, <1>2, MonthTable
<1>4. a \in Nat /\ DaysBeforeYear(30) \in Nat /\ DaysBeforeYear(30) <= a
  BY <1>1, <1>2, YearStep, YearsInOrder
<1>5. PICK k, c : k = a + b + e.Day - 1 /\ c = DaysBeforeYear(30)
  OBVIOUS
<1>6. MakeTime(e) = k * 1440 + e.Hour * 60 + e.Minute
  BY <1>2, <1>5 DEF MakeTime
<1>7. k \in Nat /\ c \in Nat /\ k >= c
  BY <1>1, <1>3, <1>4, <1>5
<1>8. Y2000 = c * 1440
  BY <1>5 DEF Y2000
<1> QED
  BY <1>1, <1>6, <1>7, <1>8

LEMMA RolledDate ==
    ASSUME NEW e \in Date
    PROVE  Rolled(e) \in Date
<1>1. 30 + ((e.Year - 30) % 100) \in Nat
  <2>1. e.Year - 30 \in Int
    BY DEF Date
  <2> QED
    BY <2>1
<1> QED
  BY <1>1 DEF Rolled, Date

\* As minutes pass, a date that exists goes on by them, within the century.
LEMMA TickedOK ==
    ASSUME ChipOK(chip), NEW n \in Nat \ {0}, NEW c \in Ticked(n)
    PROVE  /\ ChipOK(c)
           /\ c.answers = chip.answers /\ c.running = chip.running /\ c.garbled = chip.garbled
           /\ ~chip.running => c = chip
           /\ Valid(chip) => Valid(c)
           /\ Valid(chip) /\ chip.running /\ ChipTime + n < Y2100
                => MakeTime(Fields(c.registers)) = ChipTime + n
<1> DEFINE e == Fields(chip.registers)
           t == MakeTime(e) + n
           next == Rolled(BreakTime(t))
           still == [e EXCEPT !.Hour = next.Hour, !.Minute = next.Minute]
           first == [next EXCEPT !.Day = 1, !.Month = IF e.Month = 12 THEN 1 ELSE e.Month + 1]
           With(d) == [chip EXCEPT !.registers = Registers(d)]
<1>1. CASE ~chip.running
  BY <1>1 DEF Ticked
<1>2. CASE chip.running
  <2>1. e \in AnyDate /\ e.Year >= 30 /\ MakeTime(e) \in Nat \ {0}
    BY ChipTimePositive
  <2>2. t \in Nat
    BY <2>1
  <2>3. BreakTime(t) \in Date
    BY <2>2, Broken
  <2>4. next \in Date
    BY <2>3, RolledDate
  <2> HIDE DEF e, t, next
  <2>5. still \in AnyDate /\ first \in AnyDate /\ next \in AnyDate
    <3>1. next \in AnyDate
      BY <2>4, DateIsAny
    <3>2. next.Hour \in Nat /\ next.Minute \in Nat
      BY <3>1 DEF AnyDate
    <3>3. still \in AnyDate
      BY <2>1, <3>2 DEF AnyDate
    <3>4. (IF e.Month = 12 THEN 1 ELSE e.Month + 1) \in 1..12
      BY <2>1 DEF AnyDate
    <3>5. first \in AnyDate
      BY <3>1, <3>4 DEF AnyDate
    <3> QED
      BY <3>1, <3>3, <3>5
  <2>6. \E d \in AnyDate : c = With(d) /\ (Exists(e) => d = next)
    <3>1. CASE Exists(e)
      <4>1. c = With(next)
        BY <1>2, <3>1, Zenon DEF Ticked, e, next, t
      <4> QED
        BY <2>5, <4>1
    <3>2. CASE ~Exists(e)
      <4>1. c \in {With(still)} \/ c \in {With(x) : x \in {next, first}}
        BY SMTT(30), <1>2, <3>2 DEF Ticked, e, next, t
      <4> QED
        BY <2>5, <3>2, <4>1
    <3> QED
      BY <3>1, <3>2
  <2>7. PICK d \in AnyDate : c = With(d) /\ (Exists(e) => d = next)
    BY <2>6
  <2>8. chip \in ChipSet /\ Registers(d) \in RegisterSet /\ Fields(Registers(d)).Month \in 1..12
    BY <2>7, RegistersOfAny DEF ChipOK, AnyDate
  <2>9. /\ c \in ChipSet /\ c.registers = Registers(d)
        /\ c.answers = chip.answers /\ c.running = chip.running /\ c.garbled = chip.garbled
    BY <2>7, <2>8 DEF ChipSet
  <2>10. ChipOK(c)
    BY <2>8, <2>9 DEF ChipOK
  <2>11. ASSUME Valid(chip)
         PROVE  Valid(c) /\ (ChipTime + n < Y2100 => MakeTime(Fields(c.registers)) = ChipTime + n)
    <3>1. e \in Date /\ Exists(e) /\ e.Year >= 30
      BY <2>11 DEF Valid, e
    <3>2. d = next
      BY <2>7, <3>1
    <3>3. t >= Y2000
      <4>1. MakeTime(e) >= Y2000 /\ MakeTime(e) \in Nat /\ Y2000 \in Int
        BY <3>1, DateNotBefore, YearStep DEF Y2000
      <4> QED
        BY <4>1 DEF t
    <3>4. BreakTime(t).Year >= 30 /\ Exists(BreakTime(t)) /\ (t < Y2100 => BreakTime(t).Year <= 129)
      BY <2>2, <3>3, YearOfTime, Broken
    <3>5. /\ Exists(next) /\ next.Year \in 30..129
          /\ t < Y2100 => next = BreakTime(t)
      BY <2>3, <3>4, RolledExists DEF next
    <3>6. Fields(c.registers) = next
      BY <2>4, <2>9, <3>2, <3>5, RegistersKeep
    <3>7. Valid(c)
      BY <2>4, <3>5, <3>6 DEF Valid
    <3>8. t = ChipTime + n
      BY DEF t, e, ChipTime
    <3> QED
      BY <2>2, <3>5, <3>6, <3>7, <3>8, Broken
  <2> QED
    BY <1>2, <2>9, <2>10, <2>11
<1> QED
  BY <1>1, <1>2

LEMMA WrittenOK ==
    ASSUME ChipOK(chip), NEW e \in Date
    PROVE  /\ ChipOK(Written(e)) /\ Written(e).answers = chip.answers
           /\ ~chip.answers => Written(e) = chip
           /\ chip.answers => /\ Written(e).running = TRUE
                              /\ Written(e).garbled = ~Keepable(e)
           /\ chip.answers /\ Keepable(e) => Valid(Written(e)) /\ Fields(Written(e).registers) = e
<1>1. CASE ~chip.answers
  BY <1>1 DEF Written
<1>2. CASE chip.answers
  <2>1. chip \in ChipSet
    BY DEF ChipOK
  <2>2. Written(e) = [answers |-> chip.answers, running |-> TRUE, garbled |-> ~Keepable(e), registers |-> Registers(e)]
    BY <1>2, <2>1 DEF Written, ChipSet
  <2>3. Registers(e) \in RegisterSet /\ Fields(Registers(e)).Month \in 1..12
    BY RegistersOfAny, DateIsAny DEF AnyDate
  <2>4. (~Keepable(e)) \in BOOLEAN /\ chip.answers \in BOOLEAN
    BY <2>1, Zenon DEF ChipSet
  <2>5. ChipOK(Written(e))
    BY <2>2, <2>3, <2>4 DEF ChipOK, ChipSet
  <2>6. ASSUME Keepable(e) PROVE Valid(Written(e)) /\ Fields(Written(e).registers) = e
    <3>1. e.Year \in 30..129 /\ Exists(e)
      BY <2>6 DEF Keepable
    <3>2. Fields(Written(e).registers) = e
      BY <2>2, <3>1, RegistersKeep
    <3> QED
      BY <3>1, <3>2 DEF Valid
  <2> QED
    BY <1>2, <2>2, <2>5, <2>6
<1> QED
  BY <1>1, <1>2

-----------------------------------------------------------------------------
\* Time.cpp

Statuses == {"timeNotSet", "timeNeedsSync", "timeSet"}
\* What now() and the like leave in Time.cpp's variables.
Result == [sys : Nat, late : {0}, sync : Nat, status : Statuses]
\* A time that may be shown.
Shows(t, status) ==
    status # "timeNotSet" /\ t < Y2100 =>
      t = due \/ (provider /\ chip.running /\ (chip.garbled \/ t = ChipTime))

LEMMA GetOK ==
    ASSUME ChipOK(chip)
    PROVE  /\ ChipTime \in Nat \ {0}
           /\ Get \in Nat
           /\ Get # 0 => Get = ChipTime /\ chip.answers /\ chip.running
           /\ Get = 0 /\ chip.answers => ~chip.running
BY ChipTimePositive DEF Get, ChipTime

LEMMA SetTimeOK ==
    ASSUME NEW t \in Nat
    PROVE  /\ SetTime(t) \in Result
           /\ SetTime(t).sys = t /\ SetTime(t).late = 0 /\ SetTime(t).status = "timeSet"
<1>1. t + SyncInterval \in Nat
  BY ClockAssumption
<1> QED
  BY <1>1 DEF SetTime, Result, Statuses

LEMMA NowOK ==
    ASSUME ClockInv, NEW ask \in BOOLEAN, ask => provider
    PROVE  Now(ask) \in Result /\ Shows(Now(ask).sys, Now(ask).status)
<1>1. ChipOK(chip) /\ Shown \in Nat /\ Status \in Statuses /\ nextSyncTime \in Nat
  BY DEF ClockInv, TypesOK, Shown, Statuses
<1>2. ChipTime \in Nat \ {0} /\ Get \in Nat /\ (Get # 0 => Get = ChipTime /\ chip.answers /\ chip.running)
  BY <1>1, GetOK
<1>3. Shows(Shown, Status)
  BY DEF ClockInv, ShownInv, Shows
<1>4. PICK st : st = (IF Status = "timeNotSet" THEN Status ELSE "timeNeedsSync")
  OBVIOUS
<1>5. st \in Statuses /\ (st # "timeNotSet" => Status # "timeNotSet")
  BY <1>4 DEF Statuses
<1>6. \/ Now(ask) = [sys |-> Shown, late |-> 0, sync |-> nextSyncTime, status |-> Status]
      \/ Now(ask) = [sys |-> Shown, late |-> 0, sync |-> nextSyncTime, status |-> st]
      \/ ask /\ Get # 0 /\ Now(ask) = SetTime(Get)
  BY <1>4, Zenon DEF Now, Shown
<1>7. CASE Now(ask) = [sys |-> Shown, late |-> 0, sync |-> nextSyncTime, status |-> Status]
  BY <1>1, <1>3, <1>7 DEF Result
<1>8. CASE Now(ask) = [sys |-> Shown, late |-> 0, sync |-> nextSyncTime, status |-> st]
  <2>1. Shows(Shown, st)
    BY <1>3, <1>5 DEF Shows
  <2> QED
    BY <1>1, <1>5, <1>8, <2>1 DEF Result
<1>9. CASE ask /\ Get # 0 /\ Now(ask) = SetTime(Get)
  <2>1. SetTime(Get) \in Result /\ SetTime(Get).sys = ChipTime
    BY <1>2, <1>9, SetTimeOK
  <2>2. Shows(ChipTime, SetTime(Get).status)
    BY <1>2, <1>9 DEF Shows
  <2> QED
    BY <1>9, <2>1, <2>2
<1> QED
  BY <1>6, <1>7, <1>8, <1>9

\* What a call has left is in Time.cpp's variables.
LEMMA TakeOK ==
    ASSUME NEW n \in Result, Take(n)
    PROVE  /\ sysTime' \in Nat /\ late' \in Nat /\ nextSyncTime' \in Nat
           /\ Status' \in Statuses /\ Status' = n.status /\ Shown' = n.sys
BY DEF Take, Result, Shown

\* Becoming the provider, the chip is believed or else given our time.
LEMMA ConnectOK ==
    ASSUME ClockInv, NEW n \in Result, Shows(n.sys, n.status), Connect(n),
           connected' \in BOOLEAN, tm' = <<>>
    PROVE  ClockInv'
<1>1. ChipOK(chip) /\ GarbledInv /\ due \in Nat \cup {-1}
  BY DEF ClockInv, TypesOK
<1>2. /\ ChipTime \in Nat \ {0} /\ Get \in Nat
      /\ Get # 0 => Get = ChipTime /\ chip.answers /\ chip.running
      /\ Get = 0 /\ chip.answers => ~chip.running
  BY <1>1, GetOK
<1>3. provider' = TRUE
  BY DEF Connect
<1>4. CASE Get # 0
  <2>1. Registered(n) = SetTime(ChipTime) /\ SetTime(ChipTime) \in Result
    BY <1>2, <1>4, SetTimeOK DEF Registered
  <2>2. SetTime(ChipTime).status = "timeSet" /\ SetTime(ChipTime).sys = ChipTime
    BY <1>2, SetTimeOK
  <2>3. chip' = chip /\ due' = ChipTime /\ (told' = ~chip.garbled) /\ Take(SetTime(ChipTime))
    BY <2>1, <2>2 DEF Connect
  <2>4. /\ sysTime' \in Nat /\ late' \in Nat /\ nextSyncTime' \in Nat
        /\ Status' \in Statuses /\ Shown' = ChipTime
    BY <2>1, <2>2, <2>3, TakeOK
  <2>5. told' \in BOOLEAN /\ provider' \in BOOLEAN
    BY <1>3, <2>3, Zenon
  <2>6. TypesOK'
    BY <1>1, <1>2, <2>3, <2>4, <2>5 DEF TypesOK, ChipOK, Statuses
  <2>7. GarbledInv'
    BY <1>1, <2>3 DEF GarbledInv, Valid
  <2>8. ToldInv'
    BY <1>2, <1>4, <2>3 DEF ToldInv, ChipTime
  <2>9. ShownInv'
    BY <2>3, <2>4 DEF ShownInv
  <2> QED
    BY <2>6, <2>7, <2>8, <2>9 DEF ClockInv
<1>5. CASE Get = 0
  <2>1. PICK st : st = (IF n.status = "timeNotSet" THEN n.status ELSE "timeNeedsSync")
    OBVIOUS
  <2>2. st \in Statuses /\ st # "timeSet" /\ (st # "timeNotSet" => n.status # "timeNotSet") /\ n.sys \in Nat
    BY <2>1 DEF Statuses, Result
  <2>3. Registered(n) = [sys |-> n.sys, late |-> 0, sync |-> n.sys, status |-> st]
    BY <1>5, <2>1 DEF Registered, Result
  <2>4. Registered(n) \in Result /\ Registered(n).status = st /\ Registered(n).sys = n.sys
    BY <2>2, <2>3 DEF Result
  <2>5. /\ chip' = Written(BreakTime(n.sys)) /\ due' = due /\ told' = FALSE /\ Take(Registered(n))
    <3>1. Registered(n).status # "timeSet"
      BY <2>2, <2>4
    <3> QED
      BY <2>4, <3>1 DEF Connect
  <2>6. /\ sysTime' \in Nat /\ late' \in Nat /\ nextSyncTime' \in Nat
        /\ Status' \in Statuses /\ Status' = st /\ Shown' = n.sys
    BY <2>4, <2>5, TakeOK
  <2>7. BreakTime(n.sys) \in Date
    BY <2>2, Broken
  <2>8. /\ ChipOK(chip') /\ (~chip.answers => chip' = chip)
        /\ chip.answers => (chip'.running = TRUE /\ (chip'.garbled = ~Keepable(BreakTime(n.sys))))
        /\ chip.answers /\ Keepable(BreakTime(n.sys)) => Valid(chip')
    BY <1>1, <2>5, <2>7, WrittenOK
  <2>9. TypesOK'
    BY <1>1, <1>3, <2>5, <2>6, <2>8 DEF TypesOK, Statuses
  <2>10. GarbledInv'
    BY <1>1, <2>8 DEF GarbledInv, Valid
  <2>11. ToldInv'
    BY <2>5 DEF ToldInv
  <2>12. ShownInv'
    <3>1. SUFFICES ASSUME Status' # "timeNotSet", n.sys < Y2100
                   PROVE  n.sys = due \/ (chip'.running /\ (chip'.garbled \/ n.sys = ChipTime'))
      BY <1>3, <2>5, <2>6 DEF ShownInv
    <3>2. n.sys = due \/ (chip.running /\ (chip.garbled \/ n.sys = ChipTime))
      BY <2>2, <2>6, <3>1 DEF Shows
    <3> QED
      BY <1>2, <1>5, <2>8, <3>2 DEF ChipTime
  <2> QED
    BY <2>9, <2>10, <2>11, <2>12 DEF ClockInv
<1> QED
  BY <1>4, <1>5

-----------------------------------------------------------------------------
\* The invariant is kept

LEMMA InitOK == Init => ClockInv
<1> SUFFICES ASSUME Init PROVE ClockInv
  OBVIOUS
<1>1. PICK t \in Starts, runs \in BOOLEAN :
        chip = [answers |-> TRUE, running |-> runs, garbled |-> FALSE, registers |-> Registers(BreakTime(t))]
  <2>1. (IF FreshRTC THEN BOOLEAN ELSE {TRUE}) \subseteq BOOLEAN
    BY Zenon
  <2> QED
    BY <2>1, Zenon DEF Init
<1>2. t \in Nat /\ t >= Y2000 /\ t < Y2100
  <2>1. Y2000 \in Nat /\ Y2100 \in Nat
    BY YearStep DEF Y2000, Y2100
  <2> QED
    BY <2>1, ClockAssumption
<1>3. BreakTime(t) \in Date /\ Exists(BreakTime(t)) /\ BreakTime(t).Year \in 30..129
  <2>1. BreakTime(t) \in Date /\ Exists(BreakTime(t)) /\ BreakTime(t).Year >= 30 /\ BreakTime(t).Year <= 129
    BY <1>2, Broken, YearOfTime
  <2> QED
    BY <2>1 DEF Date
<1>4. /\ Registers(BreakTime(t)) \in RegisterSet
      /\ Fields(Registers(BreakTime(t))) = BreakTime(t)
  BY <1>3, RegistersOfAny, RegistersKeep, DateIsAny
<1>5. ChipOK(chip) /\ Valid(chip) /\ ~chip.garbled
  BY <1>1, <1>3, <1>4 DEF ChipOK, ChipSet, Valid, Date
<1>6. TypesOK
  BY <1>5 DEF Init, TypesOK
<1> QED
  BY <1>5, <1>6 DEF Init, ClockInv, GarbledInv, ToldInv, ShownInv

LEMMA RestartOK == ClockInv /\ Restart => ClockInv'
<1> SUFFICES ASSUME ClockInv, Restart PROVE ClockInv'
  OBVIOUS
<1>1. connected' \in BOOLEAN /\ tm' = <<>>
  BY DEF ClockInv, TypesOK, Restart
<1>2. Unset \in Result /\ Shows(Unset.sys, Unset.status) /\ Unset.sys = 0 /\ Unset.status = "timeNotSet"
  BY DEF Unset, Result, Statuses, Shows
<1>3. CASE connected
  <2>1. Connect(Unset)
    BY <1>3 DEF Restart, Begins
  <2> QED
    BY <1>1, <1>2, <2>1, ConnectOK
<1>4. CASE ~connected
  <2>1. Take(Unset) /\ provider' = FALSE /\ due' = -1 /\ told' = FALSE /\ chip' = chip
    BY <1>4 DEF Restart, Begins
  <2>2. /\ sysTime' \in Nat /\ late' \in Nat /\ nextSyncTime' \in Nat
        /\ Status' = "timeNotSet"
    BY <1>2, <2>1, TakeOK
  <2> QED
    BY <1>1, <2>1, <2>2 DEF ClockInv, TypesOK, GarbledInv, Valid, ToldInv, ShownInv
<1> QED
  BY <1>3, <1>4

LEMMA ElapseOK == \A n \in Steps : ClockInv /\ Elapse(n) => ClockInv'
<1> SUFFICES ASSUME NEW n \in Steps, ClockInv, Elapse(n) PROVE ClockInv'
  OBVIOUS
<1>1. n \in Nat \ {0}
  BY ClockAssumption
<1>2. ChipOK(chip) /\ GarbledInv /\ ChipTime \in Nat \ {0}
  BY GetOK DEF ClockInv, TypesOK
<1>3. chip' \in Ticked(n)
  BY DEF Elapse
<1>4. /\ ChipOK(chip')
      /\ chip'.answers = chip.answers /\ chip'.running = chip.running /\ chip'.garbled = chip.garbled
      /\ ~chip.running => chip' = chip
      /\ Valid(chip) => Valid(chip')
      /\ Valid(chip) /\ chip.running /\ ChipTime + n < Y2100 => ChipTime' = ChipTime + n
  <2>1. /\ ChipOK(chip')
        /\ chip'.answers = chip.answers /\ chip'.running = chip.running /\ chip'.garbled = chip.garbled
        /\ ~chip.running => chip' = chip
        /\ Valid(chip) => Valid(chip')
        /\ Valid(chip) /\ chip.running /\ ChipTime + n < Y2100 => MakeTime(Fields(chip'.registers)) = ChipTime + n
    BY <1>1, <1>2, <1>3, TickedOK
  <2>2. ChipTime' = MakeTime(Fields(chip'.registers))
    BY DEF ChipTime
  <2> QED
    BY <2>1, <2>2
<1>5. /\ late' = late + n /\ sysTime' = sysTime /\ nextSyncTime' = nextSyncTime /\ Status' = Status
      /\ provider' = provider /\ connected' = connected /\ tm' = tm /\ told' = told
      /\ due' = (IF due = -1 THEN due ELSE due + n)
  BY DEF Elapse
<1>6. TypesOK'
  BY <1>1, <1>4, <1>5 DEF ClockInv, TypesOK
<1>7. GarbledInv'
  BY <1>2, <1>4 DEF GarbledInv
<1>8. Y2100 \in Nat
  BY YearStep DEF Y2100
<1>9. ToldInv'
  <2>1. SUFFICES ASSUME told, due' < Y2100
                 PROVE  ~chip'.garbled /\ chip'.running /\ ChipTime' = due'
    BY <1>5 DEF ToldInv
  <2>2. due \in Nat \cup {-1} /\ due < Y2100
    BY <1>1, <1>5, <1>8, <2>1 DEF ClockInv, TypesOK
  <2>3. ~chip.garbled /\ chip.running /\ ChipTime = due
    BY <2>1, <2>2 DEF ClockInv, ToldInv
  <2>4. due' = ChipTime + n
    BY <1>2, <1>5, <2>3
  <2> QED
    BY <1>2, <1>4, <2>1, <2>3, <2>4 DEF GarbledInv
<1>10. ShownInv'
  <2>1. Shown' = Shown + n /\ Shown \in Nat
    BY <1>1, <1>5 DEF Shown, ClockInv, TypesOK
  <2>2. SUFFICES ASSUME Status # "timeNotSet", Shown + n < Y2100
                 PROVE  Shown + n = due' \/ (provider /\ chip'.running /\ (chip'.garbled \/ Shown + n = ChipTime'))
    BY <1>5, <2>1 DEF ShownInv
  <2>3. Shown < Y2100
    BY <1>1, <1>8, <2>1, <2>2
  <2>4. Shown = due \/ (provider /\ chip.running /\ (chip.garbled \/ Shown = ChipTime))
    BY <2>2, <2>3 DEF ClockInv, ShownInv
  <2>5. CASE Shown = due
    BY <1>5, <2>1, <2>5
  <2>6. CASE provider /\ chip.running /\ (chip.garbled \/ Shown = ChipTime)
    BY <1>2, <1>4, <2>2, <2>6 DEF GarbledInv
  <2> QED
    BY <2>4, <2>5, <2>6
<1> QED
  BY <1>6, <1>7, <1>9, <1>10 DEF ClockInv

\* Looking at the clock, also to change it in the time menu.
LEMMA LookOK ==
    ASSUME ClockInv, Take(Now(provider)), UNCHANGED <<provider, connected, chip, due, told>>,
           tm' = <<>> \/ tm' \in Date
    PROVE  ClockInv'
<1>1. provider \in BOOLEAN
  BY DEF ClockInv, TypesOK
<1>2. Now(provider) \in Result /\ Shows(Now(provider).sys, Now(provider).status)
  BY <1>1, NowOK
<1>3. /\ sysTime' \in Nat /\ late' \in Nat /\ nextSyncTime' \in Nat
      /\ Status' \in Statuses /\ Status' = Now(provider).status /\ Shown' = Now(provider).sys
  BY <1>2, TakeOK
<1>4. ChipTime' = ChipTime
  BY DEF ChipTime
<1>5. TypesOK'
  BY <1>3 DEF ClockInv, TypesOK, Statuses
<1>6. ShownInv'
  BY <1>2, <1>3, <1>4 DEF ShownInv, Shows
<1>7. GarbledInv' /\ ToldInv'
  BY <1>4 DEF ClockInv, GarbledInv, Valid, ToldInv
<1> QED
  BY <1>5, <1>6, <1>7 DEF ClockInv

LEMMA SetFieldOK ==
    \A f \in {"Year", "Month", "Day", "Hour", "Minute"} : \A v \in Limits(f) :
      ClockInv /\ SetField(f, v) => ClockInv'
<1> SUFFICES ASSUME NEW f \in {"Year", "Month", "Day", "Hour", "Minute"}, NEW v \in Limits(f),
                    ClockInv, SetField(f, v)
             PROVE  ClockInv'
  OBVIOUS
<1>1. PICK e : e = [tm EXCEPT ![f] = v]
  OBVIOUS
<1>2. tm \in Date
  BY DEF ClockInv, TypesOK, SetField
<1>3. e \in Date
  <2>1. CASE f = "Year"
    BY <1>1, <1>2, <2>1 DEF Limits, Date
  <2>2. CASE f = "Month"
    BY <1>1, <1>2, <2>2 DEF Limits, Date
  <2>3. CASE f = "Day"
    BY <1>1, <1>2, <2>3 DEF Limits, Date
  <2>4. CASE f = "Hour"
    BY <1>1, <1>2, <2>4 DEF Limits, Date
  <2>5. CASE f = "Minute"
    BY <1>1, <1>2, <2>5 DEF Limits, Date
  <2> QED
    BY <2>1, <2>2, <2>3, <2>4, <2>5
<1>4. /\ Take(SetTime(MakeTime(e))) /\ due' = MakeTime(e) /\ tm' = <<>>
      /\ chip' = (IF connected THEN Written(e) ELSE chip)
      /\ (told' = (connected /\ chip.answers /\ Keepable(e)))
      /\ provider' = provider /\ connected' = connected
  BY <1>1, Zenon DEF SetField
<1>5. MakeTime(e) \in Nat
  <2>1. /\ e.Minute \in 0..59 /\ e.Hour \in 0..23 /\ e.Day \in 1..31 /\ e.Month \in 1..12 /\ e.Year \in Nat
    BY <1>3 DEF Date
  <2>2. PICK a, b : a = DaysBeforeYear(e.Year) /\ b = DaysBeforeMonth(e.Year, e.Month)
    OBVIOUS
  <2>3. a \in Nat /\ b \in 0..335
    BY <2>1, <2>2, YearStep, MonthTable
  <2>4. MakeTime(e) = (a + b + e.Day - 1) * 1440 + e.Hour * 60 + e.Minute
    BY <2>2 DEF MakeTime
  <2>5. PICK k : k = a + b + e.Day - 1
    OBVIOUS
  <2>6. k \in Nat /\ MakeTime(e) = k * 1440 + e.Hour * 60 + e.Minute
    BY <2>1, <2>3, <2>4, <2>5
  <2> QED
    BY <2>1, <2>6
<1>6. /\ sysTime' \in Nat /\ late' \in Nat /\ nextSyncTime' \in Nat
      /\ Status' \in Statuses /\ Shown' = MakeTime(e)
  BY <1>4, <1>5, SetTimeOK, TakeOK
<1>7. ChipOK(chip) /\ GarbledInv
  BY DEF ClockInv, TypesOK
<1>8. /\ ChipOK(Written(e)) /\ (~chip.answers => Written(e) = chip)
      /\ chip.answers => (Written(e).running = TRUE /\ (Written(e).garbled = ~Keepable(e)))
      /\ chip.answers /\ Keepable(e) => Valid(Written(e)) /\ Fields(Written(e).registers) = e
  BY <1>3, <1>7, WrittenOK
<1>9. told' \in BOOLEAN
  BY <1>4, Zenon
<1>10. TypesOK'
  BY <1>4, <1>5, <1>6, <1>7, <1>8, <1>9 DEF ClockInv, TypesOK, Statuses
<1>11. GarbledInv'
  <2>1. CASE chip' = chip
    BY <1>7, <2>1 DEF GarbledInv, Valid
  <2>2. CASE chip' = Written(e) /\ chip.answers
    BY <1>8, <2>2 DEF GarbledInv, Valid
  <2> QED
    BY <1>4, <1>8, <2>1, <2>2
<1>12. ToldInv'
  <2>1. SUFFICES ASSUME told' PROVE ~chip'.garbled /\ chip'.running /\ ChipTime' = due'
    BY DEF ToldInv
  <2>2. connected /\ chip.answers /\ Keepable(e) /\ chip' = Written(e)
    BY <1>4, <2>1
  <2> QED
    BY <1>4, <1>8, <2>2 DEF ChipTime
<1>13. ShownInv'
  BY <1>4, <1>6 DEF ShownInv
<1> QED
  BY <1>10, <1>11, <1>12, <1>13 DEF ClockInv

LEMMA NextOK == ClockInv /\ [Next]_vars => ClockInv'
<1> SUFFICES ASSUME ClockInv, [Next]_vars PROVE ClockInv'
  OBVIOUS
<1>1. CASE Restart
  BY <1>1, RestartOK
<1>2. CASE Look
  BY <1>2, LookOK DEF Look
<1>3. CASE AssignRTC
  <2>1. Now(FALSE) \in Result /\ Shows(Now(FALSE).sys, Now(FALSE).status)
    BY NowOK
  <2> QED
    BY <1>3, <2>1, ConnectOK DEF AssignRTC
<1>4. CASE Unassign
  BY <1>4 DEF Unassign, clock, ClockInv, TypesOK, GarbledInv, Valid, ToldInv, ShownInv, ChipTime, Shown
<1>5. CASE ClientAssigns
  BY <1>5 DEF ClientAssigns, clock, ClockInv, TypesOK, GarbledInv, Valid, ToldInv, ShownInv, ChipTime, Shown
<1>6. CASE OpenTimeMenu
  <2>1. Now(provider) \in Result
    BY NowOK DEF ClockInv, TypesOK
  <2>2. sysTime' \in Nat
    BY <1>6, <2>1, TakeOK DEF OpenTimeMenu
  <2>3. tm' \in Date
    BY <1>6, <2>2, Broken DEF OpenTimeMenu
  <2> QED
    BY <1>6, <2>3, LookOK DEF OpenTimeMenu
<1>7. CASE LeaveTimeMenu
  BY <1>7 DEF LeaveTimeMenu, clock, ClockInv, TypesOK, GarbledInv, Valid, ToldInv, ShownInv, ChipTime, Shown
<1>8. CASE ChipComesOrGoes
  <2>1. PICK a \in BOOLEAN : a = ~chip.answers
    BY Zenon
  <2>2. chip \in ChipSet
    BY DEF ClockInv, TypesOK, ChipOK
  <2>3. chip' = [answers |-> a, running |-> chip.running, garbled |-> chip.garbled, registers |-> chip.registers]
    BY <1>8, <2>1, <2>2 DEF ChipComesOrGoes, ChipSet
  <2>4. chip' \in ChipSet
    BY <2>2, <2>3 DEF ChipSet
  <2>5. /\ chip'.running = chip.running /\ chip'.garbled = chip.garbled /\ chip'.registers = chip.registers
    BY <2>3
  <2>6. UNCHANGED <<clock, provider, connected, tm, due, told>> /\ ChipTime' = ChipTime /\ Shown' = Shown
    BY <1>8, <2>5 DEF ChipComesOrGoes, ChipTime, Shown, clock
  <2>7. TypesOK'
    BY <2>4, <2>5, <2>6 DEF ClockInv, TypesOK, ChipOK, clock
  <2>8. GarbledInv' /\ ToldInv' /\ ShownInv'
    BY <2>5, <2>6 DEF ClockInv, GarbledInv, Valid, ToldInv, ShownInv, clock
  <2> QED
    BY <2>7, <2>8 DEF ClockInv
<1>9. CASE \E n \in Steps : Elapse(n)
  BY <1>9, ElapseOK
<1>10. CASE \E t \in ClientTimes : ClientSets(t)
  <2>1. PICK t \in ClientTimes : ClientSets(t)
    BY <1>10
  <2>2. t \in Nat
    BY ClockAssumption
  <2>3. /\ sysTime' \in Nat /\ late' \in Nat /\ nextSyncTime' \in Nat
        /\ Status' \in Statuses /\ Shown' = t
    BY <2>1, <2>2, SetTimeOK, TakeOK DEF ClientSets
  <2>4. due' = t /\ told' = FALSE /\ UNCHANGED <<provider, connected, chip, tm>>
    BY <2>1 DEF ClientSets
  <2>5. TypesOK'
    BY <2>2, <2>3, <2>4 DEF ClockInv, TypesOK, Statuses
  <2> QED
    BY <2>3, <2>4, <2>5 DEF ClockInv, GarbledInv, Valid, ToldInv, ShownInv
<1>11. CASE \E f \in {"Year", "Month", "Day", "Hour", "Minute"} : \E v \in Limits(f) : SetField(f, v)
  BY <1>11, SetFieldOK
<1>12. CASE UNCHANGED vars
  BY <1>12 DEF vars, clock, ClockInv, TypesOK, GarbledInv, Valid, ToldInv, ShownInv, ChipTime, Shown
<1> QED
  BY <1>1, <1>2, <1>3, <1>4, <1>5, <1>6, <1>7, <1>8, <1>9, <1>10, <1>11, <1>12 DEF Next

LEMMA ClockInvariant == Spec => []ClockInv
<1> QED
  BY InitOK, NextOK, PTL DEF Spec

\* However menu, client, RTC and restarts set the time, and however it
\* passes, the clock goes on from what it was set to last or shows the
\* RTC's time, up to 2099.
THEOREM KeepsTimeHolds == Spec => []KeepsTime
<1>1. ClockInv => KeepsTime
  BY DEF ClockInv, ShownInv, KeepsTime
<1> QED
  BY <1>1, ClockInvariant, PTL

\* An RTC that was told of the time keeps it up to 2099, whatever the power
\* does to the station: the registers hold a date that exists.
THEOREM RTCKeepsTimeHolds == Spec => []RTCKeepsTime
<1>1. ClockInv => RTCKeepsTime
  BY DEF ClockInv, ToldInv, RTCKeepsTime
<1> QED
  BY <1>1, ClockInvariant, PTL

\* A time broken down and put together again is the same, and so is a date
\* written to the RTC's registers and read from them.
THEOREM ConversionsHold == Spec => []Conversions
<1>1. ClockInv => Conversions
  <2> SUFFICES ASSUME ClockInv PROVE Conversions
    OBVIOUS
  <2>1. Shown \in Nat
    BY DEF ClockInv, TypesOK, Shown
  <2>2. PICK e : e = BreakTime(Shown)
    OBVIOUS
  <2>3. e \in Date /\ Exists(e) /\ MakeTime(e) = Shown
    BY <2>1, <2>2, Broken
  <2>4. e.Year \in 30..129 => Fields(Registers(e)) = e
    BY <2>3, RegistersKeep
  <2>5. chip.answers \in BOOLEAN /\ chip.running \in BOOLEAN /\ chip.registers \in RegisterSet
    BY DEF ClockInv, TypesOK, ChipOK, ChipSet
  <2>6. \A f \in DOMAIN chip.registers : chip.registers[f] \in 0 .. 255
    BY <2>5 DEF RegisterSet
  <2>7. TypeOK
    BY <2>5, <2>6 DEF ClockInv, TypesOK, TypeOK
  <2> QED
    BY <2>2, <2>3, <2>4, <2>7 DEF Conversions
<1> QED
  BY <1>1, ClockInvariant, PTL
=============================================================================
