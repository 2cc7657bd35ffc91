------------------------------ MODULE Readings ------------------------------
(***************************************************************************)
(* From what the sensors give to the text that is shown, logged and sent:  *)
(* the numbers tried out in the calibration steps (Menu.h) and the line    *)
(* through them, the conversions of Sensors.h, and the light sensor, which *)
(* is told to measure by the reading before. A text is its length.         *)
(*                                                                         *)
(* Numbers are in tenths, frequencies and voltages in halves of a count    *)
(* (the mean of the samples of PHclear is a float); a float is a fraction  *)
(* and is not rounded.                                                     *)
(***************************************************************************)
EXTENDS Integers

CONSTANTS LongWrap,        \* 2^32
          Probe,           \* what the probe of pH or EC may give
          CalSteps,        \* bounds how far a standard is changed
          Celsius, Humidity, Raw16, Lights    \* what the other sensors may measure

Word == 256 * 256        \* the values of two bytes

ASSUME ReadingsAssumption ==
    /\ LongWrap \in Nat \ {0} /\ Probe \subseteq 0 .. LongWrap - 1 /\ CalSteps \in 0 .. 10
    /\ Celsius \subseteq -400 .. 800 /\ Humidity \subseteq 0 .. 1000
    /\ Raw16 \subseteq -(128 * 256) .. 128 * 256 - 1 /\ Lights \subseteq 0 .. Word - 1

VARIABLES kind,         \* of the sensor: "pH" or "EC" has a probe to calibrate, "plain" has none
          step,         \* of the calibration, with lowStandart, highStandart, lowValue
          constants,    \* x/A + B as (x * num + off) / den
          points,       \* the points of the last calibration
          light,        \* the light sensor: told to measure, and what it has measured
          shown         \* the text: its sensor, what it says, its length, what is true

readingVars == <<kind, step, constants, points, light, shown>>

Nothing == [of |-> "none", says |-> 0, chars |-> 0, true |-> 0]
NoStep == [at |-> "none", low |-> 0, high |-> 0, lowValue |-> 0]

\* A sensor counts in steps of its own; dtostrf writes them.
Digits(n) == IF n < 10 THEN 1 ELSE IF n < 100 THEN 2 ELSE IF n < 1000 THEN 3
             ELSE IF n < 10000 THEN 4 ELSE 5
Magnitude(n) == IF n < 0 THEN -n ELSE n
Sign(n) == IF n < 0 THEN 1 ELSE 0
Whole(n) == Sign(n) + Digits(Magnitude(n))                 \* dtostrf(n, 1, 0)
Tenths(n) == Sign(n) + Digits(Magnitude(n) \div 10) + 2    \* dtostrf(n / 10, 1, 1)

Text(of, says, chars, true) == shown' = [of |-> of, says |-> says, chars |-> chars, true |-> true]

-----------------------------------------------------------------------------
(***************************************************************************)
(* CalibFirstStep to CalibFourthStep                                       *)
(***************************************************************************)
Standard == IF kind = "pH" THEN [low |-> 40, high |-> 70] ELSE [low |-> 14, high |-> 42]

Calibrate ==
    /\ step.at = "none" /\ kind # "plain"
    /\ step' = [NoStep EXCEPT !.at = "first", !.low = Standard.low]
    /\ shown' = Nothing
    /\ UNCHANGED <<kind, constants, points, light>>

Try(field, n) ==
    /\ Magnitude(step[field] + n - Standard[field]) <= CalSteps
    /\ step' = [step EXCEPT ![field] = @ + n]
    /\ UNCHANGED <<kind, constants, points, light, shown>>
CalibKey(n) == (step.at = "first" /\ Try("low", n)) \/ (step.at = "second" /\ Try("high", n))

CalibSel ==
    /\ \/ step.at = "first" /\ step' = [step EXCEPT !.at = "second", !.high = Standard.high]
       \/ step.at = "second" /\ step' = [step EXCEPT !.at = "third"]
    /\ UNCHANGED <<kind, constants, points, light, shown>>

\* What the probe gives is cut to an unsigned long.
ThirdStep(x) ==
    /\ step.at = "third"
    /\ step' = [step EXCEPT !.at = "fourth", !.lowValue = x \div 2]
    /\ UNCHANGED <<kind, constants, points, light, shown>>

\* The difference of the values is one of unsigned longs.
Line(low, high, lowValue, highValue) ==
    LET dx == (highValue - lowValue) % LongWrap
    IN  [num |-> high - low, den |-> dx, off |-> high * dx - highValue * (high - low)]
FourthStep(x) ==
    /\ step.at = "fourth"
    /\ constants' = Line(step.low, step.high, step.lowValue, x \div 2)
    /\ points' = [low |-> step.low, high |-> step.high, lowValue |-> step.lowValue, highValue |-> x \div 2]
    /\ step' = NoStep
    /\ UNCHANGED <<kind, light, shown>>

CalibBack ==
    /\ step.at \in {"first", "second"} /\ step' = NoStep
    /\ UNCHANGED <<kind, constants, points, light, shown>>

-----------------------------------------------------------------------------
(***************************************************************************)
(* The readings of a pass of the main loop                                 *)
(***************************************************************************)
Show == step.at = "none" /\ shown = Nothing /\ UNCHANGED <<kind, step, constants, points>>
Plain == Show /\ kind = "plain"

\* The value as a fraction; one without a denominator is no number.
Value(x) == <<x * constants.num + 2 * constants.off, 2 * constants.den>>
Limit == IF kind = "pH" THEN 140 ELSE 200
OutOf(v) == v[2] # 0 /\ (v[1] < 0 \/ v[1] > Limit * v[2])

\* readPH and readEC: a frequency of 0 is not converted.
ReadProbe(x) ==
    LET v == IF kind = "EC" /\ x \div 2 = 0 THEN <<0, 1>> ELSE Value(IF kind = "EC" THEN 2 * (x \div 2) ELSE x)
    IN  /\ Show /\ kind # "plain"
        /\ Text(kind, v, IF v[2] = 0 \/ OutOf(v) THEN 6 ELSE 3 + Tenths(v[1] \div v[2]), x)
        /\ UNCHANGED light

\* The bytes of a DHT22 (external): the temperature's sign is its highest bit.
DHT22(t, h) == <<h \div 256, h % 256, (Magnitude(t) \div 256) + 128 * Sign(t), Magnitude(t) % 256>>
readTemperature(type, data) ==
    IF type = "DHT11" THEN 10 * data[3]
    ELSE ((data[3] % 128) * 256 + data[4]) * (IF data[3] >= 128 THEN -1 ELSE 1)
readHumidity(type, data) == IF type = "DHT11" THEN 10 * data[1] ELSE data[1] * 256 + data[2]

ReadDHT(type, t, h) ==
    LET data == IF type = "DHT22" THEN DHT22(t, h) ELSE <<h \div 10, 0, t \div 10, 0>>
        temp == readTemperature(type, data)
        hum  == readHumidity(type, data)
    IN  /\ Plain /\ (type = "DHT11" => t >= 0)
        /\ Text(type, <<temp, hum>>, Tenths(temp) + 1 + Whole((hum + 5) \div 10),
                IF type = "DHT22" THEN <<t, h>> ELSE <<10 * (t \div 10), 10 * (h \div 10)>>)
        /\ UNCHANGED light

\* Two bytes are an int of 16 bits.
Int16(high, low) == LET n == high * 256 + low IN IF n >= 128 * 256 THEN n - Word ELSE n
ReadDS18B20(raw) ==
    LET n == Int16((raw % Word) \div 256, raw % 256)
        tenths == (Magnitude(n) * 10 + 8) \div 16
    IN  /\ Plain
        /\ Text("DS18B20", n, Sign(n) + Tenths(tenths), raw)
        /\ UNCHANGED light

ReadCO2(x) ==
    /\ Plain /\ x \div 2 < 1024
    /\ Text("CO2", ((x \div 2) * 5000) \div 1024, Whole(((x \div 2) * 5000 + 512) \div 1024) + 3, x)
    /\ UNCHANGED light

\* BH1750read: two bytes are asked for before the command to measure, which
\* was begun first, is sent by endTransmission. Division is towards 0.
Lux(n) == LET lx == (Magnitude(n) * 10) \div 12 IN IF n < 0 THEN -lx ELSE lx
ReadLight(there) ==
    LET n == IF there THEN Int16(light.result \div 256, light.result % 256) ELSE 0
    IN  /\ Plain
        /\ Text("BH1750", Lux(n), Whole(Lux(n)) + 3, light)
        /\ light' = [light EXCEPT !.told = there]

\* The next pass begins, after its wait.
NextPass ==
    /\ shown # Nothing /\ shown' = Nothing
    /\ UNCHANGED <<kind, step, constants, points, light>>

\* The light sensor (external) measures when it has been told to; one that loses its
\* power forgets.
Measure(l) ==
    /\ kind = "plain"
    /\ light' = IF light.told THEN [light EXCEPT !.result = l] ELSE light
    /\ UNCHANGED <<kind, step, constants, points>> /\ shown' = Nothing
LightGoes ==
    /\ kind = "plain"
    /\ light' = [told |-> FALSE, result |-> 0]
    /\ UNCHANGED <<kind, step, constants, points>> /\ shown' = Nothing

-----------------------------------------------------------------------------
\* BareLoader has stored A = B = 1.
ReadingsInit ==
    /\ kind \in {"pH", "EC", "plain"} /\ step = NoStep
    /\ constants = [num |-> 10, den |-> 1, off |-> 10]
    /\ points = [low |-> 0, high |-> 0, lowValue |-> 0, highValue |-> 0]
    /\ light = [told |-> FALSE, result |-> 0] /\ shown = Nothing

ReadingsNext ==
    \/ NextPass \/ Calibrate \/ CalibSel \/ CalibBack \/ \E n \in {-1, 1} : CalibKey(n)
    \/ \E x \in Probe : ThirdStep(x) \/ FourthStep(x) \/ ReadProbe(x) \/ ReadCO2(x)
    \/ \E t \in Celsius, h \in Humidity, type \in {"DHT11", "DHT22"} : ReadDHT(type, t, h)
    \/ \E raw \in Raw16 : ReadDS18B20(raw)
    \/ \E there \in BOOLEAN : ReadLight(there)
    \/ LightGoes \/ \E l \in Lights : Measure(l)

-----------------------------------------------------------------------------
\* Between the points of a calibration whose values rise, a reading lies
\* between their standards, and in a point it is the standard. (A frequency of
\* 0 is shown as 0.)
OnTheLine ==
    LET v == shown.says
    IN  shown.of \in {"pH", "EC"} /\ points.lowValue < points.highValue /\ points.low < points.high
        /\ (kind = "EC" => shown.true >= 2) =>
          /\ shown.true \in 2 * points.lowValue .. 2 * points.highValue =>
               v[2] > 0 /\ points.low * v[2] <= v[1] /\ v[1] <= points.high * v[2]
          /\ shown.true = 2 * points.lowValue => v[1] = points.low * v[2]
          /\ shown.true = 2 * points.highValue => v[1] = points.high * v[2]

\* Temperatures below zero keep their sign, and light that is shown was
\* measured after the reading before, or there was none and it is 0.
Decoded ==
    /\ shown.of \in {"DHT11", "DHT22", "DS18B20"} => shown.says = shown.true
    /\ shown.of = "BH1750" /\ shown.true.result < 128 * 256 =>
         shown.says = (shown.true.result * 10) \div 12 \/ (~light.told /\ shown.says = 0)

\* A text and its end fit into the nine characters of its buffer, and its line
\* into the eleven that SensApl reads, but for a DHT22 at less than -9.9
\* degrees in air that is wet through and light of which an int is negative.
Frost == shown.of = "DHT22" /\ shown.says[1] <= -100 /\ shown.says[2] >= 995
Glare == shown.of = "BH1750" /\ shown.says <= -10000
Fits == shown.chars < IF Frost \/ Glare THEN 11 ELSE 9

ReadingsTrue == OnTheLine /\ Decoded /\ Fits
=============================================================================
