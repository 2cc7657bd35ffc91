--------------------------- MODULE SensorsProofs ---------------------------
(***************************************************************************)
(* Proofs about Sensors, part by part: what is measured of a pulse, what a *)
(* DHT train and the 1-Wire bus give, and what is made of the readings.    *)
(* Each part has an inductive invariant of its own, about its variables    *)
(* only, so that the steps of the other parts keep it.                     *)
(***************************************************************************)
EXTENDS Sensors, TLAPS, SequenceTheorems, NaturalsInduction, WellFoundedInduction

-----------------------------------------------------------------------------
\* Division with a remainder

LEMMA DivMod ==
    ASSUME NEW a \in Int, NEW w \in Nat \ {0}
    PROVE  a \div w \in Int /\ a % w \in 0 .. w - 1 /\ a = w * (a \div w) + (a % w)
OBVIOUS

LEMMA ModUnique ==
    ASSUME NEW w \in Nat \ {0}, NEW q \in Int, NEW r \in 0 .. w - 1
    PROVE  (w * q + r) % w = r /\ (w * q + r) \div w = q
OBVIOUS

LEMMA ModSame ==
    ASSUME NEW a \in Int, NEW k \in Int, NEW w \in Nat \ {0}
    PROVE  (a + w * k) % w = a % w
<1>1. PICK q \in Int, r \in 0 .. w - 1 : a = w * q + r /\ r = a % w
  BY DivMod
<1>2. a + w * k = w * (q + k) + r
  BY <1>1
<1>3. q + k \in Int
  OBVIOUS
<1> QED
  BY ZenonT(40), <1>1, <1>2, <1>3, ModUnique

LEMMA ModAdd ==
    ASSUME NEW a \in Int, NEW b \in Int, NEW c \in Int, NEW w \in Nat \ {0}, a % w = b % w
    PROVE  (a + c) % w = (b + c) % w
<1>1. PICK k \in Int : a = b + w * k
  <2>1. a = w * (a \div w) + (a % w) /\ b = w * (b \div w) + (b % w)
    BY DivMod
  <2>2. (a \div w) - (b \div w) \in Int /\ a \div w \in Int /\ b \div w \in Int
    BY DivMod
  <2>3. a = b + w * ((a \div w) - (b \div w))
    BY <2>1, <2>2
  <2> QED
    BY <2>2, <2>3
<1>2. a + c = (b + c) + w * k
  BY <1>1
<1>3. b + c \in Int
  OBVIOUS
<1>4. ((b + c) + w * k) % w = (b + c) % w
  BY <1>3, ModSame
<1> QED
  BY <1>2, <1>4

LEMMA ModTwice ==
    ASSUME NEW a \in Int, NEW w \in Nat \ {0}
    PROVE  (a % w) % w = a % w
<1>1. PICK r \in 0 .. w - 1 : r = a % w
  BY DivMod
<1>2. (w * 0 + r) % w = r
  BY ModUnique
<1>3. w * 0 + r = r
  OBVIOUS
<1> QED
  BY <1>1, <1>2, <1>3

LEMMA ModMod ==
    ASSUME NEW a \in Int, NEW b \in Nat \ {0}, NEW c \in Nat \ {0}, b % c = 0
    PROVE  (a % b) % c = a % c
<1>1. a = b * (a \div b) + (a % b) /\ a \div b \in Int /\ a % b \in Int
  BY DivMod
<1>2. PICK m \in Int : b = c * m
  <2>1. b = c * (b \div c) + (b % c) /\ b \div c \in Int
    BY DivMod
  <2> QED
    BY <2>1
<1>3. PICK q, r : q = a \div b /\ r = a % b
  OBVIOUS
<1>4. q \in Int /\ r \in Int /\ m * q \in Int
  BY <1>1, <1>2, <1>3
<1>5. a = b * q + r
  BY <1>1, <1>3
<1>6. a = r + c * (m * q)
  BY <1>2, <1>4, <1>5
<1>7. (r + c * (m * q)) % c = r % c
  BY <1>4, ModSame
<1> QED
  BY <1>3, <1>6, <1>7

LEMMA ModDiff ==
    ASSUME NEW a \in Int, NEW b \in Int, NEW c \in Int, NEW w \in Nat \ {0}
    PROVE  ((a % w) - (b % w) + c) % w = (a - b + c) % w
<1>1. PICK q, r : q = a \div w /\ r = a % w
  OBVIOUS
<1>2. PICK p, s : p = b \div w /\ s = b % w
  OBVIOUS
<1>3. /\ q \in Int /\ r \in Int /\ a = w * q + r
      /\ p \in Int /\ s \in Int /\ b = w * p + s
  BY <1>1, <1>2, DivMod
<1>4. a - b + c = (r - s + c) + w * (q - p)
  BY <1>3
<1>5. r - s + c \in Int /\ q - p \in Int
  BY <1>3
<1>6. ((r - s + c) + w * (q - p)) % w = (r - s + c) % w
  BY <1>5, ModSame
<1> QED
  BY <1>1, <1>2, <1>4, <1>6

-----------------------------------------------------------------------------
\* Pulses

PulseTypes ==
    /\ now \in 0 .. Wrap - 1 /\ maxTime \in 0 .. Wrap - 1
    /\ line \in BOOLEAN /\ wrapped \in BOOLEAN
    /\ age \in Nat /\ pulse \in 0 .. OldAge

\* Since the deadline was set.
Elapsed == now - maxTime + EchoTime

\* A pulse that was there before is found out by its age; one that is timed
\* began at most a look before its timing.
PulseSteps ==
    ~wrapped =>
      /\ at = "clear" /\ line = Level => age >= OldAge \/ age >= now - maxTime + SensorDelay
      /\ at = "start" /\ line = Level => age >= OldAge \/ age <= Tick
      /\ at = "run" /\ line = Level =>
           age >= OldAge \/ \E delta \in 0 .. Tick : Elapsed % Wrap = (age - delta) % Wrap
      /\ at = "run" /\ line # Level /\ pulse \in 1 .. SensorDelay =>
           \E error \in -Tick .. Tick : Elapsed % Wrap = (pulse + error) % Wrap

PulseInv == PulseTypes /\ PulseSteps /\ Measured

LEMMA PulseConstants ==
    /\ Wrap \in Nat \ {0} /\ IntWrap \in Nat \ {0} /\ Wrap % IntWrap = 0 /\ SensorDelay \in Nat \ {0}
    /\ Tick \in Nat \ {0} /\ Overhead \in Nat /\ OldAge \in Nat \ {0} /\ EchoTime \in Nat \ {0}
    /\ OldAge = SensorDelay + 1
BY PulseAssumption DEF OldAge, EchoTime

\* A step of time keeps the types, and adds to what has passed.
LEMMA PassesOK ==
    ASSUME PulseTypes, NEW next, Passes(next)
    PROVE  /\ now' \in 0 .. Wrap - 1 /\ line' \in BOOLEAN
           /\ age' \in Nat /\ pulse' \in 0 .. OldAge
           /\ \E d \in 1 .. Tick :
                /\ now' = (now + d) % Wrap /\ now' <= now + d
                /\ \/ /\ line' = line
                      /\ age' >= OldAge \/ age' = age + d
                      /\ age + d >= OldAge => age' >= OldAge
                   \/ \E e \in 0 .. d - 1 :
                        /\ line' = ~line /\ age' = d - e /\ age' <= Tick
                        /\ next = "run" /\ line = Level =>
                             IF age + e > OldAge THEN pulse' = OldAge ELSE pulse' = age + e
<1>1. /\ Wrap \in Nat \ {0} /\ Tick \in Nat \ {0} /\ OldAge \in Nat \ {0}
  BY PulseConstants
<1>2. PICK d \in 1 .. Tick :
        /\ now' = (now + d) % Wrap
        /\ \/ /\ line' = line /\ pulse' = pulse
              /\ age' = IF age + d > OldAge THEN OldAge ELSE age + d
           \/ \E e \in 0 .. d - 1 :
                /\ age + e > Tick
                /\ line' = ~line /\ age' = d - e
                /\ pulse' = IF next = "run" /\ line = Level
                            THEN (IF age + e > OldAge THEN OldAge ELSE age + e) ELSE 0
  BY DEF Passes
<1>3. now \in 0 .. Wrap - 1 /\ age \in Nat /\ pulse \in 0 .. OldAge /\ line \in BOOLEAN
  BY DEF PulseTypes
<1>4. d \in Nat /\ now + d \in Nat
  BY <1>1, <1>3
<1>5. now' \in 0 .. Wrap - 1 /\ now' <= now + d
  <2> DEFINE m == now + d
  <2>1. m \in Int /\ m \in Nat /\ now' = m % Wrap
    BY <1>2, <1>4
  <2> HIDE DEF m
  <2>2. m \div Wrap \in Int /\ m % Wrap \in 0 .. Wrap - 1 /\ m = Wrap * (m \div Wrap) + (m % Wrap)
    BY <1>1, <2>1, DivMod
  <2>3. PICK q, r : q = m \div Wrap /\ r = m % Wrap
    OBVIOUS
  <2>4. q \in Int /\ r \in 0 .. Wrap - 1 /\ m = Wrap * q + r /\ now' = r
    BY <2>1, <2>2, <2>3
  <2>5. q >= 0
    <3>1. SUFFICES ASSUME q <= -1 PROVE FALSE
      BY <2>4
    <3>2. Wrap * q <= -Wrap
      BY <1>1, <2>4, <3>1
    <3> QED
      BY <1>1, <2>1, <2>4, <3>2
  <2>6. Wrap * q >= 0
    BY <1>1, <2>4, <2>5
  <2>7. now' \in 0 .. Wrap - 1 /\ now' <= m
    BY <1>1, <2>1, <2>4, <2>6
  <2> QED
    BY <2>7 DEF m
<1>6. CASE line' = line /\ pulse' = pulse /\ age' = IF age + d > OldAge THEN OldAge ELSE age + d
  <2>1. age' \in Nat /\ (age' >= OldAge \/ age' = age + d) /\ (age + d >= OldAge => age' >= OldAge)
    BY <1>1, <1>3, <1>4, <1>6
  <2> QED
    BY <1>2, <1>3, <1>5, <1>6, <2>1
<1>7. CASE \E e \in 0 .. d - 1 :
             /\ age + e > Tick
             /\ line' = ~line /\ age' = d - e
             /\ pulse' = IF next = "run" /\ line = Level
                         THEN (IF age + e > OldAge THEN OldAge ELSE age + e) ELSE 0
  <2>1. PICK e \in 0 .. d - 1 :
             /\ line' = ~line /\ age' = d - e
             /\ pulse' = IF next = "run" /\ line = Level
                         THEN (IF age + e > OldAge THEN OldAge ELSE age + e) ELSE 0
    BY <1>7
  <2>2. age' \in Nat /\ age' <= Tick
    BY <1>1, <1>4, <2>1
  <2>3. pulse' \in 0 .. OldAge
    BY <1>1, <1>3, <1>4, <2>1
  <2>4. next = "run" /\ line = Level =>
          IF age + e > OldAge THEN pulse' = OldAge ELSE pulse' = age + e
    BY <2>1
  <2>5. line' \in BOOLEAN /\ line' = ~line
    BY <2>1
  <2> QED
    BY <1>2, <1>5, <2>1, <2>2, <2>3, <2>4, <2>5
<1> QED
  BY <1>2, <1>6, <1>7

\* What has passed since the deadline was set grows with the time.
LEMMA ElapsedGrows ==
    ASSUME PulseTypes, UNCHANGED <<maxTime, call>>, NEW d \in Nat, now' = (now + d) % Wrap
    PROVE  Elapsed' % Wrap = (Elapsed + d) % Wrap /\ Elapsed \in Int
<1>1. Wrap \in Nat \ {0} /\ EchoTime \in Int /\ now \in Int /\ maxTime \in Int
  BY PulseConstants DEF PulseTypes
<1>2. EchoTime' = EchoTime /\ maxTime' = maxTime
  BY DEF EchoTime
<1> DEFINE m == now + d
           c == EchoTime - maxTime
<1>3. m \in Int /\ c \in Int
  BY <1>1
<1>4. Elapsed' = (m % Wrap) + c
  <2>1. m % Wrap \in Int
    BY <1>1, <1>3, DivMod
  <2> HIDE DEF m
  <2>2. now' = m % Wrap
    BY DEF m
  <2> QED
    BY <1>1, <1>2, <2>1, <2>2 DEF Elapsed
<1>5. Elapsed + d = m + c
  BY <1>1 DEF Elapsed
<1> HIDE DEF m, c
<1>6. (m % Wrap) \in Int /\ (m % Wrap) % Wrap = m % Wrap
  <2>1. m % Wrap \in 0 .. Wrap - 1
    BY <1>1, <1>3, DivMod
  <2>2. (m % Wrap) % Wrap = m % Wrap
    BY <1>1, <1>3, ModTwice
  <2> QED
    BY <1>1, <2>1, <2>2
<1>7. ((m % Wrap) + c) % Wrap = (m + c) % Wrap
  BY ZenonT(40), <1>1, <1>3, <1>6, ModAdd
<1> QED
  BY <1>1, <1>4, <1>5, <1>7 DEF Elapsed

LEMMA ElapsedStarts ==
    ASSUME PulseTypes, UNCHANGED call, NEW d \in Nat, now' = (now + d) % Wrap,
           maxTime' = (now + EchoTime) % Wrap
    PROVE  Elapsed' % Wrap = d % Wrap
<1>1. Wrap \in Nat \ {0} /\ EchoTime \in Int /\ now \in Int
  BY PulseConstants DEF PulseTypes
<1>2. EchoTime' = EchoTime
  BY DEF EchoTime
<1> DEFINE a == now + d
           b == now + EchoTime
           c == EchoTime
<1>3. a \in Int /\ b \in Int /\ c \in Int /\ a - b + c = d
  BY <1>1
<1>4. Elapsed' = (a % Wrap) - (b % Wrap) + c
  BY <1>2 DEF Elapsed
<1> HIDE DEF a, b, c
<1>5. ((a % Wrap) - (b % Wrap) + c) % Wrap = (a - b + c) % Wrap
  BY ZenonT(40), <1>1, <1>3, ModDiff
<1> QED
  BY <1>3, <1>4, <1>5

LEMMA LookClearOK == PulseInv /\ LookClear => PulseInv'
<1> SUFFICES ASSUME PulseInv, LookClear PROVE PulseInv'
  OBVIOUS
<1>1. PulseTypes /\ PulseSteps
  BY DEF PulseInv
<1>2. /\ at = "clear" /\ UNCHANGED <<call, maxTime, wrapped, sum, left, result>>
      /\ at' \in {"clear", "start"} /\ Passes(at')
      /\ at' = "clear" => line = Level
      /\ at' = "start" => ~(line = Level /\ now <= maxTime)
  BY DEF LookClear, Kept, Goes
<1>3. PICK d \in 1 .. Tick :
        /\ now' \in 0 .. Wrap - 1 /\ line' \in BOOLEAN /\ age' \in Nat /\ pulse' \in 0 .. OldAge
        /\ now' = (now + d) % Wrap /\ now' <= now + d
        /\ \/ /\ line' = line
              /\ age' >= OldAge \/ age' = age + d
              /\ age + d >= OldAge => age' >= OldAge
           \/ line' = ~line /\ age' <= Tick
  BY <1>1, <1>2, PassesOK
<1>4. Level' = Level /\ EchoTime' = EchoTime /\ OldAge' = OldAge /\ Level \in BOOLEAN
  BY <1>2 DEF Level, EchoTime, OldAge
<1>5. PulseTypes'
  BY <1>1, <1>2, <1>3, <1>4 DEF PulseTypes
<1>6. /\ now \in Nat /\ maxTime \in Nat /\ age \in Nat /\ line \in BOOLEAN /\ d \in Nat
      /\ now' \in Nat /\ age' \in Nat /\ OldAge \in Nat /\ SensorDelay \in Nat /\ OldAge = SensorDelay + 1
  BY <1>1, <1>3, PulseConstants DEF PulseTypes
<1>7. ~wrapped /\ line = Level => age >= OldAge \/ age >= now - maxTime + SensorDelay
  BY <1>1, <1>2 DEF PulseSteps
<1>8. ~wrapped /\ at' = "clear" /\ line' = Level => age' >= OldAge \/ age' >= now' - maxTime + SensorDelay
  BY <1>2, <1>3, <1>6, <1>7, <1>4
<1>9. ~wrapped /\ at' = "start" /\ line' = Level => age' >= OldAge \/ age' <= Tick
  <2>1. SUFFICES ASSUME ~wrapped, at' = "start", line' = Level, line' = line
                 PROVE  age' >= OldAge
    BY <1>3, <1>4, <1>6
  <2>2. age >= OldAge
    BY <1>2, <1>6, <1>7, <2>1
  <2> QED
    BY <1>3, <1>4, <1>6, <2>1, <2>2
<1>10. PulseSteps'
  BY <1>2, <1>4, <1>8, <1>9 DEF PulseSteps
<1>11. Measured'
  BY <1>2 DEF Measured
<1> QED
  BY <1>5, <1>10, <1>11 DEF PulseInv

LEMMA LookStartOK == PulseInv /\ LookStart => PulseInv'
<1> SUFFICES ASSUME PulseInv, LookStart PROVE PulseInv'
  OBVIOUS
<1>1. PulseTypes /\ PulseSteps
  BY DEF PulseInv
<1>2. at = "start" /\ UNCHANGED <<call, wrapped>>
  BY DEF LookStart, Kept, Still
<1>3. Level' = Level /\ EchoTime' = EchoTime /\ OldAge' = OldAge /\ Level \in BOOLEAN
  BY <1>2 DEF Level, EchoTime, OldAge
<1>4. /\ now \in Nat /\ maxTime \in Nat /\ age \in Nat /\ line \in BOOLEAN
      /\ Tick \in Nat /\ OldAge \in Nat /\ SensorDelay \in Nat /\ OldAge = SensorDelay + 1
  BY <1>1, PulseConstants DEF PulseTypes
<1>5. CASE line # Level /\ Kept /\ Goes("start")
  <2>1. at' = "start" /\ Passes("start") /\ UNCHANGED <<maxTime, result>>
    BY <1>5 DEF Goes, Kept
  <2>2. PICK d \in 1 .. Tick :
          /\ now' \in 0 .. Wrap - 1 /\ line' \in BOOLEAN /\ age' \in Nat /\ pulse' \in 0 .. OldAge
          /\ line' = line \/ age' <= Tick
    BY <1>1, <2>1, PassesOK
  <2>3. PulseTypes'
    BY <1>1, <1>2, <1>3, <2>1, <2>2 DEF PulseTypes
  <2>4. PulseSteps'
    BY <1>2, <1>3, <1>5, <2>1, <2>2 DEF PulseSteps
  <2> QED
    BY <2>1, <2>3, <2>4 DEF PulseInv, Measured
<1>6. CASE at' = "back" /\ result' = 0 /\ Still /\ UNCHANGED <<maxTime, wrapped>>
  <2>1. PulseTypes'
    BY <1>1, <1>3, <1>6 DEF PulseTypes, Still
  <2> QED
    BY <1>6, <2>1 DEF PulseInv, PulseSteps, Measured
<1>7. CASE line = Level /\ maxTime' = (now + EchoTime) % Wrap /\ Goes("run")
  <2>1. at' = "run" /\ Passes("run")
    BY <1>7 DEF Goes
  <2>2. PICK d \in 1 .. Tick :
          /\ now' \in 0 .. Wrap - 1 /\ line' \in BOOLEAN /\ age' \in Nat /\ pulse' \in 0 .. OldAge
          /\ now' = (now + d) % Wrap
          /\ \/ /\ line' = line
                /\ age' >= OldAge \/ age' = age + d
                /\ age + d >= OldAge => age' >= OldAge
             \/ \E e \in 0 .. d - 1 :
                  line' = ~line /\ IF age + e > OldAge THEN pulse' = OldAge ELSE pulse' = age + e
    BY <1>1, <1>7, <2>1, PassesOK
  <2>3. maxTime' \in 0 .. Wrap - 1
    <3>1. now + EchoTime \in Int /\ Wrap \in Nat \ {0}
      BY <1>4, PulseConstants
    <3> QED
      BY <1>7, <3>1, DivMod
  <2>4. PulseTypes'
    BY <1>1, <1>2, <1>3, <2>2, <2>3 DEF PulseTypes
  <2>5. d \in Nat /\ Elapsed' % Wrap = d % Wrap
    BY <1>1, <1>2, <1>4, <1>7, <2>2, ElapsedStarts
  <2>6. ~wrapped => age >= OldAge \/ age <= Tick
    BY <1>1, <1>2, <1>7 DEF PulseSteps
  <2>7. ~wrapped /\ line' = Level =>
          age' >= OldAge \/ \E delta \in 0 .. Tick : Elapsed' % Wrap = (age' - delta) % Wrap
    <3>1. SUFFICES ASSUME ~wrapped, line' = Level, ~(age' >= OldAge)
                   PROVE  \E delta \in 0 .. Tick : Elapsed' % Wrap = (age' - delta) % Wrap
      OBVIOUS
    <3>2. age' = age + d
      BY <1>3, <1>4, <1>7, <2>2, <3>1
    <3>3. ~(age >= OldAge)
      BY <1>4, <2>2, <2>5, <3>1, <3>2
    <3>4. age \in 0 .. Tick /\ age' - age = d
      BY <1>4, <2>5, <2>6, <3>1, <3>2, <3>3
    <3> QED
      BY <2>5, <3>4
  <2>8. ~wrapped /\ line' # Level /\ pulse' \in 1 .. SensorDelay =>
          \E error \in -Tick .. Tick : Elapsed' % Wrap = (pulse' + error) % Wrap
    <3>1. SUFFICES ASSUME ~wrapped, line' # Level, pulse' \in 1 .. SensorDelay
                   PROVE  \E error \in -Tick .. Tick : Elapsed' % Wrap = (pulse' + error) % Wrap
      OBVIOUS
    <3>2. PICK e \in 0 .. d - 1 : IF age + e > OldAge THEN pulse' = OldAge ELSE pulse' = age + e
      BY <1>7, <2>2, <3>1
    <3>3. e \in Nat /\ e <= d - 1 /\ pulse' = age + e /\ age + e <= OldAge
      BY <1>4, <2>5, <3>1, <3>2
    <3>4. age <= Tick
      BY <1>4, <2>6, <3>1, <3>3
    <3>5. d - pulse' \in -Tick .. Tick /\ pulse' + (d - pulse') = d
      BY <1>4, <2>2, <3>3, <3>4
    <3> QED
      BY <2>5, <3>5
  <2>9. PulseSteps'
    BY <1>2, <1>3, <2>1, <2>7, <2>8 DEF PulseSteps
  <2> QED
    BY <2>1, <2>4, <2>9 DEF PulseInv, Measured
<1> QED
  BY <1>5, <1>6, <1>7 DEF LookStart

LEMMA LookRunOK == PulseInv /\ LookRun => PulseInv'
<1> SUFFICES ASSUME PulseInv, LookRun PROVE PulseInv'
  OBVIOUS
<1>1. PulseTypes /\ PulseSteps
  BY DEF PulseInv
<1>2. at = "run" /\ UNCHANGED <<call, maxTime, wrapped>>
  BY DEF LookRun, Kept, Still
<1>3. Level' = Level /\ EchoTime' = EchoTime /\ OldAge' = OldAge /\ Level \in BOOLEAN
  BY <1>2 DEF Level, EchoTime, OldAge
<1>4. /\ now \in Nat /\ maxTime \in Nat /\ age \in Nat /\ line \in BOOLEAN /\ Wrap \in Nat \ {0}
      /\ Tick \in Nat /\ OldAge \in Nat /\ SensorDelay \in Nat /\ OldAge = SensorDelay + 1
  BY <1>1, PulseConstants DEF PulseTypes
<1>5. CASE line = Level /\ Kept /\ Goes("run")
  <2>1. at' = "run" /\ Passes("run")
    BY <1>5 DEF Goes
  <2>2. PICK d \in 1 .. Tick :
          /\ now' \in 0 .. Wrap - 1 /\ line' \in BOOLEAN /\ age' \in Nat /\ pulse' \in 0 .. OldAge
          /\ now' = (now + d) % Wrap
          /\ \/ /\ line' = line
                /\ age' >= OldAge \/ age' = age + d
                /\ age + d >= OldAge => age' >= OldAge
             \/ \E e \in 0 .. d - 1 :
                  line' = ~line /\ IF age + e > OldAge THEN pulse' = OldAge ELSE pulse' = age + e
    BY <1>1, <1>5, <2>1, PassesOK
  <2>3. PulseTypes'
    BY <1>1, <1>2, <1>3, <2>2 DEF PulseTypes
  <2>4. d \in Nat /\ Elapsed' % Wrap = (Elapsed + d) % Wrap /\ Elapsed \in Int
    BY <1>1, <1>2, <1>4, <2>2, ElapsedGrows
  <2>5. ~wrapped => age >= OldAge \/ \E delta \in 0 .. Tick : Elapsed % Wrap = (age - delta) % Wrap
    BY <1>1, <1>2, <1>5 DEF PulseSteps
  <2>6. ASSUME NEW delta \in 0 .. Tick, Elapsed % Wrap = (age - delta) % Wrap
        PROVE  Elapsed' % Wrap = (age - delta + d) % Wrap
    <3>1. PICK a, b : a = Elapsed /\ b = age - delta
      OBVIOUS
    <3>2. a \in Int /\ b \in Int /\ d \in Int /\ a % Wrap = b % Wrap
      BY <1>4, <2>4, <2>6, <3>1
    <3>3. (a + d) % Wrap = (b + d) % Wrap
      BY <1>4, <3>2, ModAdd
    <3> QED
      BY <2>4, <3>1, <3>3
  <2>7. ~wrapped /\ line' = Level =>
          age' >= OldAge \/ \E delta \in 0 .. Tick : Elapsed' % Wrap = (age' - delta) % Wrap
    <3>1. SUFFICES ASSUME ~wrapped, line' = Level, ~(age' >= OldAge)
                   PROVE  \E delta \in 0 .. Tick : Elapsed' % Wrap = (age' - delta) % Wrap
      OBVIOUS
    <3>2. age' = age + d /\ ~(age >= OldAge)
      BY <1>3, <1>4, <1>5, <2>2, <2>4, <3>1
    <3>3. PICK delta \in 0 .. Tick : Elapsed % Wrap = (age - delta) % Wrap
      BY <2>5, <3>1, <3>2
    <3>4. age' - delta = age - delta + d
      BY <1>4, <2>4, <3>2, <3>3
    <3> QED
      BY <2>6, <3>3, <3>4
  <2>8. ~wrapped /\ line' # Level /\ pulse' \in 1 .. SensorDelay =>
          \E error \in -Tick .. Tick : Elapsed' % Wrap = (pulse' + error) % Wrap
    <3>1. SUFFICES ASSUME ~wrapped, line' # Level, pulse' \in 1 .. SensorDelay
                   PROVE  \E error \in -Tick .. Tick : Elapsed' % Wrap = (pulse' + error) % Wrap
      OBVIOUS
    <3>2. PICK e \in 0 .. d - 1 : IF age + e > OldAge THEN pulse' = OldAge ELSE pulse' = age + e
      BY <1>5, <2>2, <3>1
    <3>3. e \in Nat /\ e <= d - 1 /\ pulse' = age + e
      BY <1>4, <2>4, <3>1, <3>2
    <3>4. pulse' # OldAge /\ ~(age >= OldAge)
      BY <1>4, <3>1, <3>3
    <3>5. PICK delta \in 0 .. Tick : Elapsed % Wrap = (age - delta) % Wrap
      BY <2>5, <3>1, <3>4
    <3>6. d - e - delta \in -Tick .. Tick /\ pulse' + (d - e - delta) = age - delta + d
      BY <1>4, <2>2, <3>3, <3>5
    <3> QED
      BY <2>6, <3>5, <3>6
  <2>9. PulseSteps'
    BY <1>2, <1>3, <2>1, <2>7, <2>8 DEF PulseSteps
  <2> QED
    BY <2>1, <2>3, <2>9 DEF PulseInv, Measured
<1>6. CASE /\ at' = "back"
           /\ result' = IF line = Level THEN 0
                        ELSE ((now - (maxTime - EchoTime) - Overhead) % Wrap) % IntWrap
           /\ Still /\ UNCHANGED <<maxTime, wrapped>>
  <2>1. UNCHANGED <<now, line, age, pulse>>
    BY <1>6 DEF Still
  <2>2. PulseTypes'
    BY <1>1, <1>2, <1>3, <2>1 DEF PulseTypes
  <2>3. Measured'
    <3>1. SUFFICES ASSUME line # Level, ~wrapped, pulse \in 1 .. SensorDelay
                   PROVE  \E error \in -Tick .. Tick : result' = (pulse - Overhead + error) % IntWrap
      BY <1>2, <1>3, <1>6, <2>1 DEF Measured
    <3>2. PICK error \in -Tick .. Tick : Elapsed % Wrap = (pulse + error) % Wrap
      BY <1>1, <1>2, <3>1 DEF PulseSteps
    <3>3. /\ Elapsed \in Int /\ pulse + error \in Int /\ Overhead \in Nat /\ EchoTime \in Int
          /\ IntWrap \in Nat \ {0} /\ Wrap % IntWrap = 0 /\ pulse \in Int
      BY <1>1, <1>4, <3>1, <3>2, PulseConstants DEF Elapsed, PulseTypes
    <3>4. now - (maxTime - EchoTime) - Overhead = Elapsed + (-Overhead) /\ -Overhead \in Int
      BY <1>4, <3>3 DEF Elapsed
    <3>5. (Elapsed + (-Overhead)) % Wrap = (pulse + error + (-Overhead)) % Wrap
      <4>1. PICK a, b, c : a = Elapsed /\ b = pulse + error /\ c = -Overhead
        OBVIOUS
      <4>2. a \in Int /\ b \in Int /\ c \in Int /\ a % Wrap = b % Wrap
        BY <3>2, <3>3, <3>4, <4>1
      <4>3. (a + c) % Wrap = (b + c) % Wrap
        BY <1>4, <4>2, ModAdd
      <4> QED
        BY <4>1, <4>3
    <3>6. pulse + error + (-Overhead) = pulse - Overhead + error /\ pulse - Overhead + error \in Int
      BY <3>2, <3>3
    <3>7. result' = ((pulse - Overhead + error) % Wrap) % IntWrap
      BY <1>6, <3>1, <3>4, <3>5, <3>6
    <3>8. ((pulse - Overhead + error) % Wrap) % IntWrap = (pulse - Overhead + error) % IntWrap
      BY <1>4, <3>3, <3>6, ModMod
    <3> QED
      BY <3>7, <3>8
  <2> QED
    BY <1>6, <2>2, <2>3 DEF PulseInv, PulseSteps
<1> QED
  BY <1>5, <1>6 DEF LookRun

LEMMA AskOK == ASSUME PulseTypes, NEW c, Ask(c) PROVE PulseTypes' /\ PulseSteps' /\ Measured'
<1>1. /\ now \in Nat /\ age \in Nat /\ SensorDelay \in Nat /\ Wrap \in Nat \ {0} /\ OldAge \in Nat
  BY PulseConstants DEF PulseTypes
<1>2. /\ maxTime' = (now + SensorDelay) % Wrap /\ wrapped' = (now + SensorDelay >= Wrap)
      /\ at' = "clear" /\ UNCHANGED <<now, line, age>> /\ pulse' = 0
  BY DEF Ask
<1> DEFINE m == now + SensorDelay
<1>3. m \in Int /\ m \in Nat
  BY <1>1
<1>4. m % Wrap \in 0 .. Wrap - 1
  <2> HIDE DEF m
  <2> QED
    BY <1>1, <1>3, DivMod
<1>5. OldAge' = OldAge /\ wrapped' \in BOOLEAN
  <2>1. OldAge' = OldAge
    BY DEF OldAge
  <2>2. (now + SensorDelay >= Wrap) \in BOOLEAN
    BY <1>1
  <2> QED
    BY <1>2, <2>1, <2>2, Zenon
<1>6. PulseTypes'
  BY <1>1, <1>2, <1>4, <1>5 DEF PulseTypes
<1>7. ~wrapped' => maxTime' = now + SensorDelay
  <2>1. SUFFICES ASSUME m < Wrap PROVE m % Wrap = m
    <3>1. ~wrapped' => ~(m >= Wrap)
      BY <1>2, Zenon
    <3>2. ~(m >= Wrap) => m < Wrap
      BY <1>1
    <3> QED
      BY <1>2, <3>1, <3>2
  <2>2. m \in 0 .. Wrap - 1 /\ Wrap * 0 + m = m
    BY <1>1, <1>3, <2>1
  <2> HIDE DEF m
  <2>3. (Wrap * 0 + m) % Wrap = m
    BY <1>1, <2>2, ModUnique
  <2> QED
    BY <2>2, <2>3
<1>8. ~wrapped' => age' >= now' - maxTime' + SensorDelay
  BY <1>1, <1>2, <1>7
<1> QED
  BY <1>2, <1>6, <1>8 DEF PulseSteps, Measured

LEMMA PulseNextOK == PulseInv /\ [PulseNext]_pulseVars => PulseInv'
<1> SUFFICES ASSUME PulseInv, [PulseNext]_pulseVars PROVE PulseInv'
  OBVIOUS
<1>1. PulseTypes /\ OldAge' = OldAge
  BY DEF PulseInv, OldAge
<1>2. CASE Idle
  <2>1. at' = "rest" /\ Passes("rest") /\ UNCHANGED <<call, maxTime, wrapped>>
    BY <1>2 DEF Idle, Kept, Goes
  <2>2. now' \in 0 .. Wrap - 1 /\ line' \in BOOLEAN /\ age' \in Nat /\ pulse' \in 0 .. OldAge
    BY <1>1, <2>1, PassesOK
  <2>3. PulseTypes'
    BY <1>1, <2>1, <2>2 DEF PulseTypes
  <2> QED
    BY <2>1, <2>3 DEF PulseInv, PulseSteps, Measured
<1>3. CASE \E c \in {"SR04", "check1", "check2", "high", "low"} : Ask(c)
  BY <1>1, <1>3, AskOK DEF PulseInv
<1>4. CASE \E value : Rest(value)
  <2>1. /\ at' = "rest" /\ maxTime' = 0 /\ wrapped' = FALSE /\ pulse' = 0
        /\ UNCHANGED <<now, line, age>>
    BY <1>4 DEF Rest
  <2>2. wrapped' \in BOOLEAN
    BY <2>1, Zenon
  <2>3. PulseTypes'
    BY <1>1, <2>1, <2>2, PulseConstants DEF PulseTypes
  <2> QED
    BY <2>1, <2>3 DEF PulseInv, PulseSteps, Measured
<1>5. CASE UNCHANGED pulseVars
  <2>1. UNCHANGED <<now, line, age, pulse, at, call, maxTime, wrapped, result>>
    BY <1>5 DEF pulseVars
  <2>2. PulseTypes'
    BY <1>1, <2>1 DEF PulseTypes
  <2>3. PulseSteps' /\ Measured'
    BY <2>1 DEF PulseInv, PulseSteps, Measured, Elapsed, EchoTime, Level, OldAge
  <2> QED
    BY <2>2, <2>3 DEF PulseInv
<1>6. Back => (\E c \in {"SR04", "check1", "check2", "high", "low"} : Ask(c)) \/ (\E value : Rest(value))
  BY Zenon DEF Back
<1>7. StartPing \/ StartFrequency => \E c \in {"SR04", "check1", "check2", "high", "low"} : Ask(c)
  BY DEF StartPing, StartFrequency
<1> QED
  BY <1>2, <1>3, <1>4, <1>5, <1>6, <1>7, LookClearOK, LookStartOK, LookRunOK DEF PulseNext

\* Measured, of Pulse.
THEOREM MeasuredHolds == Spec => []Measured
<1>1. Init => PulseInv
  <2>1. Init => /\ now \in 0 .. Wrap - 1 /\ line \in BOOLEAN /\ wrapped = FALSE
                /\ at = "rest" /\ age = OldAge /\ pulse = 0 /\ maxTime = 0
    BY DEF Init, PulseInit
  <2>2. wrapped = FALSE => wrapped \in BOOLEAN
    BY Zenon
  <2> QED
    BY <2>1, <2>2, PulseConstants DEF PulseInv, PulseTypes, PulseSteps, Measured
<1>2. PulseInv /\ [Next]_vars => PulseInv'
  BY PulseNextOK DEF Next, vars
<1>3. PulseInv => Measured
  BY DEF PulseInv
<1> QED
  BY <1>1, <1>2, <1>3, PTL DEF Spec

-----------------------------------------------------------------------------
\* DHT trains

\* What is sent: the reading and its checksum.
Frame(r) == Append(r, Sum4(r))

\* The bits that have been read when n levels have been looked at.
BitsOf(n) == IF n <= 4 THEN 0 ELSE (n - 3) \div 2

\* A byte of a frame of which n bits have been read.
Expected(f, b, n) ==
    IF n <= b * ByteBits THEN 0
    ELSE IF n >= (b + 1) * ByteBits THEN f[b + 1]
    ELSE f[b + 1] \div 2 ^ (ByteBits - (n - b * ByteBits))

DhtTypes ==
    /\ data \in [0 .. 5 -> Int] /\ i \in 0 .. MAXTIMINGS /\ j \in Nat
    /\ dht # "rest" => sent \in Readings
    /\ dht = "reading" /\ i < MAXTIMINGS => j = BitsOf(i)

\* As long as no level is lost, data holds the bits read so far.
WholeSoFar ==
    dht \in {"reading", "accepted"} /\ noise \in {"none", "cut"} =>
      j <= FrameBits /\ \A b \in 0 .. 4 : data[b] = Expected(Frame(sent), b, j)

NoneInv == dht = "reading" /\ noise = "none" =>
             wave = Train(sent) /\ (i = MAXTIMINGS => j = FrameBits)
CutInv == dht = "reading" /\ noise = "cut" =>
             \E n \in 1 .. 2 * FrameBits + 4 : wave = Cut(Train(sent), n) /\ (i <= n - 1 \/ i = MAXTIMINGS)
\* A train that lost levels ends before its last bit.
MergedInv == dht = "reading" /\ noise = "merged" =>
             /\ i < MAXTIMINGS => i <= MAXTIMINGS - 3 /\ wave[MAXTIMINGS - 2] = Forever
             /\ i = MAXTIMINGS => j < FrameBits
ChecksInv ==
    /\ noise \in {"none", "cut", "merged", "split"}
    /\ dht = "accepted" => noise # "merged" /\ (noise # "split" => j = FrameBits)
    /\ dht = "refused" => noise # "none"
    /\ dht \in {"rest", "reading", "accepted", "refused"}

DhtInv == DhtTypes /\ WholeSoFar /\ NoneInv /\ CutInv /\ MergedInv /\ ChecksInv

LEMMA DhtConstants ==
    /\ ByteBits \in Nat \ {0} /\ Count \in Nat \ {0} /\ Forever \in Nat /\ Count + 1 < Forever
    /\ FrameBits = 5 * ByteBits /\ MAXTIMINGS = 5 + 2 * FrameBits
    /\ FrameBits \in Nat /\ MAXTIMINGS \in Nat
    /\ 2 ^ ByteBits \in Nat \ {0}
BY DhtAssumption, DhtPowers DEF FrameBits, MAXTIMINGS

\* The bytes of a frame.
LEMMA FrameBytes ==
    ASSUME NEW r \in Readings
    PROVE  /\ \A b \in 0 .. 4 : Frame(r)[b + 1] \in 0 .. 2 ^ ByteBits - 1
           /\ \A k \in 1 .. 4 : Frame(r)[k] = r[k]
           /\ Frame(r)[5] = Sum4(r)
<1> DEFINE w == 2 ^ ByteBits
<1>1. w \in Nat \ {0}
  BY DhtConstants
<1>2. r \in Seq(0 .. w - 1) /\ Len(r) = 4
  BY DhtAssumption
<1> HIDE DEF w
<1>3. \A k \in 1 .. 4 : r[k] \in 0 .. w - 1
  BY SMTT(30), <1>1, <1>2
<1>4. Sum4(r) \in 0 .. w - 1
  <2>1. PICK n : n = r[1] + r[2] + r[3] + r[4]
    OBVIOUS
  <2>2. n \in Int
    BY <1>1, <1>3, <2>1
  <2>3. n % w \in 0 .. w - 1
    BY <1>1, <2>2, DivMod
  <2> QED
    BY <2>1, <2>3 DEF Sum4, w
<1>5. /\ \A k \in 1 .. Len(r) : Append(r, Sum4(r))[k] = r[k]
      /\ Append(r, Sum4(r))[Len(r) + 1] = Sum4(r)
  <2> DEFINE S == 0 .. w - 1
             c == Sum4(r)
  <2>1. r \in Seq(S) /\ c \in S
    BY <1>2, <1>4
  <2> HIDE DEF S, c
  <2>2. /\ \A k \in 1 .. Len(r) : Append(r, c)[k] = r[k]
        /\ Append(r, c)[Len(r) + 1] = c
    BY <2>1, AppendProperties
  <2> QED
    BY <2>2 DEF c
<1>6. /\ \A k \in 1 .. 4 : Frame(r)[k] = r[k]
      /\ Frame(r)[5] = Sum4(r)
  <2>1. Frame(r) = Append(r, Sum4(r))
    BY Zenon DEF Frame
  <2>2. /\ \A k \in 1 .. Len(r) : Frame(r)[k] = r[k]
        /\ Frame(r)[Len(r) + 1] = Sum4(r)
    BY <1>5, <2>1, Zenon
  <2> QED
    BY <1>2, <2>2
<1>7. \A b \in 0 .. 4 : Frame(r)[b + 1] \in 0 .. w - 1
  <2> TAKE b \in 0 .. 4
  <2>1. CASE b = 4
    BY <1>4, <1>6, <2>1
  <2>2. CASE b \in 0 .. 3
    BY <1>3, <1>6, <2>2
  <2> QED
    BY <2>1, <2>2
<1> QED
  BY <1>6, <1>7 DEF w

\* The levels of a train.
LEMMA TrainLevels ==
    ASSUME NEW r \in Readings
    PROVE  /\ Train(r) = [n \in 1 .. MAXTIMINGS |-> Train(r)[n]]
           /\ \A n \in 1 .. MAXTIMINGS - 1 : Train(r)[n] \in Nat /\ Train(r)[n] < Forever
           /\ Train(r)[MAXTIMINGS] = Forever
           /\ \A n \in 1 .. MAXTIMINGS - 1 :
                n >= 5 /\ n % 2 = 1 =>
                  Train(r)[n] = IF Bit(Frame(r)[((n - 3) \div 2 - 1) \div ByteBits + 1],
                                       (((n - 3) \div 2 - 1) % ByteBits) + 1) = 1
                                THEN Count + 1 ELSE Count
<1> DEFINE bits == [k \in 1 .. FrameBits |->
                      Bit(Frame(r)[(k - 1) \div ByteBits + 1], ((k - 1) % ByteBits) + 1)]
           level(n) == IF n <= 3 THEN Count + 1
                       ELSE IF n = 2 * FrameBits + 5 THEN Forever
                       ELSE IF n % 2 = 0 THEN Count
                       ELSE IF bits[(n - 3) \div 2] = 1 THEN Count + 1 ELSE Count
<1>1. Train(r) = [n \in 1 .. MAXTIMINGS |-> level(n)]
  <2>1. 2 * FrameBits + 5 = MAXTIMINGS
    BY DhtConstants
  <2> QED
    BY <2>1 DEF Train, Frame
<1>2. \A n \in 1 .. MAXTIMINGS : Train(r)[n] = level(n)
  BY <1>1
<1>3. \A n \in 1 .. MAXTIMINGS - 1 :
        n >= 5 /\ n % 2 = 1 =>
          /\ (n - 3) \div 2 \in 1 .. FrameBits
          /\ level(n) = IF bits[(n - 3) \div 2] = 1 THEN Count + 1 ELSE Count
  <2> HIDE DEF bits
  <2> QED
    BY DhtConstants
<1>4. \A k \in 1 .. FrameBits :
        bits[k] = Bit(Frame(r)[(k - 1) \div ByteBits + 1], ((k - 1) % ByteBits) + 1)
  OBVIOUS
<1> HIDE DEF bits
<1>5. \A n \in 1 .. MAXTIMINGS - 1 : level(n) \in Nat /\ level(n) < Forever
  BY DhtConstants
<1>6. level(MAXTIMINGS) = Forever
  BY DhtConstants
<1> HIDE DEF level
<1>7. MAXTIMINGS \in 1 .. MAXTIMINGS /\ \A n \in 1 .. MAXTIMINGS - 1 : n \in 1 .. MAXTIMINGS
  BY DhtConstants
<1>8. \A n \in 1 .. MAXTIMINGS - 1 :
        n >= 5 /\ n % 2 = 1 =>
          Train(r)[n] = IF Bit(Frame(r)[((n - 3) \div 2 - 1) \div ByteBits + 1],
                               (((n - 3) \div 2 - 1) % ByteBits) + 1) = 1
                        THEN Count + 1 ELSE Count
  <2> TAKE n \in 1 .. MAXTIMINGS - 1
  <2> HAVE n >= 5 /\ n % 2 = 1
  <2>1. PICK k : k = (n - 3) \div 2
    OBVIOUS
  <2>2. k \in 1 .. FrameBits /\ Train(r)[n] = IF bits[k] = 1 THEN Count + 1 ELSE Count
    BY <1>2, <1>3, <1>7, <2>1
  <2> QED
    BY <1>4, <2>1, <2>2
<1> QED
  BY <1>1, <1>2, <1>5, <1>6, <1>7, <1>8

LEMMA Halving ==
    ASSUME NEW f \in Nat, NEW p \in Nat \ {0}
    PROVE  /\ f \div p \in 0 .. f /\ 2 * (f \div (2 * p)) + ((f \div p) % 2) = f \div p
           /\ f < p => f \div p = 0
           /\ p = 1 => f \div p = f
<1>1. PICK q, s : q = f \div p /\ s = f % p
  OBVIOUS
<1>2. q \in Int /\ s \in 0 .. p - 1 /\ f = p * q + s
  BY <1>1, DivMod
<1>3. q \in 0 .. f
  <2>1. q >= 0
    <3>1. SUFFICES ASSUME q <= -1 PROVE FALSE
      BY <1>2
    <3>2. p * q <= -p
      BY <1>2, <3>1
    <3> QED
      BY <1>2, <3>2
  <2>2. p * q >= q
    BY <1>2, <2>1
  <2> QED
    BY <1>2, <2>1, <2>2
<1>4. f \div (2 * p) = q \div 2
  <2>1. PICK h, o : h = q \div 2 /\ o = q % 2
    OBVIOUS
  <2>2. h \in Int /\ o \in 0 .. 1 /\ q = 2 * h + o
    BY <1>2, <2>1
  <2>3. f = (2 * p) * h + (p * o + s)
    BY <1>2, <2>2
  <2>4. p * o + s \in 0 .. 2 * p - 1
    <3>1. CASE o = 0
      BY <1>2, <3>1
    <3>2. CASE o = 1
      BY <1>2, <3>2
    <3> QED
      BY <2>2, <3>1, <3>2
  <2>5. PICK w, t : w = 2 * p /\ t = p * o + s
    OBVIOUS
  <2>6. w \in Nat \ {0} /\ t \in 0 .. w - 1 /\ f = w * h + t
    BY <2>3, <2>4, <2>5
  <2>7. f \div w = h
    BY <2>2, <2>6, ModUnique
  <2> QED
    BY <2>1, <2>5, <2>7
<1>5. 2 * (q \div 2) + (q % 2) = q
  BY <1>2
<1>6. f < p => q = 0
  BY <1>2, <1>3
<1>7. p = 1 => q = f
  BY <1>2
<1> QED
  BY <1>1, <1>3, <1>4, <1>5, <1>6, <1>7

\* Where a bit belongs.
LEMMA Place ==
    ASSUME NEW n \in 0 .. FrameBits - 1
    PROVE  /\ n \div ByteBits \in 0 .. 4 /\ n % ByteBits \in 0 .. ByteBits - 1
           /\ n = (n \div ByteBits) * ByteBits + (n % ByteBits)
<1>1. PICK q, s : q = n \div ByteBits /\ s = n % ByteBits
  OBVIOUS
<1>2. ByteBits \in Nat \ {0} /\ n \in Int /\ n >= 0 /\ n < 5 * ByteBits
  BY DhtConstants
<1>3. q \in Int /\ s \in 0 .. ByteBits - 1 /\ n = ByteBits * q + s
  BY <1>1, <1>2, DivMod
<1>4. q >= 0
  <2>1. SUFFICES ASSUME q <= -1 PROVE FALSE
    BY <1>3
  <2>2. ByteBits * q <= -ByteBits
    BY <1>2, <1>3, <2>1
  <2> QED
    BY <1>2, <1>3, <2>2
<1>5. q <= 4
  <2>1. SUFFICES ASSUME q >= 5 PROVE FALSE
    BY <1>3
  <2>2. ByteBits * q >= 5 * ByteBits
    BY <1>2, <1>3, <2>1
  <2> QED
    BY <1>2, <1>3, <2>2
<1> QED
  BY <1>1, <1>2, <1>3, <1>4, <1>5

\* A bit shoved into its byte is what the frame has there.
LEMMA ExpectedStep ==
    ASSUME NEW r \in Readings, NEW d \in [0 .. 5 -> Int], NEW n \in 0 .. FrameBits - 1,
           \A b \in 0 .. 4 : d[b] = Expected(Frame(r), b, n),
           NEW one, one = Bit(Frame(r)[n \div ByteBits + 1], (n % ByteBits) + 1),
           NEW e, e = [d EXCEPT ![n \div ByteBits] = (2 * @ + one) % 2 ^ ByteBits]
    PROVE  \A b \in 0 .. 4 : e[b] = Expected(Frame(r), b, n + 1)
<1>1. PICK a, c : a = n \div ByteBits /\ c = n % ByteBits
  OBVIOUS
<1>2. a \in 0 .. 4 /\ c \in 0 .. ByteBits - 1 /\ n = a * ByteBits + c
  BY <1>1, Place
<1>3. ByteBits \in Nat \ {0} /\ n \in Nat
  BY DhtConstants
<1>4. PICK f : f = Frame(r)[a + 1]
  OBVIOUS
<1>5. f \in 0 .. 2 ^ ByteBits - 1
  BY <1>2, <1>4, FrameBytes
<1>6. PICK p, w : p = 2 ^ (ByteBits - c - 1) /\ w = 2 ^ ByteBits
  OBVIOUS
<1>7. p \in Nat \ {0} /\ 2 ^ (ByteBits - c) = 2 * p
  <2>1. ByteBits - c - 1 \in 0 .. ByteBits /\ (ByteBits - c - 1) + 1 = ByteBits - c
    BY <1>2, <1>3
  <2> QED
    BY <1>6, <2>1, DhtPowers
<1>8. w \in Nat \ {0} /\ f \in Nat /\ f <= w - 1
  BY <1>5, <1>6, DhtConstants
<1>9. one = (f \div p) % 2
  <2>1. ByteBits - (c + 1) = ByteBits - c - 1
    BY <1>2, <1>3
  <2> QED
    BY <1>1, <1>4, <1>6, <2>1 DEF Bit
<1>10. /\ f \div p \in 0 .. f /\ 2 * (f \div (2 * p)) + ((f \div p) % 2) = f \div p
       /\ p = 1 => f \div p = f
  BY <1>7, <1>8, Halving
<1>11. d[a] = f \div (2 * p)
  <2>1. CASE c = 0
    <3>1. d[a] = 0
      BY <1>2, <1>3, <2>1 DEF Expected
    <3>2. 2 * p = w
      BY <1>3, <1>6, <1>7, <2>1
    <3>3. f \div w = 0
      <4>1. f \in 0 .. w - 1 /\ 0 \in Int /\ w * 0 + f = f
        BY <1>8
      <4>2. (w * 0 + f) \div w = 0
        BY <1>8, <4>1, ModUnique
      <4> QED
        BY <4>1, <4>2
    <3> QED
      BY <3>1, <3>2, <3>3
  <2>2. CASE c # 0
    <3>1. ~(n <= a * ByteBits) /\ ~(n >= (a + 1) * ByteBits) /\ n - a * ByteBits = c
      BY <1>2, <1>3, <2>2
    <3>2. d[a] = f \div 2 ^ (ByteBits - c)
      BY <1>2, <1>4, <3>1 DEF Expected
    <3> QED
      BY <1>7, <3>2
  <2> QED
    BY <2>1, <2>2
<1>12. e[a] = f \div p
  <2>1. a \in DOMAIN d
    BY <1>2
  <2>2. e[a] = (2 * d[a] + one) % w
    BY <1>1, <1>6, <2>1
  <2>3. PICK v : v = f \div p
    OBVIOUS
  <2>4. v \in 0 .. w - 1 /\ e[a] = v % w
    BY <1>8, <1>9, <1>10, <1>11, <2>2, <2>3
  <2>5. v \in 0 .. w - 1 /\ 0 \in Int /\ w * 0 + v = v
    BY <1>8, <2>4
  <2>6. (w * 0 + v) % w = v
    BY <1>8, <2>5, ModUnique
  <2> QED
    BY <2>3, <2>4, <2>5, <2>6
<1>13. Expected(Frame(r), a, n + 1) = f \div p
  <2>1. ~(n + 1 <= a * ByteBits)
    BY <1>2, <1>3
  <2>2. CASE c + 1 = ByteBits
    <3>1. n + 1 >= (a + 1) * ByteBits
      BY <1>2, <1>3, <2>2
    <3>2. Expected(Frame(r), a, n + 1) = f
      BY <1>4, <2>1, <3>1 DEF Expected
    <3>3. ByteBits - c - 1 = 0
      BY <1>2, <1>3, <2>2
    <3>4. p = 2 ^ 0
      BY <1>6, <3>3
    <3>5. 2 ^ 0 = 1
      OBVIOUS
    <3>6. p = 1
      BY <3>4, <3>5
    <3> QED
      BY <1>10, <3>2, <3>6
  <2>3. CASE c + 1 # ByteBits
    <3>1. ~(n + 1 >= (a + 1) * ByteBits) /\ ByteBits - ((n + 1) - a * ByteBits) = ByteBits - c - 1
      BY <1>2, <1>3, <2>3
    <3>2. Expected(Frame(r), a, n + 1) = Frame(r)[a + 1] \div 2 ^ (ByteBits - ((n + 1) - a * ByteBits))
      BY <2>1, <3>1 DEF Expected
    <3> QED
      BY <1>4, <1>6, <3>1, <3>2
  <2> QED
    BY <2>2, <2>3
<1>14. ASSUME NEW b \in 0 .. 4, b # a PROVE e[b] = Expected(Frame(r), b, n + 1)
  <2>1. e[b] = d[b]
    BY <1>1, <1>14
  <2>2. d[b] = Expected(Frame(r), b, n)
    OBVIOUS
  <2>3. CASE b < a
    <3>1. (b + 1) * ByteBits <= a * ByteBits /\ b * ByteBits < (b + 1) * ByteBits
      BY <1>2, <1>3, <2>3
    <3>2. /\ n >= (b + 1) * ByteBits /\ n + 1 >= (b + 1) * ByteBits
          /\ ~(n <= b * ByteBits) /\ ~(n + 1 <= b * ByteBits)
      BY <1>2, <1>3, <3>1
    <3> QED
      BY <2>1, <2>2, <3>2 DEF Expected
  <2>4. CASE b > a
    <3>1. (a + 1) * ByteBits <= b * ByteBits
      BY <1>2, <1>3, <2>4
    <3>2. n <= b * ByteBits /\ n + 1 <= b * ByteBits
      BY <1>2, <1>3, <3>1
    <3> QED
      BY <2>1, <2>2, <3>2 DEF Expected
  <2> QED
    BY <1>2, <1>14, <2>3, <2>4
<1> QED
  BY <1>12, <1>13, <1>14

\* How many bits there are after how many levels.
LEMMA BitsCount ==
    ASSUME NEW n \in 0 .. MAXTIMINGS - 1
    PROVE  /\ BitsOf(n) \in 0 .. FrameBits /\ BitsOf(n) \in Nat
           /\ n >= 4 /\ n % 2 = 0 => BitsOf(n + 1) = BitsOf(n) + 1
           /\ n >= 4 /\ n % 2 = 0 /\ n + 1 < MAXTIMINGS =>
                BitsOf(n) \in 0 .. FrameBits - 1 /\ (n + 1 - 3) \div 2 - 1 = BitsOf(n) /\ (n + 1) % 2 = 1
           /\ ~(n >= 4 /\ n % 2 = 0) => BitsOf(n + 1) = BitsOf(n)
           /\ n = MAXTIMINGS - 1 => BitsOf(n) = FrameBits
           /\ n <= MAXTIMINGS - 3 => BitsOf(n) < FrameBits
           /\ BitsOf(n) \div ByteBits \in 0 .. 5
<1>1. FrameBits \in Nat /\ MAXTIMINGS = 5 + 2 * FrameBits /\ FrameBits = 5 * ByteBits /\ ByteBits \in Nat \ {0}
  BY DhtConstants
<1>2. BitsOf(n) \in 0 .. FrameBits
  BY <1>1 DEF BitsOf
<1>3. BitsOf(n) \div ByteBits \in 0 .. 5
  <2>1. CASE BitsOf(n) = FrameBits
    <3>1. ByteBits * 5 + 0 = FrameBits /\ 0 \in 0 .. ByteBits - 1 /\ 5 \in Int
      BY <1>1
    <3>2. (ByteBits * 5 + 0) \div ByteBits = 5
      BY <1>1, <3>1, ModUnique
    <3> QED
      BY <2>1, <3>1, <3>2
  <2>2. CASE BitsOf(n) # FrameBits
    <3>1. BitsOf(n) \in 0 .. FrameBits - 1
      BY <1>1, <1>2, <2>2
    <3>2. BitsOf(n) \div ByteBits \in 0 .. 4
      BY <3>1, Place
    <3> QED
      BY <3>2
  <2> QED
    BY <2>1, <2>2
<1>4. /\ n >= 4 /\ n % 2 = 0 => BitsOf(n + 1) = BitsOf(n) + 1
      /\ ~(n >= 4 /\ n % 2 = 0) => BitsOf(n + 1) = BitsOf(n)
  BY <1>1 DEF BitsOf
<1>5. n >= 4 /\ n % 2 = 0 /\ n + 1 < MAXTIMINGS =>
        BitsOf(n) \in 0 .. FrameBits - 1 /\ (n + 1 - 3) \div 2 - 1 = BitsOf(n) /\ (n + 1) % 2 = 1
  BY <1>1 DEF BitsOf
<1>6. /\ n = MAXTIMINGS - 1 => BitsOf(n) = FrameBits
      /\ n <= MAXTIMINGS - 3 => BitsOf(n) < FrameBits
  BY <1>1 DEF BitsOf
<1> QED
  BY <1>2, <1>3, <1>4, <1>5, <1>6

\* What the station receives of a train.
LEMMA CutLevels ==
    ASSUME NEW r \in Readings, NEW n \in 1 .. 2 * FrameBits + 4
    PROVE  /\ \A m \in 1 .. n - 1 : Cut(Train(r), n)[m] = Train(r)[m]
           /\ Cut(Train(r), n)[n] = Forever
<1> DEFINE w == Train(r)
           v == SubSeq(w, 1, n - 1)
<1>1. FrameBits \in Nat /\ MAXTIMINGS = 5 + 2 * FrameBits /\ Forever \in Nat /\ n \in Nat /\ MAXTIMINGS \in Nat
  BY DhtConstants
<1>2. w \in Seq(Nat) /\ Len(w) = MAXTIMINGS
  <2>1. \A m \in 1 .. MAXTIMINGS : w[m] \in Nat
    BY <1>1, TrainLevels
  <2>2. w = [m \in 1 .. MAXTIMINGS |-> w[m]]
    BY TrainLevels
  <2> HIDE DEF w
  <2> QED
    BY <1>1, <2>1, <2>2
<1> HIDE DEF w
<1>3. /\ v \in Seq(Nat) /\ Len(v) = n - 1
      /\ \A m \in 1 .. n - 1 : v[m] = w[m]
  BY <1>1, <1>2
<1> HIDE DEF v
<1>4. /\ \A m \in 1 .. Len(v) : Append(v, Forever)[m] = v[m]
      /\ Append(v, Forever)[Len(v) + 1] = Forever
  BY <1>1, <1>3, AppendProperties
<1>5. Append(v, Forever) = Cut(Train(r), n)
  BY DEF Cut, v, w
<1>6. /\ \A m \in 1 .. n - 1 : Append(v, Forever)[m] = w[m]
      /\ Append(v, Forever)[n] = Forever
  BY <1>1, <1>3, <1>4
<1> QED
  BY <1>5, <1>6 DEF w

LEMMA MergedLevels ==
    ASSUME NEW r \in Readings, NEW n \in 2 .. 2 * FrameBits + 3
    PROVE  Merged(Train(r), n)[MAXTIMINGS - 2] = Forever
<1> DEFINE w == Train(r)
           a == SubSeq(w, 1, n - 2)
           b == <<Forever - 1>>
           c == SubSeq(w, n + 2, Len(w))
<1>1. FrameBits \in Nat /\ MAXTIMINGS = 5 + 2 * FrameBits /\ Forever \in Nat /\ n \in Nat /\ MAXTIMINGS \in Nat
      /\ Forever - 1 \in Nat
  BY DhtConstants
<1>2. w \in Seq(Nat) /\ Len(w) = MAXTIMINGS /\ w[MAXTIMINGS] = Forever
  <2>1. \A m \in 1 .. MAXTIMINGS : w[m] \in Nat
    BY <1>1, TrainLevels
  <2>2. w = [m \in 1 .. MAXTIMINGS |-> w[m]] /\ w[MAXTIMINGS] = Forever
    BY TrainLevels
  <2> HIDE DEF w
  <2> QED
    BY SMTT(30), <1>1, <2>1, <2>2
<1> HIDE DEF w
<1>3. a \in Seq(Nat) /\ Len(a) = n - 2 /\ b \in Seq(Nat) /\ Len(b) = 1
  BY <1>1, <1>2
<1>4. /\ c \in Seq(Nat) /\ Len(c) = MAXTIMINGS - n - 1
      /\ c[MAXTIMINGS - n - 1] = w[MAXTIMINGS]
  BY <1>1, <1>2
<1>5. Merged(Train(r), n) = a \o b \o c
  BY DEF Merged, w
<1> HIDE DEF a, b, c
<1>6. a \o b \in Seq(Nat) /\ Len(a \o b) = n - 1
  <2>1. a \o b \in Seq(Nat) /\ Len(a \o b) = Len(a) + Len(b)
    BY <1>3, ConcatProperties
  <2> QED
    BY <1>1, <1>3, <2>1
<1>7. (a \o b \o c)[(n - 1) + (MAXTIMINGS - n - 1)] = c[MAXTIMINGS - n - 1]
  BY SMTT(30), <1>1, <1>4, <1>6
<1>8. (n - 1) + (MAXTIMINGS - n - 1) = MAXTIMINGS - 2
  BY <1>1
<1> QED
  BY <1>2, <1>4, <1>5, <1>7, <1>8

LEMMA StartDHTOK == ASSUME DhtInv, NEW r \in Readings, StartDHT(r) PROVE DhtInv'
<1>1. /\ dht' = "reading" /\ sent' = r /\ i' = 0 /\ j' = 0
      /\ data' = [k \in 0 .. 5 |-> IF k < 5 THEN 0 ELSE data[5]]
  BY DEF StartDHT
<1>2. ByteBits \in Nat \ {0} /\ FrameBits \in Nat /\ MAXTIMINGS \in Nat /\ MAXTIMINGS = 5 + 2 * FrameBits
  BY DhtConstants
<1>3. data' \in [0 .. 5 -> Int] /\ \A b \in 0 .. 4 : data'[b] = 0
  BY <1>1 DEF DhtInv, DhtTypes
<1>4. DhtTypes'
  BY <1>1, <1>2, <1>3 DEF DhtTypes, BitsOf
<1>5. \A b \in 0 .. 4 : data'[b] = Expected(Frame(r), b, 0)
  <2> TAKE b \in 0 .. 4
  <2>1. 0 <= b * ByteBits
    BY <1>2
  <2> QED
    BY <1>3, <2>1 DEF Expected
<1>6. WholeSoFar'
  BY <1>1, <1>2, <1>5 DEF WholeSoFar
<1>7. CASE wave' = Train(r) /\ noise' = "none"
  BY <1>1, <1>2, <1>4, <1>6, <1>7 DEF DhtInv, NoneInv, CutInv, MergedInv, ChecksInv
<1>8. CASE \E n \in 2 .. 2 * FrameBits + 3 : wave' = Merged(Train(r), n) /\ noise' = "merged"
  <2>1. wave'[MAXTIMINGS - 2] = Forever /\ noise' = "merged" /\ FrameBits >= 1
    BY <1>2, <1>8, MergedLevels DEF FrameBits
  <2>2. i' <= MAXTIMINGS - 3 /\ i' # MAXTIMINGS
    BY <1>1, <1>2, <2>1
  <2> QED
    BY <1>1, <1>4, <1>6, <2>1, <2>2 DEF DhtInv, NoneInv, CutInv, MergedInv, ChecksInv
<1>9. CASE \E n \in 1 .. 2 * FrameBits + 4 : wave' = Cut(Train(r), n) /\ noise' = "cut"
  <2>1. PICK n \in 1 .. 2 * FrameBits + 4 : wave' = Cut(Train(r), n) /\ noise' = "cut"
    BY <1>9
  <2>2. i' <= n - 1
    BY <1>1, <1>2, <2>1
  <2> QED
    BY <1>1, <1>4, <1>6, <2>1, <2>2 DEF DhtInv, NoneInv, CutInv, MergedInv, ChecksInv
<1>10. CASE noise' = "split"
  BY <1>1, <1>4, <1>6, <1>10 DEF DhtInv, NoneInv, CutInv, MergedInv, ChecksInv
<1> QED
  BY <1>7, <1>8, <1>9, <1>10 DEF StartDHT

\* The level that is looked at next, in a train that is whole up to there.
LEMMA NextLevel ==
    ASSUME DhtInv, dht = "reading", i < MAXTIMINGS, noise \in {"none", "cut"}
    PROVE  /\ wave[i + 1] = Forever \/ (i + 1 < MAXTIMINGS /\ wave[i + 1] = Train(sent)[i + 1])
           /\ noise = "none" /\ i + 1 < MAXTIMINGS => wave[i + 1] < Forever
           /\ noise = "cut" /\ wave[i + 1] # Forever =>
                \E n \in 1 .. 2 * FrameBits + 4 : wave = Cut(Train(sent), n) /\ i + 1 <= n - 1
<1>1. sent \in Readings /\ i \in 0 .. MAXTIMINGS - 1
  BY DhtConstants DEF DhtInv, DhtTypes
<1>2. MAXTIMINGS \in Nat /\ FrameBits \in Nat /\ MAXTIMINGS = 5 + 2 * FrameBits /\ Forever \in Nat
  BY DhtConstants
<1>3. CASE noise = "none"
  <2>1. wave = Train(sent)
    BY <1>3 DEF DhtInv, NoneInv
  <2>2. CASE i + 1 = MAXTIMINGS
    BY <1>1, <1>2, <1>3, <2>1, <2>2, TrainLevels
  <2>3. CASE i + 1 # MAXTIMINGS
    <3>1. i + 1 \in 1 .. MAXTIMINGS - 1 /\ i + 1 < MAXTIMINGS
      BY <1>1, <1>2, <2>3
    <3> QED
      BY <1>1, <1>3, <2>1, <3>1, TrainLevels
  <2> QED
    BY <2>2, <2>3
<1>4. CASE noise = "cut"
  <2>1. PICK n \in 1 .. 2 * FrameBits + 4 : wave = Cut(Train(sent), n) /\ i <= n - 1
    BY <1>1, <1>2, <1>4 DEF DhtInv, CutInv
  <2>2. /\ \A m \in 1 .. n - 1 : wave[m] = Train(sent)[m]
        /\ wave[n] = Forever
    BY <1>1, <2>1, CutLevels
  <2>3. CASE i + 1 = n
    BY <1>4, <2>2, <2>3
  <2>4. CASE i + 1 # n
    <3>1. i + 1 \in 1 .. n - 1 /\ i + 1 < MAXTIMINGS /\ i + 1 <= n - 1
      BY <1>1, <1>2, <2>1, <2>4
    <3> QED
      BY <1>4, <2>1, <2>2, <3>1
  <2> QED
    BY <2>3, <2>4
<1> QED
  BY <1>3, <1>4

LEMMA OneLevelOK == DhtInv /\ OneLevel => DhtInv'
<1> SUFFICES ASSUME DhtInv, OneLevel PROVE DhtInv'
  OBVIOUS
<1>1. /\ dht = "reading" /\ i < MAXTIMINGS /\ UNCHANGED <<sent, wave, noise, dht>>
      /\ \/ wave[i + 1] >= Forever /\ i' = MAXTIMINGS /\ UNCHANGED <<j, data>>
         \/ /\ ~(wave[i + 1] >= Forever) /\ i' = i + 1 /\ i >= 4 /\ i % 2 = 0
            /\ data' = Shoved(IF wave[i + 1] > Count THEN 1 ELSE 0) /\ j' = j + 1
         \/ /\ ~(wave[i + 1] >= Forever) /\ i' = i + 1 /\ ~(i >= 4 /\ i % 2 = 0)
            /\ UNCHANGED <<j, data>>
  BY DEF OneLevel
<1>2. /\ ByteBits \in Nat \ {0} /\ FrameBits \in Nat /\ MAXTIMINGS \in Nat /\ MAXTIMINGS = 5 + 2 * FrameBits
      /\ Count \in Nat /\ Forever \in Nat /\ Count + 1 < Forever /\ FrameBits >= 1
  BY DhtConstants
<1>3. /\ data \in [0 .. 5 -> Int] /\ i \in 0 .. MAXTIMINGS - 1 /\ j = BitsOf(i) /\ sent \in Readings
  BY <1>1, <1>2 DEF DhtInv, DhtTypes
<1>4. /\ j \in 0 .. FrameBits /\ j \div ByteBits \in 0 .. 5
      /\ i = MAXTIMINGS - 1 => j = FrameBits
      /\ i <= MAXTIMINGS - 3 => j < FrameBits
  BY <1>3, BitsCount
<1>5. ChecksInv'
  BY <1>1 DEF DhtInv, ChecksInv
<1>6. CASE wave[i + 1] >= Forever /\ i' = MAXTIMINGS /\ UNCHANGED <<j, data>>
  <2>1. DhtTypes'
    BY <1>1, <1>2, <1>3, <1>4, <1>6 DEF DhtTypes
  <2>2. WholeSoFar'
    BY <1>1, <1>6 DEF DhtInv, WholeSoFar
  <2>3. NoneInv'
    <3>1. SUFFICES ASSUME noise = "none" PROVE wave = Train(sent) /\ j = FrameBits
      BY <1>1, <1>6 DEF NoneInv
    <3>2. wave = Train(sent)
      BY <1>1, <3>1 DEF DhtInv, NoneInv
    <3>3. i = MAXTIMINGS - 1
      <4>1. SUFFICES ASSUME i # MAXTIMINGS - 1 PROVE FALSE
        OBVIOUS
      <4>2. i + 1 \in 1 .. MAXTIMINGS - 1
        BY <1>2, <1>3, <4>1
      <4>3. wave[i + 1] \in Nat /\ wave[i + 1] < Forever
        BY <1>3, <3>2, <4>2, TrainLevels
      <4> QED
        BY <1>2, <1>6, <4>3
    <3> QED
      BY <1>4, <3>2, <3>3
  <2>4. CutInv'
    BY <1>1, <1>6 DEF DhtInv, CutInv
  <2>5. MergedInv'
    BY <1>1, <1>2, <1>4, <1>6 DEF DhtInv, MergedInv
  <2> QED
    BY <1>5, <2>1, <2>2, <2>3, <2>4, <2>5 DEF DhtInv
<1>7. CASE ~(wave[i + 1] >= Forever) /\ i' = i + 1
  <2>1. noise \in {"none", "cut"} =>
          /\ i + 1 < MAXTIMINGS /\ wave[i + 1] = Train(sent)[i + 1]
          /\ noise = "cut" =>
               \E n \in 1 .. 2 * FrameBits + 4 : wave = Cut(Train(sent), n) /\ i + 1 <= n - 1
    <3>1. wave[i + 1] # Forever
      BY <1>2, <1>7
    <3> QED
      BY <1>1, <3>1, NextLevel
  <2>2. NoneInv'
    BY <1>1, <1>2, <1>3, <1>7, <2>1 DEF DhtInv, NoneInv
  <2>3. CutInv'
    BY <1>1, <1>7, <2>1 DEF CutInv
  <2>4. MergedInv'
    <3>1. SUFFICES ASSUME noise = "merged"
                   PROVE  i + 1 <= MAXTIMINGS - 3 /\ wave[MAXTIMINGS - 2] = Forever
      BY <1>1, <1>2, <1>3, <1>7 DEF MergedInv
    <3>2. i <= MAXTIMINGS - 3 /\ wave[MAXTIMINGS - 2] = Forever
      BY <1>1, <1>2, <1>3, <3>1 DEF DhtInv, MergedInv
    <3>3. i # MAXTIMINGS - 3
      <4>1. SUFFICES ASSUME i = MAXTIMINGS - 3 PROVE FALSE
        OBVIOUS
      <4>2. i + 1 = MAXTIMINGS - 2
        BY <1>2, <4>1
      <4>3. wave[i + 1] = Forever
        BY <3>2, <4>2
      <4> QED
        BY <1>2, <1>7, <4>3
    <3> QED
      BY <1>2, <1>3, <3>2, <3>3
  <2>5. CASE /\ i >= 4 /\ i % 2 = 0
             /\ data' = Shoved(IF wave[i + 1] > Count THEN 1 ELSE 0) /\ j' = j + 1
    <3>1. PICK one : one = (IF wave[i + 1] > Count THEN 1 ELSE 0)
      OBVIOUS
    <3>2. one \in 0 .. 1 /\ data' = [data EXCEPT ![j \div ByteBits] = (2 * @ + one) % 2 ^ ByteBits]
      BY <2>5, <3>1 DEF Shoved
    <3>3. data' \in [0 .. 5 -> Int]
      <4>1. PICK w, v : w = 2 ^ ByteBits /\ v = 2 * data[j \div ByteBits] + one
        OBVIOUS
      <4>2. w \in Nat \ {0} /\ v \in Int
        BY <1>3, <1>4, <3>2, <4>1, DhtConstants
      <4>3. v % w \in 0 .. w - 1
        BY <4>2, DivMod
      <4>4. data' = [data EXCEPT ![j \div ByteBits] = v % w]
        BY <3>2, <4>1
      <4> QED
        BY <1>3, <1>4, <4>2, <4>3, <4>4
    <3>4. j' = BitsOf(i + 1)
      BY <1>3, <2>5, BitsCount
    <3>5. DhtTypes'
      BY <1>1, <1>2, <1>3, <1>4, <1>7, <2>5, <3>3, <3>4 DEF DhtTypes
    <3>6. WholeSoFar'
      <4>1. SUFFICES ASSUME noise \in {"none", "cut"}
                     PROVE  j' <= FrameBits /\ \A b \in 0 .. 4 : data'[b] = Expected(Frame(sent), b, j + 1)
        BY <1>1, <2>5 DEF WholeSoFar
      <4>2. /\ j \in 0 .. FrameBits - 1 /\ (i + 1 - 3) \div 2 - 1 = j /\ (i + 1) % 2 = 1
            /\ i + 1 \in 1 .. MAXTIMINGS - 1 /\ i + 1 >= 5
        <5>1. i + 1 < MAXTIMINGS
          BY <2>1, <4>1
        <5>2. j \in 0 .. FrameBits - 1 /\ (i + 1 - 3) \div 2 - 1 = j /\ (i + 1) % 2 = 1
          BY <1>3, <2>5, <5>1, BitsCount
        <5> QED
          BY <1>2, <1>3, <2>5, <5>1, <5>2
      <4>3. wave[i + 1] = IF Bit(Frame(sent)[j \div ByteBits + 1], (j % ByteBits) + 1) = 1
                          THEN Count + 1 ELSE Count
        <5> DEFINE n == i + 1
                   k == (n - 3) \div 2 - 1
        <5>1. n \in 1 .. MAXTIMINGS - 1 /\ n >= 5 /\ n % 2 = 1 /\ k = j
          BY <1>2, <1>3, <4>2
        <5>2. wave[n] = Train(sent)[n]
          BY <2>1, <4>1
        <5> HIDE DEF n
        <5>3. Train(sent)[n] = IF Bit(Frame(sent)[((n - 3) \div 2 - 1) \div ByteBits + 1],
                                      (((n - 3) \div 2 - 1) % ByteBits) + 1) = 1
                               THEN Count + 1 ELSE Count
          BY <1>3, <5>1, TrainLevels
        <5> QED
          BY <5>1, <5>2, <5>3 DEF n
      <4>4. one = Bit(Frame(sent)[j \div ByteBits + 1], (j % ByteBits) + 1)
        <5>1. Bit(Frame(sent)[j \div ByteBits + 1], (j % ByteBits) + 1) \in {0, 1}
          <6>1. PICK f, k : f = Frame(sent)[j \div ByteBits + 1] /\ k = (j % ByteBits) + 1
            OBVIOUS
          <6>2. f \in Nat /\ ByteBits - k \in 0 .. ByteBits
            <7>1. j \div ByteBits \in 0 .. 4 /\ j % ByteBits \in 0 .. ByteBits - 1
              BY <4>2, Place
            <7>2. f \in 0 .. 2 ^ ByteBits - 1
              BY <1>3, <6>1, <7>1, FrameBytes
            <7> QED
              BY <1>2, <6>1, <7>1, <7>2, DhtConstants
          <6>3. PICK p : p = 2 ^ (ByteBits - k)
            OBVIOUS
          <6>4. p \in Nat \ {0}
            BY <6>2, <6>3, DhtPowers
          <6>5. f \div p \in 0 .. f
            BY <6>2, <6>4, Halving
          <6>6. PICK q : q = f \div p
            OBVIOUS
          <6>7. q % 2 \in {0, 1}
            BY <6>2, <6>5, <6>6
          <6> QED
            BY <6>1, <6>3, <6>6, <6>7 DEF Bit
        <5>2. wave[i + 1] = Count + 1 => one = 1
          BY <1>2, <3>1
        <5>3. wave[i + 1] = Count => one = 0
          BY <1>2, <3>1
        <5> QED
          BY <4>3, <5>1, <5>2, <5>3
      <4>5. \A b \in 0 .. 4 : data[b] = Expected(Frame(sent), b, j)
        BY <1>1, <4>1 DEF DhtInv, WholeSoFar
      <4>6. \A b \in 0 .. 4 : data'[b] = Expected(Frame(sent), b, j + 1)
        BY <1>3, <3>2, <4>2, <4>4, <4>5, ExpectedStep
      <4> QED
        BY <1>2, <2>5, <4>2, <4>6
    <3> QED
      BY <1>5, <2>2, <2>3, <2>4, <3>5, <3>6 DEF DhtInv
  <2>6. CASE ~(i >= 4 /\ i % 2 = 0) /\ UNCHANGED <<j, data>>
    <3>1. j' = BitsOf(i + 1)
      BY <1>3, <2>6, BitsCount
    <3>2. DhtTypes'
      BY <1>1, <1>2, <1>3, <1>4, <1>7, <2>6, <3>1 DEF DhtTypes
    <3>3. WholeSoFar'
      BY <1>1, <2>6 DEF DhtInv, WholeSoFar
    <3> QED
      BY <1>5, <2>2, <2>3, <2>4, <3>2, <3>3 DEF DhtInv
  <2> QED
    BY <1>1, <1>2, <1>7, <2>5, <2>6
<1> QED
  BY <1>1, <1>6, <1>7

LEMMA CheckOK == DhtInv /\ Check => DhtInv'
<1> SUFFICES ASSUME DhtInv, Check PROVE DhtInv'
  OBVIOUS
<1>1. /\ dht = "reading" /\ i = MAXTIMINGS /\ dht' \in {"accepted", "refused"}
      /\ dht' = "accepted" => j >= FrameBits
      /\ j >= FrameBits /\ data[4] = (data[0] + data[1] + data[2] + data[3]) % 2 ^ ByteBits
           => dht' = "accepted"
      /\ UNCHANGED <<sent, wave, noise, i, j, data>>
  BY DEF Check
<1>2. FrameBits \in Nat /\ ByteBits \in Nat \ {0} /\ FrameBits = 5 * ByteBits
  BY DhtConstants
<1>3. DhtTypes /\ sent \in Readings /\ j \in Nat
  BY <1>1 DEF DhtInv, DhtTypes
<1>4. DhtTypes' /\ WholeSoFar'
  BY <1>1 DEF DhtInv, DhtTypes, WholeSoFar
<1>5. dht' = "accepted" => noise # "merged" /\ (noise # "split" => j = FrameBits)
  <2>1. SUFFICES ASSUME dht' = "accepted" PROVE noise # "merged" /\ (noise # "split" => j = FrameBits)
    OBVIOUS
  <2>2. noise # "merged"
    BY <1>1, <1>2, <1>3, <2>1 DEF DhtInv, MergedInv
  <2>3. noise # "split" => j <= FrameBits
    BY <1>1, <2>2 DEF DhtInv, WholeSoFar, ChecksInv
  <2> QED
    BY <1>1, <1>2, <1>3, <2>1, <2>2, <2>3
<1>6. noise = "none" => dht' = "accepted"
  <2>1. SUFFICES ASSUME noise = "none" PROVE dht' = "accepted"
    OBVIOUS
  <2>2. j = FrameBits /\ \A b \in 0 .. 4 : data[b] = Expected(Frame(sent), b, FrameBits)
    BY <1>1, <2>1 DEF DhtInv, NoneInv, WholeSoFar
  <2>3. \A b \in 0 .. 4 : data[b] = Frame(sent)[b + 1]
    <3> TAKE b \in 0 .. 4
    <3>1. ~(FrameBits <= b * ByteBits) /\ FrameBits >= (b + 1) * ByteBits
      BY <1>2
    <3> QED
      BY <2>2, <3>1 DEF Expected
  <2>4. data[4] = Sum4(sent) /\ \A k \in 0 .. 3 : data[k] = sent[k + 1]
    <3>1. data[4] = Frame(sent)[5] /\ \A k \in 0 .. 3 : data[k] = Frame(sent)[k + 1]
      BY <2>3
    <3>2. \A k \in 0 .. 3 : Frame(sent)[k + 1] = sent[k + 1]
      BY <1>3, FrameBytes
    <3> QED
      BY <1>3, <3>1, <3>2, FrameBytes
  <2>5. data[0] = sent[1] /\ data[1] = sent[2] /\ data[2] = sent[3] /\ data[3] = sent[4]
    BY <2>4
  <2> QED
    BY <1>1, <1>2, <2>2, <2>4, <2>5 DEF Sum4
<1>7. ChecksInv'
  BY <1>1, <1>5, <1>6 DEF DhtInv, ChecksInv
<1> QED
  BY <1>1, <1>4, <1>7 DEF DhtInv, NoneInv, CutInv, MergedInv

LEMMA DhtNextOK == DhtInv /\ [DhtNext]_dhtVars => DhtInv'
<1> SUFFICES ASSUME DhtInv, [DhtNext]_dhtVars PROVE DhtInv'
  OBVIOUS
<1>1. CASE ShowDHT
  <2>1. /\ dht' = "rest" /\ noise' = "none" /\ i' = 0 /\ j' = 0
        /\ data' = [k \in 0 .. 5 |-> IF k < 5 THEN 0 ELSE data[5]]
    BY <1>1 DEF ShowDHT
  <2>2. data' \in [0 .. 5 -> Int] /\ MAXTIMINGS \in Nat
    BY <2>1, DhtConstants DEF DhtInv, DhtTypes
  <2> QED
    BY <2>1, <2>2 DEF DhtInv, DhtTypes, WholeSoFar, NoneInv, CutInv, MergedInv, ChecksInv
<1>2. CASE UNCHANGED dhtVars
  BY <1>2 DEF dhtVars, DhtInv, DhtTypes, WholeSoFar, NoneInv, CutInv, MergedInv, ChecksInv
<1> QED
  BY <1>1, <1>2, StartDHTOK, OneLevelOK, CheckOK DEF DhtNext

LEMMA DhtInvMeans == DhtInv => WithinData /\ FrameRight
<1> SUFFICES ASSUME DhtInv PROVE WithinData /\ FrameRight
  OBVIOUS
<1>1. WithinData
  <2>1. SUFFICES ASSUME dht = "reading", i < MAXTIMINGS PROVE j \div ByteBits <= 5
    BY DEF WithinData
  <2>2. i \in 0 .. MAXTIMINGS - 1 /\ j = BitsOf(i)
    BY <2>1, DhtConstants DEF DhtInv, DhtTypes
  <2>3. j \div ByteBits \in 0 .. 5
    BY <2>2, BitsCount
  <2> QED
    BY <2>3
<1>2. FrameRight
  <2>1. dht = "refused" => noise # "none"
    BY DEF DhtInv, ChecksInv
  <2>2. SUFFICES ASSUME dht = "accepted", noise # "split", NEW k \in 1 .. 4 PROVE data[k - 1] = sent[k]
    BY <2>1 DEF FrameRight
  <2>3. noise \in {"none", "cut"} /\ j = FrameBits /\ sent \in Readings
    BY <2>2 DEF DhtInv, DhtTypes, ChecksInv
  <2>4. data[k - 1] = Expected(Frame(sent), k - 1, FrameBits)
    BY <2>2, <2>3 DEF DhtInv, WholeSoFar
  <2>5. /\ FrameBits = 5 * ByteBits /\ ByteBits \in Nat \ {0}
    BY DhtConstants
  <2>6. ~(FrameBits <= (k - 1) * ByteBits) /\ FrameBits >= (k - 1 + 1) * ByteBits /\ k - 1 + 1 = k
    BY <2>5
  <2>7. data[k - 1] = Frame(sent)[k]
    BY <2>4, <2>6 DEF Expected
  <2> QED
    BY <2>3, <2>7, FrameBytes
<1> QED
  BY <1>1, <1>2

LEMMA DhtInitOK == Init => DhtInv
<1>1. SUFFICES ASSUME DhtInit PROVE DhtInv
  BY DEF Init
<1>2. data \in [0 .. 5 -> Int] /\ MAXTIMINGS \in Nat
  BY <1>1, DhtConstants DEF DhtInit
<1> QED
  BY <1>1, <1>2 DEF DhtInit, DhtInv, DhtTypes, WholeSoFar, NoneInv, CutInv, MergedInv, ChecksInv

-----------------------------------------------------------------------------
\* The 1-Wire bus

WireTypes ==
    /\ attached \subseteq Roms /\ listening \subseteq attached /\ shorted \in BOOLEAN
    /\ shorted => listening = {} /\ ~steady
    /\ ROM_NO \in [1 .. RomBits -> {0, 1}] /\ target \in [1 .. RomBits -> {0, 1}]
    /\ temp \in Temps /\ raw \in Int
    /\ wire \in {"rest", "search", "found", "notFound", "converting", "scratchpad", "shown"}
    /\ wire = "search" => bit \in 1 .. RomBits /\ Roms # {}
    /\ wire = "scratchpad" => bit \in 1 .. TempBits
    /\ wire \notin {"search", "scratchpad"} => bit = 1
    /\ wire # "search" => last_zero = 0
    /\ wire = "notFound" => LastDiscrepancy = 0 /\ ~LastDeviceFlag
    /\ wire = "found" => found # {}

\* What has been read of a temperature.
TempInv ==
    /\ wire = "scratchpad" /\ listening # {} => raw = temp % 2 ^ (bit - 1)
    /\ wire = "shown" /\ listening # {} => raw = temp

\* The first n bits are the same.
Agree(a, b, n) == \A m \in 1 .. n : a[m] = b[m]
\* A device turns off to 1 where the path comes to its bit k.
Branches(p, k) == \E s \in attached : Agree(s, p, k - 1) /\ s[k] = 1
\* A device lies before the first n bits of a path.
Passed(r, p, n) == \E k \in 1 .. n : Agree(r, p, k - 1) /\ r[k] = 0 /\ p[k] = 1
\* The last of the first n bits at which the path took 0 and might have taken 1, or 0.
LastTurn(p, z, n) ==
    /\ z \in 0 .. n /\ (z # 0 => p[z] = 0 /\ Branches(p, z))
    /\ \A k \in z + 1 .. n : p[k] = 0 => ~Branches(p, k)

\* The devices found are those up to the last one.
Walked ==
    /\ ROM_NO \in attached
    /\ found = {r \in attached : r = ROM_NO \/ Passed(r, ROM_NO, RomBits)}
    /\ LastTurn(ROM_NO, LastDiscrepancy, RomBits)

RestInv ==
    steady /\ target = NoRom /\ wire \notin {"search", "notFound"} =>
      /\ found = {} => LastDiscrepancy = 0 /\ ~LastDeviceFlag
      /\ found # {} => Walked /\ (LastDeviceFlag => LastDiscrepancy = 0)
                              /\ (LastDiscrepancy = 0 => LastDeviceFlag)

\* Up to the last discrepancy the search follows the last device; behind it,
\* the devices found are those before the path.
SearchInv ==
    steady /\ wire = "search" =>
      /\ listening # {} /\ listening = {r \in attached : Agree(r, ROM_NO, bit - 1)}
      /\ LastTurn(ROM_NO, last_zero, bit - 1)
      /\ target = NoRom =>
           /\ LastDiscrepancy \in 0 .. RomBits
           /\ bit <= LastDiscrepancy => Walked
           /\ bit > LastDiscrepancy => found = {r \in attached : Passed(r, ROM_NO, bit - 1)}

\* The first device of a family is searched for along the family's bits.
There == \E s \in attached : Family(s) = Family(target)
TargetInv ==
    steady =>
      /\ found \subseteq attached
      /\ \A r \in found : found = {r} /\ There => Family(r) = Family(target)
      /\ target # NoRom /\ found = {} /\ wire # "notFound" =>
           LastDiscrepancy = RomBits /\ (There => Agree(ROM_NO, target, FamilyBits))
      /\ wire = "notFound" /\ target = NoRom => found = attached

WireInv == WireTypes /\ TempInv /\ RestInv /\ SearchInv /\ TargetInv

\* ROM codes, and their families.
LEMMA RomFacts ==
    ASSUME NEW r \in Roms
    PROVE  /\ r \in [1 .. RomBits -> {0, 1}] /\ RomBits \in Nat
           /\ FamilyBits \in Nat \ {0} /\ FamilyBits < RomBits /\ Family(r) # Family(NoRom)
<1>1. /\ r \in Seq({0, 1}) /\ Len(r) = RomBits
      /\ FamilyBits \in Nat \ {0} /\ FamilyBits < RomBits /\ Family(r) # Family(NoRom)
  BY OneWireAssumption
<1>2. r \in [1 .. Len(r) -> {0, 1}] /\ Len(r) \in Nat
  BY <1>1, LenProperties
<1> QED
  BY <1>1, <1>2

LEMMA FamilySame ==
    ASSUME NEW s \in Roms, NEW a \in [1 .. RomBits -> {0, 1}], NEW b \in [1 .. RomBits -> {0, 1}]
    PROVE  /\ Family(a) = [k \in 1 .. FamilyBits |-> a[k]]
           /\ Agree(a, b, FamilyBits) => Family(a) = Family(b)
           /\ Family(a) = Family(b) => Agree(a, b, FamilyBits)
<1>1. RomBits \in Nat /\ FamilyBits \in Nat \ {0} /\ FamilyBits < RomBits
  BY RomFacts
<1>2. ASSUME NEW c \in [1 .. RomBits -> {0, 1}] PROVE Family(c) = [k \in 1 .. FamilyBits |-> c[k]]
  <2>1. c \in Seq({0, 1}) /\ Len(c) = RomBits
    BY <1>1
  <2>2. SubSeq(c, 1, FamilyBits) = [k \in 1 .. FamilyBits |-> c[k]]
    BY <1>1, <2>1
  <2> QED
    BY <2>2 DEF Family
<1>3. Family(a) = [k \in 1 .. FamilyBits |-> a[k]] /\ Family(b) = [k \in 1 .. FamilyBits |-> b[k]]
  BY <1>2
<1>4. Agree(a, b, FamilyBits) => Family(a) = Family(b)
  BY <1>3 DEF Agree
<1>5. Family(a) = Family(b) => Agree(a, b, FamilyBits)
  BY <1>3 DEF Agree
<1> QED
  BY <1>3, <1>4, <1>5

\* A device that has all the bits of a path is where it ends.
LEMMA AllAgree ==
    ASSUME NEW a \in [1 .. RomBits -> {0, 1}], NEW b \in [1 .. RomBits -> {0, 1}], Agree(a, b, RomBits)
    PROVE  a = b
<1>1. \A m \in 1 .. RomBits : a[m] = b[m]
  BY DEF Agree
<1> DEFINE S == 1 .. RomBits
<1>2. a \in [S -> {0, 1}] /\ b \in [S -> {0, 1}] /\ \A m \in S : a[m] = b[m]
  BY <1>1
<1> HIDE DEF S
<1>3. a = [m \in S |-> a[m]] /\ b = [m \in S |-> b[m]]
  BY <1>2
<1>4. [m \in S |-> a[m]] = [m \in S |-> b[m]]
  BY <1>2
<1> QED
  BY <1>3, <1>4, Zenon

\* The round of the loop, on a bus that stays as it is.
LEMMA SearchBitMeans ==
    ASSUME WireTypes, SearchInv, steady, SearchBit
    PROVE  \E dir \in {0, 1} :
             /\ ROM_NO' = [ROM_NO EXCEPT ![bit] = dir]
             /\ listening' = {r \in listening : r[bit] = dir} /\ listening' # {}
             /\ \/ \A s \in listening : s[bit] = dir
                \/ /\ \E s \in listening : s[bit] = 1
                   /\ dir = IF bit < LastDiscrepancy THEN ROM_NO[bit]
                            ELSE IF bit = LastDiscrepancy THEN 1 ELSE 0
             /\ \E zero :
                  /\ \/ zero = bit /\ dir = 0 /\ \E s \in listening : s[bit] = 1
                     \/ zero = last_zero /\ ~(dir = 0 /\ \E s \in listening : s[bit] = 1)
                  /\ \/ /\ bit < RomBits /\ bit' = bit + 1 /\ last_zero' = zero
                        /\ UNCHANGED <<LastDiscrepancy, LastDeviceFlag, wire, found>>
                     \/ /\ ~(bit < RomBits) /\ bit' = 1 /\ last_zero' = 0
                        /\ Family(ROM_NO') # Family(NoRom)
                        /\ LastDiscrepancy' = zero /\ wire' = "found"
                        /\ LastDeviceFlag' = (zero = 0)
                        /\ found' = found \cup {ROM_NO'}
                     \/ ~(bit < RomBits) /\ Family(ROM_NO') = Family(NoRom)
<1> DEFINE zeros == {r \in Heard : r[bit] = 0}
           ones  == {r \in Heard : r[bit] = 1}
           id    == ReadBit(zeros)
           cmp   == ReadBit(ones)
           dir   == Direction(id, cmp)
           zero  == IF id = cmp /\ dir = 0 THEN bit ELSE last_zero
<1>1. wire = "search" /\ bit \in 1 .. RomBits /\ Roms # {}
  BY DEF SearchBit, WireTypes
<1>2. Heard = listening /\ ~shorted /\ listening # {}
  BY <1>1 DEF Heard, WireTypes, SearchInv
<1>3. \A r \in listening : r[bit] \in {0, 1}
  BY <1>1, RomFacts DEF WireTypes
<1>4. /\ zeros = {r \in listening : r[bit] = 0} /\ ones = {r \in listening : r[bit] = 1}
      /\ zeros # {} \/ ones # {}
  BY <1>2, <1>3
<1>5. /\ zeros # {} => id = 0
      /\ zeros = {} => id = 1
      /\ ones # {} => cmp = 0
      /\ ones = {} => cmp = 1
  BY <1>2 DEF ReadBit
<1>6. ~(id = 1 /\ cmp = 1)
  BY <1>4, <1>5
<1>7. /\ ROM_NO' = [ROM_NO EXCEPT ![bit] = dir]
      /\ listening' = {r \in Heard : r[bit] = dir}
      /\ IF bit < RomBits
         THEN /\ bit' = bit + 1 /\ last_zero' = zero
              /\ UNCHANGED <<LastDiscrepancy, LastDeviceFlag, wire, answer, found>>
         ELSE /\ bit' = 1 /\ last_zero' = 0
              /\ IF Family(ROM_NO') = Family(NoRom)
                 THEN /\ LastDiscrepancy' = 0 /\ LastDeviceFlag' = FALSE
                      /\ wire' = "notFound" /\ answer' = FALSE /\ UNCHANGED found
                 ELSE /\ LastDiscrepancy' = zero /\ LastDeviceFlag' = (zero = 0)
                      /\ wire' = "found" /\ answer' = TRUE
                      /\ found' = found \cup {ROM_NO'}
  <2> HIDE DEF zeros, ones
  <2> QED
    BY <1>6, Zenon DEF SearchBit, zeros, ones
<1> HIDE DEF zeros, ones, id, cmp
<1>8. /\ id # cmp => dir = id
      /\ id = cmp => dir = IF bit < LastDiscrepancy THEN ROM_NO[bit]
                           ELSE IF bit = LastDiscrepancy THEN 1 ELSE 0
  BY DEF Direction
<1> HIDE DEF dir
<1>9. dir \in {0, 1}
  <2>1. ROM_NO[bit] \in {0, 1}
    BY <1>1 DEF WireTypes
  <2> QED
    BY <1>4, <1>5, <1>8, <2>1
<1>10. \/ \A s \in listening : s[bit] = dir
       \/ /\ \E s \in listening : s[bit] = 1
          /\ dir = IF bit < LastDiscrepancy THEN ROM_NO[bit] ELSE IF bit = LastDiscrepancy THEN 1 ELSE 0
  <2>1. CASE zeros # {} /\ ones # {}
    BY <1>4, <1>5, <1>8, <2>1
  <2>2. CASE zeros = {}
    <3>1. dir = 1 /\ \A s \in listening : s[bit] = 1
      BY <1>3, <1>4, <1>5, <1>8, <2>2
    <3> QED
      BY <3>1
  <2>3. CASE ones = {}
    <3>1. dir = 0 /\ \A s \in listening : s[bit] = 0
      BY <1>3, <1>4, <1>5, <1>8, <2>3
    <3> QED
      BY <3>1
  <2> QED
    BY <2>1, <2>2, <2>3
<1>11. listening' # {}
  <2>1. zeros # {} /\ ones # {} => \E s \in listening : s[bit] = dir
    BY <1>4, <1>9
  <2>2. \E s \in listening : s[bit] = dir
    BY <1>3, <1>4, <1>5, <1>8, <2>1
  <2> QED
    BY <1>2, <1>7, <2>2
<1>12. \/ zero = bit /\ dir = 0 /\ \E s \in listening : s[bit] = 1
       \/ zero = last_zero /\ ~(dir = 0 /\ \E s \in listening : s[bit] = 1)
  <2>1. (dir = 0 /\ \E s \in listening : s[bit] = 1) => id = cmp
    BY <1>4, <1>5, <1>8
  <2>2. (dir = 0 /\ id = cmp) => \E s \in listening : s[bit] = 1
    BY <1>4, <1>5
  <2> QED
    BY <2>1, <2>2
<1> HIDE DEF zero
<1>13. \/ /\ bit < RomBits /\ bit' = bit + 1 /\ last_zero' = zero
          /\ UNCHANGED <<LastDiscrepancy, LastDeviceFlag, wire, found>>
       \/ /\ ~(bit < RomBits) /\ bit' = 1 /\ last_zero' = 0
          /\ Family(ROM_NO') # Family(NoRom)
          /\ LastDiscrepancy' = zero /\ wire' = "found"
          /\ LastDeviceFlag' = (zero = 0)
          /\ found' = found \cup {ROM_NO'}
       \/ ~(bit < RomBits) /\ Family(ROM_NO') = Family(NoRom)
  BY <1>7, Zenon
<1> QED
  BY <1>2, <1>7, <1>9, <1>10, <1>11, <1>12, <1>13, Zenon

\* Nothing about a path depends on what lies behind its bits.
LEMMA SamePath ==
    ASSUME NEW p, NEW q, NEW n \in Int, Agree(p, q, n)
    PROVE  /\ \A r, k : k \in Int /\ k <= n => (Agree(r, p, k) => Agree(r, q, k)) /\ (Agree(r, q, k) => Agree(r, p, k))
           /\ \A k \in 1 .. n : (Branches(p, k) => Branches(q, k)) /\ (Branches(q, k) => Branches(p, k))
           /\ \A r : (Passed(r, p, n) => Passed(r, q, n)) /\ (Passed(r, q, n) => Passed(r, p, n))
           /\ \A z : LastTurn(p, z, n) => LastTurn(q, z, n)
<1>1. \A r, k : k \in Int /\ k <= n => (Agree(r, p, k) => Agree(r, q, k)) /\ (Agree(r, q, k) => Agree(r, p, k))
  BY DEF Agree
<1>2. \A k \in 1 .. n : k \in Int /\ k - 1 \in Int /\ k - 1 <= n /\ p[k] = q[k]
  BY DEF Agree
<1>3. \A k \in 1 .. n : (Branches(p, k) => Branches(q, k)) /\ (Branches(q, k) => Branches(p, k))
  BY <1>1, <1>2 DEF Branches
<1>4. \A r : (Passed(r, p, n) => Passed(r, q, n)) /\ (Passed(r, q, n) => Passed(r, p, n))
  BY <1>1, <1>2 DEF Passed
<1>5. \A z : LastTurn(p, z, n) => LastTurn(q, z, n)
  <2> TAKE z
  <2> HAVE LastTurn(p, z, n)
  <2>1. z \in 0 .. n /\ (z # 0 => p[z] = 0 /\ Branches(p, z)) /\ \A k \in z + 1 .. n : p[k] = 0 => ~Branches(p, k)
    BY DEF LastTurn
  <2>2. z # 0 => z \in 1 .. n
    BY <2>1
  <2>3. z # 0 => q[z] = 0 /\ Branches(q, z)
    BY <1>2, <1>3, <2>1, <2>2
  <2>4. \A k \in z + 1 .. n : q[k] = 0 => ~Branches(q, k)
    <3> TAKE k \in z + 1 .. n
    <3>1. k \in 1 .. n
      BY <2>1
    <3> QED
      BY <1>2, <1>3, <2>1, <3>1
  <2> QED
    BY <2>1, <2>3, <2>4 DEF LastTurn
<1> QED
  BY <1>1, <1>3, <1>4, <1>5

\* One bit more.
LEMMA OneMore ==
    ASSUME NEW a, NEW b, NEW n \in Nat
    PROVE  /\ Agree(a, b, n) /\ a[n + 1] = b[n + 1] => Agree(a, b, n + 1)
           /\ Agree(a, b, n + 1) => Agree(a, b, n) /\ a[n + 1] = b[n + 1]
<1>1. \A m \in 1 .. n + 1 : m \in 1 .. n \/ m = n + 1
  OBVIOUS
<1>2. n + 1 \in 1 .. n + 1 /\ \A m \in 1 .. n : m \in 1 .. n + 1
  OBVIOUS
<1> QED
  BY <1>1, <1>2 DEF Agree

LEMMA TurnStep ==
    ASSUME WireTypes, SearchInv, steady, wire = "search", NEW dir \in {0, 1},
           ROM_NO' = [ROM_NO EXCEPT ![bit] = dir], UNCHANGED attached,
           NEW zero,
           \/ zero = bit /\ dir = 0 /\ \E s \in listening : s[bit] = 1
           \/ zero = last_zero /\ ~(dir = 0 /\ \E s \in listening : s[bit] = 1)
    PROVE  /\ Agree(ROM_NO, ROM_NO', bit - 1) /\ ROM_NO'[bit] = dir
           /\ ROM_NO' \in [1 .. RomBits -> {0, 1}]
           /\ LastTurn(ROM_NO', zero, bit)
           /\ {r \in listening : r[bit] = dir} = {r \in attached : Agree(r, ROM_NO', bit)}
<1>1. /\ bit \in 1 .. RomBits /\ Roms # {} /\ ROM_NO \in [1 .. RomBits -> {0, 1}]
      /\ listening = {r \in attached : Agree(r, ROM_NO, bit - 1)}
      /\ LastTurn(ROM_NO, last_zero, bit - 1)
  BY DEF WireTypes, SearchInv
<1>2. RomBits \in Nat /\ bit \in Nat /\ bit - 1 \in Nat /\ bit - 1 + 1 = bit
  BY <1>1, RomFacts
<1>3. ROM_NO'[bit] = dir /\ ROM_NO' \in [1 .. RomBits -> {0, 1}]
  BY <1>1
<1>4. Agree(ROM_NO, ROM_NO', bit - 1)
  <2>1. \A m \in 1 .. bit - 1 : m \in 1 .. RomBits /\ m # bit
    BY <1>1, <1>2
  <2> QED
    BY <1>1, <2>1 DEF Agree
<1> DEFINE q == ROM_NO'
<1>5. LastTurn(q, last_zero, bit - 1)
  <2> HIDE DEF q
  <2>1. Agree(ROM_NO, q, bit - 1) /\ bit - 1 \in Int
    BY <1>2, <1>4 DEF q
  <2> QED
    BY <1>1, <2>1, SamePath
<1>6. \A r \in attached : (r \in listening => Agree(r, q, bit - 1)) /\ (Agree(r, q, bit - 1) => r \in listening)
  <2> HIDE DEF q
  <2>1. Agree(ROM_NO, q, bit - 1) /\ bit - 1 \in Int /\ bit - 1 <= bit - 1
    BY <1>2, <1>4 DEF q
  <2>2. \A r : (Agree(r, ROM_NO, bit - 1) => Agree(r, q, bit - 1)) /\ (Agree(r, q, bit - 1) => Agree(r, ROM_NO, bit - 1))
    BY <2>1, SamePath
  <2> QED
    BY <1>1, <2>2
<1>7. q[bit] = dir
  BY <1>3
<1> HIDE DEF q
<1>8. {r \in listening : r[bit] = dir} = {r \in attached : Agree(r, q, bit)}
  <2>1. PICK n : n = bit - 1
    OBVIOUS
  <2>2. n \in Nat /\ n + 1 = bit
    BY <1>2, <2>1
  <2>3. \A r : /\ Agree(r, q, n) /\ r[n + 1] = q[n + 1] => Agree(r, q, n + 1)
               /\ Agree(r, q, n + 1) => Agree(r, q, n) /\ r[n + 1] = q[n + 1]
    BY SMTT(30), <2>2, OneMore
  <2>4. /\ \A r : Agree(r, q, bit - 1) /\ r[bit] = dir => Agree(r, q, bit)
        /\ \A r : Agree(r, q, bit) => Agree(r, q, bit - 1) /\ r[bit] = dir
    BY <1>7, <2>1, <2>2, <2>3
  <2>5. listening \subseteq attached
    BY DEF WireTypes
  <2> QED
    BY <1>6, <2>4, <2>5
<1>9. /\ Branches(q, bit) => \E s \in listening : s[bit] = 1
      /\ (\E s \in listening : s[bit] = 1) => Branches(q, bit)
  <2>1. listening \subseteq attached
    BY DEF WireTypes
  <2> QED
    BY <1>6, <2>1 DEF Branches
<1>10. LastTurn(q, zero, bit)
  <2>1. last_zero \in 0 .. bit - 1 /\ (last_zero # 0 => q[last_zero] = 0 /\ Branches(q, last_zero))
        /\ \A k \in last_zero + 1 .. bit - 1 : q[k] = 0 => ~Branches(q, k)
    BY <1>5 DEF LastTurn
  <2>2. CASE zero = bit /\ dir = 0 /\ \E s \in listening : s[bit] = 1
    <3>1. q[zero] = 0 /\ Branches(q, zero) /\ zero \in 0 .. bit
      BY <1>2, <1>7, <1>9, <2>2
    <3>2. \A k \in zero + 1 .. bit : FALSE
      BY <1>2, <2>2
    <3> QED
      BY <3>1, <3>2 DEF LastTurn
  <2>3. CASE zero = last_zero /\ ~(dir = 0 /\ \E s \in listening : s[bit] = 1)
    <3>1. \A k \in zero + 1 .. bit : q[k] = 0 => ~Branches(q, k)
      <4> TAKE k \in zero + 1 .. bit
      <4>1. k = bit \/ k \in last_zero + 1 .. bit - 1
        BY <1>2, <2>1, <2>3
      <4> QED
        BY <1>7, <1>9, <2>1, <2>3, <4>1
    <3>2. zero \in 0 .. bit
      BY <1>2, <2>1, <2>3
    <3> QED
      BY <2>1, <2>3, <3>1, <3>2 DEF LastTurn
  <2> QED
    BY <2>2, <2>3
<1> QED
  BY <1>3, <1>4, <1>8, <1>10 DEF q

LEMMA FirstDifference ==
    ASSUME NEW a \in [1 .. RomBits -> {0, 1}], NEW b \in [1 .. RomBits -> {0, 1}], a # b, RomBits \in Nat
    PROVE  \E m \in 1 .. RomBits : a[m] # b[m] /\ Agree(a, b, m - 1)
<1> DEFINE D == {m \in 1 .. RomBits : a[m] # b[m]}
           R == OpToRel(<, Nat)
<1>1. D # {} /\ D \subseteq Nat
  <2>1. D # {}
    BY AllAgree DEF Agree
  <2> QED
    BY <2>1
<1>2. IsWellFoundedOn(R, Nat)
  BY NatLessThanWellFounded
<1>3. \A T : T \subseteq Nat /\ T # {} => \E x \in T : \A y \in T : ~(<<y, x>> \in R)
  BY <1>2, WFMin
<1>4. PICK m \in D : \A y \in D : ~(<<y, m>> \in R)
  BY <1>1, <1>3
<1>5. \A y \in D : ~(y < m)
  <2> TAKE y \in D
  <2>1. y \in Nat /\ m \in Nat
    BY <1>1
  <2> QED
    BY <1>4, <2>1 DEF OpToRel
<1>6. m \in 1 .. RomBits /\ a[m] # b[m]
  OBVIOUS
<1>7. \A y \in 1 .. m - 1 : y \in 1 .. RomBits /\ y < m
  BY <1>6
<1>8. Agree(a, b, m - 1)
  BY <1>5, <1>7 DEF Agree
<1> QED
  BY <1>6, <1>8

\* The devices found, as the search goes on.
LEMMA FullStep ==
    ASSUME WireTypes, SearchInv, steady, wire = "search", target = NoRom,
           NEW dir \in {0, 1}, ROM_NO' = [ROM_NO EXCEPT ![bit] = dir],
           \/ \A s \in listening : s[bit] = dir
           \/ /\ \E s \in listening : s[bit] = 1
              /\ dir = IF bit < LastDiscrepancy THEN ROM_NO[bit]
                       ELSE IF bit = LastDiscrepancy THEN 1 ELSE 0,
           Agree(ROM_NO, ROM_NO', bit - 1), ROM_NO'[bit] = dir
    PROVE  /\ bit < LastDiscrepancy => ROM_NO' = ROM_NO
           /\ ~(bit < LastDiscrepancy) => found = {r \in attached : Passed(r, ROM_NO', bit)}
<1>1. /\ bit \in 1 .. RomBits /\ Roms # {} /\ ROM_NO \in [1 .. RomBits -> {0, 1}]
      /\ listening = {r \in attached : Agree(r, ROM_NO, bit - 1)}
      /\ LastDiscrepancy \in 0 .. RomBits /\ attached \subseteq Roms
  BY DEF WireTypes, SearchInv
<1>2. RomBits \in Nat /\ bit \in Nat /\ bit - 1 \in Nat /\ LastDiscrepancy \in Nat
  BY <1>1, RomFacts
<1>3. bit <= LastDiscrepancy => Walked /\ ROM_NO \in listening
  <2>1. SUFFICES ASSUME bit <= LastDiscrepancy PROVE Walked /\ ROM_NO \in listening
    OBVIOUS
  <2>2. Walked
    BY <2>1 DEF SearchInv
  <2>3. Agree(ROM_NO, ROM_NO, bit - 1)
    BY DEF Agree
  <2> QED
    BY <1>1, <2>2, <2>3 DEF Walked
<1>4. CASE bit < LastDiscrepancy
  <2>1. dir = ROM_NO[bit]
    BY <1>2, <1>3, <1>4
  <2> QED
    BY <1>1, <1>4, <2>1
<1>5. PICK q : q = ROM_NO'
  OBVIOUS
<1>6. Agree(ROM_NO, q, bit - 1) /\ q[bit] = dir
  BY <1>5
<1>7. \A r, k : k \in Int /\ k <= bit - 1 => (Agree(r, ROM_NO, k) => Agree(r, q, k)) /\ (Agree(r, q, k) => Agree(r, ROM_NO, k))
  <2>1. bit - 1 \in Int
    BY <1>2
  <2> QED
    BY <1>6, <2>1, SamePath
<1>8. \A k \in 1 .. bit - 1 : q[k] = ROM_NO[k]
  BY <1>6 DEF Agree
<1>9. CASE bit = LastDiscrepancy
  <2>1. Walked /\ ROM_NO \in listening
    BY <1>2, <1>3, <1>9
  <2>2. /\ found = {r \in attached : r = ROM_NO \/ Passed(r, ROM_NO, RomBits)}
        /\ ROM_NO[bit] = 0 /\ Branches(ROM_NO, bit)
        /\ \A k \in bit + 1 .. RomBits : ROM_NO[k] = 0 => ~Branches(ROM_NO, k)
    BY <1>1, <1>2, <1>9, <2>1 DEF Walked, LastTurn
  <2>3. dir = 1
    <3>1. \E s \in listening : s[bit] = 1
      BY <1>1, <2>2 DEF Branches
    <3> QED
      BY <1>2, <1>9, <2>1, <2>2, <3>1
  <2>4. ASSUME NEW r \in attached, r = ROM_NO \/ Passed(r, ROM_NO, RomBits) PROVE Passed(r, q, bit)
    <3>1. CASE r = ROM_NO
      BY <1>2, <1>6, <2>2, <2>3, <3>1 DEF Passed
    <3>2. CASE Passed(r, ROM_NO, RomBits)
      <4>1. PICK k \in 1 .. RomBits : Agree(r, ROM_NO, k - 1) /\ r[k] = 0 /\ ROM_NO[k] = 1
        BY <3>2 DEF Passed
      <4>2. CASE k < bit
        <5>1. k \in 1 .. bit - 1 /\ k - 1 \in Int /\ k - 1 <= bit - 1 /\ k \in 1 .. bit
          BY <1>2, <4>1, <4>2
        <5> QED
          BY <1>7, <1>8, <4>1, <5>1 DEF Passed
      <4>3. k # bit
        BY <2>2, <4>1
      <4>4. CASE k > bit
        <5>1. bit \in 1 .. k - 1 /\ \A m \in 1 .. bit - 1 : m \in 1 .. k - 1
          BY <1>1, <1>2, <4>1, <4>4
        <5>2. r[bit] = 0 /\ Agree(r, ROM_NO, bit - 1)
          BY <2>2, <4>1, <5>1 DEF Agree
        <5>3. Agree(r, q, bit - 1) /\ bit \in 1 .. bit
          BY <1>1, <1>2, <1>7, <5>2
        <5> QED
          BY <1>6, <2>3, <5>2, <5>3 DEF Passed
      <4> QED
        BY <1>2, <4>1, <4>2, <4>3, <4>4
    <3> QED
      BY <2>4, <3>1, <3>2
  <2>5. ASSUME NEW r \in attached, Passed(r, q, bit), r # ROM_NO PROVE Passed(r, ROM_NO, RomBits)
    <3>1. PICK k \in 1 .. bit : Agree(r, q, k - 1) /\ r[k] = 0 /\ q[k] = 1
      BY <2>5 DEF Passed
    <3>2. k - 1 \in Int /\ k - 1 <= bit - 1 /\ k \in 1 .. RomBits
      BY <1>1, <1>2, <3>1
    <3>3. Agree(r, ROM_NO, k - 1)
      BY <1>7, <3>1, <3>2
    <3>4. CASE k < bit
      <4>1. ROM_NO[k] = 1
        BY <1>2, <1>8, <3>1, <3>4
      <4> QED
        BY <3>1, <3>2, <3>3, <4>1 DEF Passed
    <3>5. CASE k = bit
      <4>1. r \in [1 .. RomBits -> {0, 1}]
        BY <1>1, RomFacts
      <4>2. PICK m \in 1 .. RomBits : r[m] # ROM_NO[m] /\ Agree(r, ROM_NO, m - 1)
        BY <1>1, <1>2, <2>5, <4>1, FirstDifference
      <4>3. m > bit
        <5>1. SUFFICES ASSUME m \in 1 .. bit PROVE FALSE
          BY <1>2, <4>2
        <5>2. m = bit \/ m \in 1 .. bit - 1
          BY <1>2, <5>1
        <5>3. r[m] = ROM_NO[m]
          BY <2>2, <3>1, <3>3, <3>5, <5>2 DEF Agree
        <5> QED
          BY <4>2, <5>3
      <4>4. m \in bit + 1 .. RomBits
        BY <1>2, <4>2, <4>3
      <4>5. CASE ROM_NO[m] = 0
        <5>1. r[m] = 1
          BY <4>1, <4>2, <4>5
        <5>2. Branches(ROM_NO, m)
          BY <4>2, <5>1 DEF Branches
        <5> QED
          BY <2>2, <4>4, <4>5, <5>2
      <4>6. CASE ROM_NO[m] = 1
        <5>1. r[m] = 0
          BY <4>1, <4>2, <4>6
        <5> QED
          BY <4>2, <4>6, <5>1 DEF Passed
      <4> QED
        BY <1>1, <4>2, <4>5, <4>6
    <3> QED
      BY <1>2, <3>1, <3>4, <3>5
  <2>6. found = {r \in attached : Passed(r, q, bit)}
    BY <2>2, <2>4, <2>5
  <2> QED
    BY <1>2, <1>5, <1>9, <2>6
<1>10. CASE bit > LastDiscrepancy
  <2>1. found = {r \in attached : Passed(r, ROM_NO, bit - 1)}
    BY <1>10 DEF SearchInv
  <2>2. ASSUME NEW r \in attached, Passed(r, ROM_NO, bit - 1) PROVE Passed(r, q, bit)
    <3>1. PICK k \in 1 .. bit - 1 : Agree(r, ROM_NO, k - 1) /\ r[k] = 0 /\ ROM_NO[k] = 1
      BY <2>2 DEF Passed
    <3>2. k - 1 \in Int /\ k - 1 <= bit - 1 /\ k \in 1 .. bit
      BY <1>2, <3>1
    <3> QED
      BY <1>7, <1>8, <3>1, <3>2 DEF Passed
  <2>3. ASSUME NEW r \in attached, Passed(r, q, bit) PROVE Passed(r, ROM_NO, bit - 1)
    <3>1. PICK k \in 1 .. bit : Agree(r, q, k - 1) /\ r[k] = 0 /\ q[k] = 1
      BY <2>3 DEF Passed
    <3>2. k - 1 \in Int /\ k - 1 <= bit - 1
      BY <1>2, <3>1
    <3>3. Agree(r, ROM_NO, k - 1)
      BY <1>7, <3>1, <3>2
    <3>4. k # bit
      <4>1. SUFFICES ASSUME k = bit PROVE FALSE
        OBVIOUS
      <4>2. r \in listening /\ r[bit] = 0 /\ dir = 1
        BY <1>1, <1>6, <3>1, <3>3, <4>1
      <4> QED
        BY <1>2, <1>10, <4>2
    <3>5. k \in 1 .. bit - 1
      BY <1>2, <3>1, <3>4
    <3>6. ROM_NO[k] = 1
      BY <1>8, <3>1, <3>5
    <3> QED
      BY <3>1, <3>3, <3>5, <3>6 DEF Passed
  <2>4. found = {r \in attached : Passed(r, q, bit)}
    BY <2>1, <2>2, <2>3
  <2> QED
    BY <1>2, <1>5, <1>10, <2>4
<1>11. bit < LastDiscrepancy \/ bit = LastDiscrepancy \/ bit > LastDiscrepancy
  BY <1>2
<1> QED
  BY <1>4, <1>9, <1>10, <1>11, Zenon

\* A bit of the search, whatever the devices do: the types.
LEMMA SearchBitTypes ==
    ASSUME WireTypes, SearchBit
    PROVE  WireTypes' /\ wire' \in {"search", "found", "notFound"}
<1> DEFINE id   == ReadBit({r \in Heard : r[bit] = 0})
           cmp  == ReadBit({r \in Heard : r[bit] = 1})
           dir  == Direction(id, cmp)
           zero == IF id = cmp /\ dir = 0 THEN bit ELSE last_zero
<1>1. /\ wire = "search" /\ bit \in 1 .. RomBits /\ Roms # {}
      /\ UNCHANGED <<attached, shorted, temp, raw, target, steady>>
  BY DEF SearchBit, WireTypes
<1>2. RomBits \in Nat
  BY <1>1, RomFacts
<1>3. dir \in {0, 1}
  <2>1. id \in {0, 1} /\ ROM_NO[bit] \in {0, 1}
    BY <1>1 DEF ReadBit, WireTypes
  <2> HIDE DEF id, cmp
  <2> QED
    BY <2>1 DEF Direction
<1>4. \/ NotFound
      \/ /\ ROM_NO' = [ROM_NO EXCEPT ![bit] = dir] /\ listening' = {r \in Heard : r[bit] = dir}
         /\ \/ bit < RomBits /\ bit' = bit + 1 /\ UNCHANGED wire
            \/ /\ bit' = 1 /\ last_zero' = 0
               /\ \/ LastDiscrepancy' = 0 /\ LastDeviceFlag' = FALSE /\ wire' = "notFound"
                  \/ wire' = "found" /\ found' = found \cup {[ROM_NO EXCEPT ![bit] = dir]}
  BY Zenon DEF SearchBit
<1> HIDE DEF dir, zero, id, cmp
<1>5. CASE NotFound
  BY <1>1, <1>5 DEF NotFound, WireTypes
<1>6. CASE /\ ROM_NO' = [ROM_NO EXCEPT ![bit] = dir] /\ listening' = {r \in Heard : r[bit] = dir}
           /\ \/ bit < RomBits /\ bit' = bit + 1 /\ UNCHANGED wire
              \/ /\ bit' = 1 /\ last_zero' = 0
                 /\ \/ LastDiscrepancy' = 0 /\ LastDeviceFlag' = FALSE /\ wire' = "notFound"
                    \/ wire' = "found" /\ found' = found \cup {[ROM_NO EXCEPT ![bit] = dir]}
  <2>1. ROM_NO' \in [1 .. RomBits -> {0, 1}]
    BY <1>1, <1>3, <1>6 DEF WireTypes
  <2>2. listening' \subseteq attached /\ (shorted => listening' = {} /\ ~steady)
    BY <1>6 DEF WireTypes, Heard
  <2>3. /\ attached \subseteq Roms /\ shorted \in BOOLEAN /\ target \in [1 .. RomBits -> {0, 1}]
        /\ temp \in Temps /\ raw \in Int
    BY DEF WireTypes
  <2>4. CASE bit < RomBits /\ bit' = bit + 1 /\ UNCHANGED wire
    <3>1. bit' \in 1 .. RomBits
      BY <1>1, <1>2, <2>4
    <3> QED
      BY <1>1, <2>1, <2>2, <2>3, <2>4, <3>1 DEF WireTypes
  <2>5. CASE bit' = 1 /\ last_zero' = 0 /\ LastDiscrepancy' = 0 /\ LastDeviceFlag' = FALSE /\ wire' = "notFound"
    BY <1>1, <2>1, <2>2, <2>3, <2>5 DEF WireTypes
  <2>6. CASE bit' = 1 /\ last_zero' = 0 /\ wire' = "found" /\ found' = found \cup {[ROM_NO EXCEPT ![bit] = dir]}
    <3>1. found' # {}
      BY <2>6
    <3> QED
      BY <1>1, <2>1, <2>2, <2>3, <2>6, <3>1 DEF WireTypes
  <2> QED
    BY <1>6, <2>4, <2>5, <2>6
<1> QED
  BY <1>4, <1>5, <1>6

\* On the way to the first device of a family.
LEMMA FamilyStep ==
    ASSUME WireTypes, SearchInv, TargetInv, steady, wire = "search", target # NoRom, found = {}, There,
           NEW dir \in {0, 1}, ROM_NO' = [ROM_NO EXCEPT ![bit] = dir],
           \/ \A s \in listening : s[bit] = dir
           \/ dir = IF bit < LastDiscrepancy THEN ROM_NO[bit]
                    ELSE IF bit = LastDiscrepancy THEN 1 ELSE 0,
           ROM_NO'[bit] = dir
    PROVE  Agree(ROM_NO', target, FamilyBits)
<1>1. /\ bit \in 1 .. RomBits /\ Roms # {} /\ ROM_NO \in [1 .. RomBits -> {0, 1}]
      /\ listening = {r \in attached : Agree(r, ROM_NO, bit - 1)}
      /\ attached \subseteq Roms /\ target \in [1 .. RomBits -> {0, 1}]
  BY DEF WireTypes, SearchInv
<1>2. /\ RomBits \in Nat /\ bit \in Nat /\ FamilyBits \in Nat /\ FamilyBits < RomBits
      /\ LastDiscrepancy = RomBits /\ Agree(ROM_NO, target, FamilyBits)
  BY <1>1, RomFacts DEF TargetInv
<1>3. SUFFICES ASSUME NEW m \in 1 .. FamilyBits PROVE ROM_NO'[m] = target[m]
  BY DEF Agree
<1>4. m \in 1 .. RomBits /\ ROM_NO[m] = target[m]
  BY <1>2 DEF Agree
<1>5. CASE m # bit
  BY <1>1, <1>4, <1>5
<1>6. CASE m = bit
  <2>1. bit < LastDiscrepancy
    BY <1>2, <1>6
  <2>2. CASE \A s \in listening : s[bit] = dir
    <3>1. PICK s \in attached : Family(s) = Family(target)
      BY DEF There
    <3>2. Agree(s, target, FamilyBits)
      BY <1>1, <3>1, RomFacts, FamilySame
    <3>3. \A k \in 1 .. bit - 1 : k \in 1 .. FamilyBits
      BY <1>2, <1>6
    <3>4. Agree(s, ROM_NO, bit - 1)
      BY <1>2, <3>2, <3>3 DEF Agree
    <3>5. s[bit] = dir /\ s[bit] = target[bit]
      BY <1>1, <1>6, <2>2, <3>2, <3>4 DEF Agree
    <3> QED
      BY <1>6, <3>5
  <2>3. CASE dir = IF bit < LastDiscrepancy THEN ROM_NO[bit]
                   ELSE IF bit = LastDiscrepancy THEN 1 ELSE 0
    BY <1>4, <1>6, <2>1, <2>3
  <2> QED
    BY <2>2, <2>3
<1> QED
  BY <1>5, <1>6

LEMMA SearchBitOK == WireInv /\ SearchBit => WireInv'
<1> SUFFICES ASSUME WireInv, SearchBit PROVE WireInv'
  OBVIOUS
<1>1. WireTypes /\ SearchInv /\ TargetInv
  BY DEF WireInv
<1>2. WireTypes' /\ wire' \in {"search", "found", "notFound"}
  BY <1>1, SearchBitTypes
<1>3. wire = "search" /\ UNCHANGED <<attached, shorted, target, steady>>
  BY DEF SearchBit
<1>4. TempInv'
  BY <1>2 DEF TempInv
<1>5. CASE ~steady
  BY <1>2, <1>3, <1>4, <1>5 DEF WireInv, RestInv, SearchInv, TargetInv
<1>6. CASE steady
  <2>1. PICK dir \in {0, 1} :
          /\ ROM_NO' = [ROM_NO EXCEPT ![bit] = dir]
          /\ listening' = {r \in listening : r[bit] = dir} /\ listening' # {}
          /\ \/ \A s \in listening : s[bit] = dir
             \/ /\ \E s \in listening : s[bit] = 1
                /\ dir = IF bit < LastDiscrepancy THEN ROM_NO[bit]
                         ELSE IF bit = LastDiscrepancy THEN 1 ELSE 0
          /\ \E zero :
               /\ \/ zero = bit /\ dir = 0 /\ \E s \in listening : s[bit] = 1
                  \/ zero = last_zero /\ ~(dir = 0 /\ \E s \in listening : s[bit] = 1)
               /\ \/ /\ bit < RomBits /\ bit' = bit + 1 /\ last_zero' = zero
                     /\ UNCHANGED <<LastDiscrepancy, LastDeviceFlag, wire, found>>
                  \/ /\ ~(bit < RomBits) /\ bit' = 1 /\ last_zero' = 0
                     /\ Family(ROM_NO') # Family(NoRom)
                     /\ LastDiscrepancy' = zero /\ wire' = "found"
                     /\ LastDeviceFlag' = (zero = 0)
                     /\ found' = found \cup {ROM_NO'}
                  \/ ~(bit < RomBits) /\ Family(ROM_NO') = Family(NoRom)
    BY <1>1, <1>6, SearchBitMeans
  <2>2. PICK zero :
          /\ \/ zero = bit /\ dir = 0 /\ \E s \in listening : s[bit] = 1
             \/ zero = last_zero /\ ~(dir = 0 /\ \E s \in listening : s[bit] = 1)
          /\ \/ /\ bit < RomBits /\ bit' = bit + 1 /\ last_zero' = zero
                /\ UNCHANGED <<LastDiscrepancy, LastDeviceFlag, wire, found>>
             \/ /\ ~(bit < RomBits) /\ bit' = 1 /\ last_zero' = 0
                /\ Family(ROM_NO') # Family(NoRom)
                /\ LastDiscrepancy' = zero /\ wire' = "found"
                /\ LastDeviceFlag' = (zero = 0)
                /\ found' = found \cup {ROM_NO'}
             \/ ~(bit < RomBits) /\ Family(ROM_NO') = Family(NoRom)
    BY <2>1
  <2>3. /\ Agree(ROM_NO, ROM_NO', bit - 1) /\ ROM_NO'[bit] = dir
        /\ ROM_NO' \in [1 .. RomBits -> {0, 1}]
        /\ LastTurn(ROM_NO', zero, bit)
        /\ {r \in listening : r[bit] = dir} = {r \in attached : Agree(r, ROM_NO', bit)}
    BY <1>1, <1>3, <1>6, <2>1, <2>2, TurnStep
  <2>4. target = NoRom =>
          /\ bit < LastDiscrepancy => ROM_NO' = ROM_NO
          /\ ~(bit < LastDiscrepancy) => found = {r \in attached : Passed(r, ROM_NO', bit)}
    BY <1>1, <1>3, <1>6, <2>1, <2>3, FullStep
  <2>5. target # NoRom /\ found = {} => LastDiscrepancy = RomBits /\ (There => Agree(ROM_NO', target, FamilyBits))
    <3>1. target # NoRom /\ found = {} => LastDiscrepancy = RomBits
      BY <1>1, <1>3, <1>6 DEF TargetInv
    <3>2. target # NoRom /\ found = {} /\ There => Agree(ROM_NO', target, FamilyBits)
      BY <1>1, <1>3, <1>6, <2>1, <2>3, FamilyStep
    <3> QED
      BY <3>1, <3>2
  <2>6. /\ bit \in 1 .. RomBits /\ RomBits \in Nat /\ attached \subseteq Roms /\ attached # {}
        /\ found \subseteq attached
        /\ \A r \in found : found = {r} /\ There => Family(r) = Family(target)
        /\ target = NoRom => LastDiscrepancy \in 0 .. RomBits /\ (bit <= LastDiscrepancy => Walked)
    <3>1. bit \in 1 .. RomBits /\ RomBits \in Nat /\ attached \subseteq Roms
      BY <1>1, <1>3, RomFacts DEF WireTypes
    <3>2. attached # {}
      BY <1>1, <1>3, <1>6 DEF WireTypes, SearchInv
    <3>3. /\ found \subseteq attached
          /\ \A r \in found : found = {r} /\ There => Family(r) = Family(target)
      BY <1>1, <1>6 DEF TargetInv
    <3>4. target = NoRom => LastDiscrepancy \in 0 .. RomBits /\ (bit <= LastDiscrepancy => Walked)
      BY <1>1, <1>3, <1>6 DEF SearchInv
    <3> QED
      BY <3>1, <3>2, <3>3, <3>4
  <2>7. There' = There
    BY <1>3 DEF There
  <2>8. CASE /\ bit < RomBits /\ bit' = bit + 1 /\ last_zero' = zero
             /\ UNCHANGED <<LastDiscrepancy, LastDeviceFlag, wire, found>>
    <3>1. bit' - 1 = bit /\ bit \in Nat
      BY <2>6, <2>8
    <3>2. listening' # {} /\ listening' = {r \in attached' : Agree(r, ROM_NO', bit' - 1)}
      BY <1>3, <2>1, <2>3, <3>1
    <3>3. LastTurn(ROM_NO, last_zero, bit - 1)'
      BY <1>3, <2>3, <2>8, <3>1 DEF LastTurn, Branches, Agree
    <3>4. target = NoRom /\ bit' <= LastDiscrepancy => Walked'
      <4>1. SUFFICES ASSUME target = NoRom, bit' <= LastDiscrepancy PROVE Walked'
        OBVIOUS
      <4>2. bit < LastDiscrepancy /\ bit <= LastDiscrepancy
        BY <2>6, <2>8, <4>1
      <4>3. Walked /\ UNCHANGED <<ROM_NO, attached, found, LastDiscrepancy>>
        BY <1>3, <2>4, <2>6, <2>8, <4>1, <4>2
      <4> QED
        BY <4>3 DEF Walked, Passed, LastTurn, Branches, Agree
    <3>5. target = NoRom /\ bit' > LastDiscrepancy =>
            found' = {r \in attached' : Passed(r, ROM_NO', bit' - 1)}
      <4>1. SUFFICES ASSUME target = NoRom, bit' > LastDiscrepancy
                     PROVE  found' = {r \in attached' : Passed(r, ROM_NO', bit' - 1)}
        OBVIOUS
      <4>2. ~(bit < LastDiscrepancy)
        BY <2>6, <2>8, <4>1
      <4>3. found = {r \in attached : Passed(r, ROM_NO', bit)}
        BY <2>4, <4>1, <4>2
      <4> QED
        BY <1>3, <2>8, <3>1, <4>3
    <3>6. SearchInv'
      BY <1>3, <2>6, <2>8, <3>2, <3>3, <3>4, <3>5 DEF SearchInv
    <3>7. TargetInv'
      BY <1>3, <2>5, <2>6, <2>7, <2>8 DEF TargetInv
    <3>8. RestInv'
      BY <1>3, <2>8 DEF RestInv
    <3> QED
      BY <1>2, <1>4, <3>6, <3>7, <3>8 DEF WireInv
  <2>9. ASSUME ~(bit < RomBits)
        PROVE  ROM_NO' \in attached /\ LastTurn(ROM_NO', zero, RomBits) /\ bit = RomBits
    <3>1. bit = RomBits
      BY <2>6, <2>9
    <3>2. PICK r \in attached : Agree(r, ROM_NO', RomBits)
      BY <2>1, <2>3, <3>1
    <3>3. r \in [1 .. RomBits -> {0, 1}]
      BY <2>6, RomFacts
    <3>4. PICK q : q = ROM_NO'
      OBVIOUS
    <3>5. r = q
      BY <2>3, <3>2, <3>3, <3>4, AllAgree
    <3> QED
      BY <2>3, <3>1, <3>4, <3>5
  <2>10. CASE /\ ~(bit < RomBits) /\ bit' = 1 /\ last_zero' = 0
              /\ Family(ROM_NO') # Family(NoRom)
              /\ LastDiscrepancy' = zero /\ wire' = "found"
              /\ LastDeviceFlag' = (zero = 0)
              /\ found' = found \cup {ROM_NO'}
    <3>1. ROM_NO' \in attached /\ LastTurn(ROM_NO', zero, RomBits) /\ bit = RomBits
      BY <2>9, <2>10
    <3>2. SearchInv'
      BY <2>10 DEF SearchInv
    <3>3. target = NoRom => Walked'
      <4>1. SUFFICES ASSUME target = NoRom PROVE Walked'
        OBVIOUS
      <4>2. found = {r \in attached : Passed(r, ROM_NO', RomBits)}
        BY <2>4, <2>6, <3>1, <4>1
      <4>3. found' = {r \in attached : r = ROM_NO' \/ Passed(r, ROM_NO', RomBits)}
        BY <2>10, <3>1, <4>2
      <4>4. LastTurn(ROM_NO, LastDiscrepancy, RomBits)'
        BY <1>3, <2>10, <3>1 DEF LastTurn, Branches, Agree
      <4>5. ROM_NO' \in attached'
        BY <1>3, <3>1
      <4>6. found' = {r \in attached' : r = ROM_NO' \/ Passed(r, ROM_NO, RomBits)'}
        BY <1>3, <4>3 DEF Passed, Agree
      <4> QED
        BY <4>4, <4>5, <4>6 DEF Walked
    <3>4. RestInv'
      <4>1. LastDeviceFlag' => zero = 0
        BY <2>10, Zenon
      <4>2. zero = 0 => LastDeviceFlag'
        BY <2>10, Zenon
      <4>3. found' # {}
        BY <2>10
      <4> QED
        BY <1>3, <2>10, <3>3, <4>1, <4>2, <4>3 DEF RestInv
    <3>5. TargetInv'
      <4>1. found' \subseteq attached /\ found' # {}
        BY <2>6, <2>10, <3>1
      <4>2. ASSUME NEW r \in found', found' = {r}, There PROVE Family(r) = Family(target)
        <5>1. r = ROM_NO' /\ (found = {} \/ found = {r})
          BY <2>10, <4>2
        <5>2. CASE found = {r}
          BY <2>6, <4>2, <5>2
        <5>3. CASE found = {} /\ target # NoRom
          <6>1. Agree(r, target, FamilyBits)
            BY <2>5, <4>2, <5>1, <5>3
          <6> QED
            BY <1>1, <2>6, <3>1, <5>1, <6>1, RomFacts, FamilySame DEF WireTypes
        <5>4. CASE target = NoRom
          <6>1. PICK s \in attached : Family(s) = Family(NoRom)
            BY <4>2, <5>4 DEF There
          <6> QED
            BY <2>6, <6>1, RomFacts
        <5> QED
          BY <5>1, <5>2, <5>3, <5>4
      <4> QED
        BY <1>3, <2>7, <2>10, <4>1, <4>2 DEF TargetInv
    <3> QED
      BY <1>2, <1>4, <3>2, <3>4, <3>5 DEF WireInv
  <2>11. CASE ~(bit < RomBits) /\ Family(ROM_NO') = Family(NoRom)
    BY <2>6, <2>9, <2>11, RomFacts
  <2> QED
    BY <2>2, <2>8, <2>10, <2>11
<1> QED
  BY <1>5, <1>6

LEMMA ComeOrGoOK == WireInv /\ ComeOrGo => WireInv'
<1> SUFFICES ASSUME WireInv, ComeOrGo PROVE WireInv'
  OBVIOUS
<1>1. /\ steady' = FALSE
      /\ UNCHANGED <<ROM_NO, LastDiscrepancy, LastDeviceFlag, last_zero, bit, wire, temp, raw, found, target>>
      /\ listening' = IF shorted' THEN {} ELSE listening \cap attached'
      /\ \/ (\E r \in Roms : attached' = (attached \ {r}) \cup ({r} \ attached)) /\ shorted' = shorted
         \/ shorted' = ~shorted /\ attached' = attached
  BY DEF ComeOrGo, searchState
<1>2. WireTypes
  BY DEF WireInv
<1>3. attached' \subseteq Roms /\ listening' \subseteq attached' /\ listening' \subseteq listening
  BY <1>1, <1>2 DEF WireTypes
<1>4. shorted' \in BOOLEAN
  BY <1>1, <1>2, Zenon DEF WireTypes
<1>5. WireTypes'
  BY <1>1, <1>2, <1>3, <1>4 DEF WireTypes
<1>6. TempInv'
  BY <1>1, <1>3 DEF WireInv, TempInv
<1> QED
  BY <1>1, <1>5, <1>6 DEF WireInv, RestInv, SearchInv, TargetInv

LEMMA ResetSearchOK == WireInv /\ ResetSearch => WireInv'
<1> SUFFICES ASSUME WireInv, ResetSearch PROVE WireInv'
  OBVIOUS
<1>1. /\ wire = "rest" /\ ROM_NO' = NoRom /\ LastDiscrepancy' = 0 /\ LastDeviceFlag' = FALSE
      /\ found' = {} /\ target' = NoRom /\ steady' = ~shorted
      /\ UNCHANGED <<attached, shorted, listening, last_zero, bit, wire, temp, raw>>
  BY DEF ResetSearch, Anew
<1>2. NoRom \in [1 .. RomBits -> {0, 1}]
  BY DEF NoRom
<1>3. WireTypes'
  BY <1>1, <1>2 DEF WireInv, WireTypes
<1> QED
  BY <1>1, <1>3 DEF WireInv, TempInv, RestInv, SearchInv, TargetInv, NoRom

LEMMA TargetSearchOK == ASSUME WireInv, NEW r \in Roms, TargetSearch(Family(r)) PROVE WireInv'
<1> DEFINE t == [b \in 1 .. RomBits |-> IF b <= FamilyBits THEN Family(r)[b] ELSE 0]
<1>1. /\ wire = "rest" /\ ROM_NO' = t /\ LastDiscrepancy' = RomBits /\ LastDeviceFlag' = FALSE
      /\ found' = {} /\ target' = t /\ steady' = ~shorted
      /\ UNCHANGED <<attached, shorted, listening, last_zero, bit, wire, temp, raw>>
  BY DEF TargetSearch, Anew
<1>2. /\ r \in [1 .. RomBits -> {0, 1}] /\ RomBits \in Nat
      /\ FamilyBits \in Nat /\ FamilyBits < RomBits /\ Family(r) # Family(NoRom)
  BY RomFacts
<1>3. NoRom \in [1 .. RomBits -> {0, 1}]
  BY DEF NoRom
<1>4. Family(r) = [k \in 1 .. FamilyBits |-> r[k]]
  BY <1>2, FamilySame
<1>5. t \in [1 .. RomBits -> {0, 1}] /\ Agree(t, r, FamilyBits)
  <2>1. \A b \in 1 .. FamilyBits : b \in 1 .. RomBits /\ Family(r)[b] = r[b]
    BY <1>2, <1>4
  <2>2. \A b \in 1 .. RomBits : b <= FamilyBits => b \in 1 .. FamilyBits
    BY <1>2
  <2>3. t \in [1 .. RomBits -> {0, 1}]
    BY <1>2, <2>1, <2>2
  <2> QED
    BY <1>2, <2>1, <2>3 DEF Agree
<1> HIDE DEF t
<1>6. t # NoRom
  BY <1>2, <1>3, <1>5, FamilySame
<1>7. WireTypes'
  BY <1>1, <1>5 DEF WireInv, WireTypes
<1>8. Agree(ROM_NO', target', FamilyBits)
  BY <1>1 DEF Agree
<1> QED
  BY <1>1, <1>6, <1>7, <1>8 DEF WireInv, TempInv, RestInv, SearchInv, TargetInv, Agree

LEMMA SearchBeginsOK == WireInv /\ SearchBegins => WireInv'
<1> SUFFICES ASSUME WireInv, SearchBegins PROVE WireInv'
  OBVIOUS
<1>1. /\ wire = "rest" /\ UNCHANGED <<attached, shorted, temp, raw, target, steady>>
      /\ \/ (LastDeviceFlag \/ ~Presence) /\ NotFound
         \/ /\ ~LastDeviceFlag /\ Presence
            /\ wire' = "search" /\ listening' = attached
            /\ UNCHANGED <<ROM_NO, LastDiscrepancy, LastDeviceFlag, last_zero, bit, found>>
  BY DEF SearchBegins, searchState
<1>2. WireTypes /\ bit = 1 /\ last_zero = 0 /\ (steady => ~shorted)
  BY <1>1 DEF WireInv, WireTypes
<1>3. CASE (LastDeviceFlag \/ ~Presence) /\ NotFound
  <2>1. /\ ROM_NO' = ROM_NO /\ LastDiscrepancy' = 0 /\ LastDeviceFlag' = FALSE
        /\ wire' = "notFound" /\ listening' = {}
        /\ bit' = 1 /\ last_zero' = 0 /\ UNCHANGED found
    BY <1>3 DEF NotFound
  <2>2. WireTypes'
    BY <1>1, <1>2, <2>1 DEF WireTypes
  <2>3. steady /\ target = NoRom => found = attached
    <3>1. SUFFICES ASSUME steady, target = NoRom PROVE found = attached
      OBVIOUS
    <3>2. found \subseteq attached
      BY <3>1 DEF WireInv, TargetInv
    <3>3. CASE ~Presence
      BY <1>2, <3>1, <3>2, <3>3 DEF Presence
    <3>4. CASE LastDeviceFlag
      <4>1. LastDiscrepancy = 0 /\ Walked
        BY <1>1, <3>1, <3>4 DEF WireInv, RestInv
      <4>2. ASSUME NEW r \in attached PROVE r \in found
        <5>1. SUFFICES ASSUME r # ROM_NO PROVE Passed(r, ROM_NO, RomBits)
          BY <4>1 DEF Walked
        <5>2. r \in [1 .. RomBits -> {0, 1}] /\ ROM_NO \in [1 .. RomBits -> {0, 1}] /\ RomBits \in Nat
          BY <1>2, RomFacts DEF WireTypes
        <5>3. PICK m \in 1 .. RomBits : r[m] # ROM_NO[m] /\ Agree(r, ROM_NO, m - 1)
          BY <5>1, <5>2, FirstDifference
        <5>4. ~(ROM_NO[m] = 0 /\ Branches(ROM_NO, m))
          BY <4>1, <5>2, <5>3 DEF Walked, LastTurn
        <5>5. ROM_NO[m] \in {0, 1} /\ r[m] \in {0, 1}
          BY <5>2
        <5> QED
          BY <5>3, <5>4, <5>5 DEF Branches, Passed
      <4> QED
        BY <3>2, <4>2
    <3> QED
      BY <1>3, <3>3, <3>4
  <2>4. TargetInv'
    BY <1>1, <2>1, <2>3 DEF WireInv, TargetInv, There
  <2> QED
    BY <2>1, <2>2, <2>4 DEF WireInv, TempInv, RestInv, SearchInv
<1>4. CASE /\ ~LastDeviceFlag /\ Presence
           /\ wire' = "search" /\ listening' = attached
           /\ UNCHANGED <<ROM_NO, LastDiscrepancy, LastDeviceFlag, last_zero, bit, found>>
  <2>1. attached # {} /\ ~shorted /\ Roms # {} /\ RomBits \in Nat \ {0}
    <3>1. attached # {} /\ ~shorted
      BY <1>4 DEF Presence
    <3>2. PICK r \in Roms : TRUE
      BY <1>2, <3>1 DEF WireTypes
    <3> QED
      BY <3>1, <3>2, RomFacts
  <2>2. WireTypes'
    BY <1>1, <1>2, <1>4, <2>1 DEF WireTypes
  <2>3. TargetInv'
    BY <1>1, <1>4 DEF WireInv, TargetInv, There, Agree
  <2>4. SearchInv'
    <3>1. SUFFICES ASSUME steady
                   PROVE  /\ attached = {r \in attached : Agree(r, ROM_NO, 0)}
                          /\ LastTurn(ROM_NO, 0, 0)
                          /\ target = NoRom =>
                               /\ LastDiscrepancy \in 0 .. RomBits
                               /\ 1 <= LastDiscrepancy => Walked
                               /\ 1 > LastDiscrepancy => found = {r \in attached : Passed(r, ROM_NO, 0)}
      <4>1. UNCHANGED <<attached, ROM_NO, LastDiscrepancy, target, found, steady>>
        BY <1>1, <1>4
      <4>2. /\ Walked => Walked'
            /\ \A r, n : (Passed(r, ROM_NO, n) => Passed(r, ROM_NO, n)') /\ (Passed(r, ROM_NO, n)' => Passed(r, ROM_NO, n))
            /\ LastTurn(ROM_NO, 0, 0) => LastTurn(ROM_NO, 0, 0)'
        BY <4>1 DEF Walked, Passed, LastTurn, Branches, Agree
      <4>3. bit' = 1 /\ bit' - 1 = 0 /\ last_zero' = 0
        BY <1>2, <1>4
      <4> QED
        BY <1>4, <2>1, <3>1, <4>1, <4>2, <4>3 DEF SearchInv, Passed, LastTurn, Branches, Agree
    <3>2. \A r : Agree(r, ROM_NO, 0)
      BY DEF Agree
    <3>3. LastTurn(ROM_NO, 0, 0)
      BY DEF LastTurn
    <3>4. \A r : ~Passed(r, ROM_NO, 0)
      BY DEF Passed
    <3>5. ASSUME target = NoRom
          PROVE  /\ LastDiscrepancy \in 0 .. RomBits
                 /\ 1 <= LastDiscrepancy => Walked
                 /\ 1 > LastDiscrepancy => found = {}
      <4>1. CASE found = {}
        <5>1. LastDiscrepancy = 0
          BY <1>1, <3>1, <3>5, <4>1 DEF WireInv, RestInv
        <5> QED
          BY <2>1, <4>1, <5>1
      <4>2. CASE found # {}
        <5>1. Walked /\ LastDiscrepancy # 0
          BY <1>1, <1>4, <3>1, <3>5, <4>2 DEF WireInv, RestInv
        <5>2. LastDiscrepancy \in 0 .. RomBits
          BY <5>1 DEF Walked, LastTurn
        <5> QED
          BY <2>1, <5>1, <5>2
      <4> QED
        BY <4>1, <4>2
    <3> QED
      BY <3>2, <3>3, <3>4, <3>5
  <2> QED
    BY <1>4, <2>2, <2>3, <2>4 DEF WireInv, TempInv, RestInv
<1> QED
  BY <1>1, <1>3, <1>4

\* What is about the search does not change while a temperature is read.
LEMMA SearchStays ==
    ASSUME WireInv, UNCHANGED <<attached, ROM_NO, LastDiscrepancy, LastDeviceFlag, found, target, steady>>,
           wire \notin {"search", "notFound"}, wire' \notin {"search", "notFound"}
    PROVE  RestInv' /\ SearchInv' /\ TargetInv'
BY DEF WireInv, RestInv, SearchInv, TargetInv, There, Walked, Passed, LastTurn, Branches, Agree

LEMMA SearchReturnsOK == WireInv /\ SearchReturns => WireInv'
<1> SUFFICES ASSUME WireInv, SearchReturns PROVE WireInv'
  OBVIOUS
<1>1. /\ wire \in {"found", "notFound"} /\ wire' = "rest"
      /\ UNCHANGED <<attached, shorted, listening, ROM_NO, LastDiscrepancy, LastDeviceFlag,
                     last_zero, bit, temp, raw>>
  BY DEF SearchReturns, searchState
<1>2. CASE wire = "found"
  <2>1. UNCHANGED <<found, target, steady>>
    BY <1>2 DEF SearchReturns
  <2>2. WireTypes'
    BY <1>1, <1>2, <2>1 DEF WireInv, WireTypes
  <2> QED
    BY <1>1, <1>2, <2>1, <2>2, SearchStays DEF WireInv, TempInv
<1>3. CASE wire = "notFound"
  <2>1. found' = {} /\ target' = NoRom /\ steady' = ~shorted
    BY <1>3 DEF SearchReturns
  <2>2. NoRom \in [1 .. RomBits -> {0, 1}]
    BY DEF NoRom
  <2>3. WireTypes' /\ LastDiscrepancy' = 0 /\ ~LastDeviceFlag'
    BY <1>1, <1>3, <2>1, <2>2 DEF WireInv, WireTypes
  <2>4. target' = NoRom'
    BY <2>1 DEF NoRom
  <2> QED
    BY <1>1, <2>1, <2>3, <2>4 DEF WireInv, TempInv, RestInv, SearchInv, TargetInv
<1> QED
  BY <1>1, <1>2, <1>3

LEMMA ReadsOK == WireInv /\ (Convert \/ AskScratchpad \/ Shown) => WireInv'
<1> SUFFICES ASSUME WireInv, Convert \/ AskScratchpad \/ Shown PROVE WireInv'
  OBVIOUS
<1>1. /\ UNCHANGED <<attached, shorted, ROM_NO, LastDiscrepancy, LastDeviceFlag, last_zero,
                     found, target, steady, bit, temp>>
      /\ \/ wire = "rest" /\ wire' = "converting" /\ raw' = raw
            /\ listening' = (IF Presence THEN attached ELSE {})
         \/ wire = "converting" /\ wire' = "scratchpad" /\ raw' = 0
            /\ listening' = (IF Presence THEN attached ELSE {})
         \/ wire = "shown" /\ wire' = "rest" /\ raw' = 0 /\ listening' = {}
  BY DEF Convert, AskScratchpad, Shown, Silent, searchState
<1>2. wire \notin {"search", "notFound"} /\ wire' \notin {"search", "notFound"} /\ bit = 1
  BY <1>1 DEF WireInv, WireTypes
<1>3. listening' \subseteq attached /\ (shorted => listening' = {})
  BY <1>1 DEF WireInv, WireTypes, Presence, Heard
<1>4. WireTypes'
  <2>1. 1 \in 1 .. TempBits
    BY OneWireAssumption
  <2> QED
    BY <1>1, <1>2, <1>3, <2>1 DEF WireInv, WireTypes
<1>5. TempInv'
  <2>1. SUFFICES ASSUME wire' = "scratchpad" PROVE raw' = temp' % 2 ^ (bit' - 1)
    BY <1>1 DEF TempInv
  <2>2. raw' = 0 /\ bit' - 1 = 0 /\ temp' = temp
    BY <1>1, <1>2, <2>1
  <2>3. 2 ^ 0 = 1
    OBVIOUS
  <2>4. temp \in Nat
    BY OneWireAssumption, OneWirePowers DEF WireInv, WireTypes
  <2>5. temp % 1 = 0
    BY <2>4
  <2> QED
    BY <2>2, <2>3, <2>5
<1> QED
  BY <1>1, <1>2, <1>4, <1>5, SearchStays DEF WireInv

\* One bit of a number more.
LEMMA BitMore ==
    ASSUME NEW t \in Nat, NEW p \in Nat \ {0}
    PROVE  t % (2 * p) = (t % p) + ((t \div p) % 2) * p
<1>1. PICK q, s : q = t \div p /\ s = t % p
  OBVIOUS
<1>2. q \in Int /\ s \in 0 .. p - 1 /\ t = p * q + s
  BY <1>1, DivMod
<1>3. PICK h, o : h = q \div 2 /\ o = q % 2
  OBVIOUS
<1>4. h \in Int /\ o \in 0 .. 1 /\ q = 2 * h + o
  BY <1>2, <1>3
<1>5. t = (2 * p) * h + (s + o * p)
  BY <1>2, <1>4
<1>6. s + o * p \in 0 .. 2 * p - 1
  <2>1. CASE o = 0
    BY <1>2, <2>1
  <2>2. CASE o = 1
    BY <1>2, <2>2
  <2> QED
    BY <1>4, <2>1, <2>2
<1>7. PICK w, r : w = 2 * p /\ r = s + o * p
  OBVIOUS
<1>8. w \in Nat \ {0} /\ r \in 0 .. w - 1 /\ t = w * h + r
  BY <1>5, <1>6, <1>7
<1>9. t % w = r
  BY <1>4, <1>8, ModUnique
<1> QED
  BY <1>1, <1>3, <1>7, <1>9

LEMMA ReadScratchpadOK == WireInv /\ ReadScratchpad => WireInv'
<1> SUFFICES ASSUME WireInv, ReadScratchpad PROVE WireInv'
  OBVIOUS
<1> DEFINE pullers == {r \in Heard : (temp \div 2 ^ (bit - 1)) % 2 = 0}
<1>1. /\ wire = "scratchpad"
      /\ raw' = raw + ReadBit(pullers) * 2 ^ (bit - 1)
      /\ \/ bit < TempBits /\ bit' = bit + 1 /\ wire' = "scratchpad"
         \/ ~(bit < TempBits) /\ bit' = 1 /\ wire' = "shown"
      /\ UNCHANGED <<attached, shorted, listening, ROM_NO, LastDiscrepancy, LastDeviceFlag, last_zero,
                     found, target, steady, temp>>
  BY DEF ReadScratchpad, Silent, searchState
<1>2. /\ bit \in 1 .. TempBits /\ TempBits \in Nat /\ temp \in 0 .. 2 ^ TempBits - 1 /\ raw \in Int
  BY <1>1, OneWireAssumption DEF WireInv, WireTypes
<1>3. PICK p : p = 2 ^ (bit - 1)
  OBVIOUS
<1>4. p \in Nat \ {0} /\ 2 ^ bit = 2 * p
  <2>1. bit - 1 \in 0 .. TempBits /\ bit - 1 + 1 = bit
    BY <1>2
  <2> QED
    BY <1>3, <2>1, OneWirePowers
<1>5. temp \in Nat
  <2>1. TempBits \in 0 .. TempBits
    BY <1>2
  <2>2. 2 ^ TempBits \in Nat
    BY <2>1, OneWirePowers
  <2> QED
    BY <1>2, <2>2
<1>6. ReadBit(pullers) \in {0, 1}
  BY DEF ReadBit
<1>7. listening # {} => ReadBit(pullers) = (temp \div p) % 2
  <2>1. SUFFICES ASSUME listening # {} PROVE ReadBit(pullers) = (temp \div p) % 2
    OBVIOUS
  <2>2. Heard = listening /\ ~shorted
    BY <2>1 DEF WireInv, WireTypes, Heard
  <2>3. PICK o : o = (temp \div p) % 2
    OBVIOUS
  <2>4. o \in {0, 1}
    <3>1. temp \div p \in Int
      BY <1>4, <1>5, DivMod
    <3> QED
      BY <2>3, <3>1
  <2>5. /\ o = 0 => pullers # {}
        /\ o = 1 => pullers = {}
    BY <1>3, <2>1, <2>2, <2>3
  <2> HIDE DEF pullers
  <2> QED
    BY <2>2, <2>3, <2>4, <2>5 DEF ReadBit
<1> HIDE DEF pullers
<1>8. raw' \in Int /\ (listening # {} => raw' = temp % 2 ^ bit)
  <2>1. raw' = raw + ReadBit(pullers) * p
    BY <1>1, <1>3
  <2>2. raw' \in Int
    BY <1>2, <1>4, <1>6, <2>1
  <2>3. ASSUME listening # {} PROVE raw' = temp % 2 ^ bit
    <3>1. raw = temp % p
      BY <1>1, <1>3, <2>3 DEF WireInv, TempInv
    <3>2. temp % (2 * p) = (temp % p) + ((temp \div p) % 2) * p
      BY <1>4, <1>5, BitMore
    <3> QED
      BY <1>4, <1>7, <2>1, <2>3, <3>1, <3>2
  <2> QED
    BY <2>2, <2>3
<1>9. CASE bit < TempBits /\ bit' = bit + 1 /\ wire' = "scratchpad"
  <2>1. bit' \in 1 .. TempBits /\ bit' - 1 = bit
    BY <1>2, <1>9
  <2>2. WireTypes'
    BY <1>1, <1>8, <1>9, <2>1 DEF WireInv, WireTypes
  <2>3. TempInv'
    BY <1>1, <1>8, <1>9, <2>1 DEF TempInv
  <2> QED
    BY <1>1, <1>9, <2>2, <2>3, SearchStays DEF WireInv
<1>10. CASE ~(bit < TempBits) /\ bit' = 1 /\ wire' = "shown"
  <2>1. WireTypes'
    BY <1>1, <1>8, <1>10 DEF WireInv, WireTypes
  <2>2. temp % 2 ^ bit = temp
    <3>1. bit = TempBits
      BY <1>2, <1>10
    <3>2. PICK w : w = 2 ^ bit
      OBVIOUS
    <3>3. w \in Nat \ {0} /\ temp \in 0 .. w - 1 /\ 0 \in Int /\ w * 0 + temp = temp
      BY <1>2, <1>4, <1>5, <3>1, <3>2
    <3>4. (w * 0 + temp) % w = temp
      BY <3>3, ModUnique
    <3> QED
      BY <3>2, <3>3, <3>4
  <2>3. TempInv'
    BY <1>1, <1>8, <1>10, <2>2 DEF TempInv
  <2> QED
    BY <1>1, <1>10, <2>1, <2>3, SearchStays DEF WireInv
<1> QED
  BY <1>1, <1>9, <1>10

LEMMA WireNextOK == WireInv /\ [WireNext]_wireVars => WireInv'
<1> SUFFICES ASSUME WireInv, [WireNext]_wireVars PROVE WireInv'
  OBVIOUS
<1>1. CASE UNCHANGED wireVars
  <2>1. UNCHANGED <<attached, shorted, listening, ROM_NO, LastDiscrepancy, LastDeviceFlag, last_zero,
                    bit, wire, temp, raw, found, target, steady>>
    BY <1>1 DEF wireVars, searchState
  <2>2. WireTypes' /\ TempInv'
    BY <2>1 DEF WireInv, WireTypes, TempInv
  <2> QED
    BY <2>1, <2>2 DEF WireInv, RestInv, SearchInv, TargetInv, There, Walked, Passed, LastTurn, Branches, Agree
<1> QED
  BY <1>1, ComeOrGoOK, ResetSearchOK, TargetSearchOK, SearchBeginsOK, SearchBitOK, SearchReturnsOK,
     ReadsOK, ReadScratchpadOK DEF WireNext

LEMMA WireInitOK == Init => WireInv
<1> SUFFICES ASSUME WireInit PROVE WireInv
  BY DEF Init
<1>1. NoRom \in [1 .. RomBits -> {0, 1}]
  BY DEF NoRom
<1>2. WireTypes
  <2>1. shorted \in BOOLEAN
    BY Zenon DEF WireInit
  <2> QED
    BY <1>1, <2>1 DEF WireInit, WireTypes
<1> QED
  BY <1>2 DEF WireInit, WireInv, TempInv, RestInv, SearchInv, TargetInv

LEMMA WireInvMeans == WireInv => TemperatureRight /\ Enumerated
<1> SUFFICES ASSUME WireInv PROVE TemperatureRight /\ Enumerated
  OBVIOUS
<1>1. TemperatureRight
  BY DEF WireInv, TempInv, TemperatureRight
<1>2. Enumerated
  BY DEF WireInv, TargetInv, There, Enumerated
<1> QED
  BY <1>1, <1>2

-----------------------------------------------------------------------------
\* From the readings to the texts

ReadingsTypes ==
    /\ kind \in {"pH", "EC", "plain"}
    /\ step \in [at : {"none", "first", "second", "third", "fourth"}, low : Int, high : Int,
                 lowValue : 0 .. LongWrap - 1]
    /\ points \in [low : Int, high : Int, lowValue : 0 .. LongWrap - 1, highValue : 0 .. LongWrap - 1]
    /\ constants \in [num : Int, den : Nat, off : Int]
    /\ light \in [told : BOOLEAN, result : 0 .. Word - 1]
    /\ shown # Nothing => step.at = "none"

\* The constants are those of the line through the points.
LineInv ==
    points.low < points.high =>
      constants = Line(points.low, points.high, points.lowValue, points.highValue)

ReadingsInv == ReadingsTypes /\ LineInv /\ ReadingsTrue

LEMMA NothingTrue ==
    /\ shown = Nothing => ReadingsTrue
    /\ shown' = Nothing => ReadingsTrue'
BY DEF Nothing, ReadingsTrue, OnTheLine, Decoded, Fits, Frost, Glare

\* The fields of the records.
LEMMA ReadingsFields ==
    ASSUME ReadingsTypes
    PROVE  /\ LongWrap \in Nat \ {0}
           /\ points.low \in Int /\ points.high \in Int
           /\ points.lowValue \in 0 .. LongWrap - 1 /\ points.highValue \in 0 .. LongWrap - 1
           /\ constants.num \in Int /\ constants.den \in Nat /\ constants.off \in Int
           /\ step.low \in Int /\ step.high \in Int /\ step.lowValue \in 0 .. LongWrap - 1
           /\ light.told \in BOOLEAN /\ light.result \in 0 .. Word - 1
<1> DEFINE V == 0 .. LongWrap - 1
           W == 0 .. Word - 1
<1>1. LongWrap \in Nat \ {0}
  BY ReadingsAssumption
<1>2. /\ step \in [at : {"none", "first", "second", "third", "fourth"}, low : Int, high : Int, lowValue : V]
      /\ points \in [low : Int, high : Int, lowValue : V, highValue : V]
      /\ constants \in [num : Int, den : Nat, off : Int]
      /\ light \in [told : BOOLEAN, result : W]
  BY DEF ReadingsTypes
<1> HIDE DEF V, W
<1>3. points.low \in Int /\ points.high \in Int /\ points.lowValue \in V /\ points.highValue \in V
  BY <1>2
<1>4. constants.num \in Int /\ constants.den \in Nat /\ constants.off \in Int
  BY <1>2
<1>5. step.low \in Int /\ step.high \in Int /\ step.lowValue \in V
  BY <1>2
<1>6. light.told \in BOOLEAN /\ light.result \in W
  BY <1>2
<1> QED
  BY <1>1, <1>3, <1>4, <1>5, <1>6 DEF V, W

\* A reading does not change what it is made from.
LEMMA TypesStay ==
    ASSUME ReadingsTypes, LineInv, UNCHANGED <<kind, step, constants, points>>, step.at = "none"
    PROVE  LineInv' /\ (light' \in [told : BOOLEAN, result : 0 .. Word - 1] => ReadingsTypes')
<1>1. LineInv'
  BY DEF LineInv
<1>2. ReadingsTypes /\ light' \in [told : BOOLEAN, result : 0 .. Word - 1] => ReadingsTypes'
  BY Zenon DEF ReadingsTypes
<1> QED
  BY <1>1, <1>2

\* The line: how far a value lies from the standards.
LEMMA LinePoints ==
    ASSUME NEW low \in Int, NEW high \in Int, NEW lv \in 0 .. LongWrap - 1, NEW hv \in 0 .. LongWrap - 1,
           NEW x \in Int, low < high, lv < hv, NEW v1 \in Int, NEW v2 \in Int,
           v1 = x * Line(low, high, lv, hv).num + 2 * Line(low, high, lv, hv).off,
           v2 = 2 * Line(low, high, lv, hv).den
    PROVE  /\ v2 > 0
           /\ 2 * lv <= x => low * v2 <= v1
           /\ x <= 2 * hv => v1 <= high * v2
           /\ x = 2 * lv => v1 = low * v2
           /\ x = 2 * hv => v1 = high * v2
<1>1. LongWrap \in Nat \ {0} /\ lv \in Nat /\ hv \in Nat
  BY ReadingsAssumption
<1>2. PICK d, n : d = hv - lv /\ n = high - low
  OBVIOUS
<1>3. d \in 0 .. LongWrap - 1 /\ d > 0 /\ n \in Int /\ n > 0 /\ d \in Int
  BY <1>1, <1>2
<1>4. d % LongWrap = d
  <2>1. LongWrap * 0 + d = d /\ 0 \in Int
    BY <1>1, <1>3
  <2>2. (LongWrap * 0 + d) % LongWrap = d
    BY <1>1, <1>3, <2>1, ModUnique
  <2> QED
    BY <2>1, <2>2
<1>5. Line(low, high, lv, hv) = [num |-> n, den |-> d, off |-> high * d - hv * n]
  BY <1>2, <1>4 DEF Line
<1>6. v1 = x * n + 2 * (high * d - hv * n) /\ v2 = 2 * d
  BY <1>5
<1>7. v1 - low * v2 = n * (x - 2 * lv)
  <2>1. low = high - n /\ hv = lv + d
    BY <1>1, <1>2
  <2> QED
    BY <1>1, <1>3, <1>6, <2>1
<1>8. v1 - high * v2 = n * (x - 2 * hv)
  BY <1>1, <1>3, <1>6
<1>9. v1 \in Int /\ v2 \in Int /\ v2 > 0 /\ low * v2 \in Int /\ high * v2 \in Int
  BY <1>1, <1>3, <1>6
<1>10. 2 * lv <= x => low * v2 <= v1
  <2>1. 2 * lv <= x => n * (x - 2 * lv) >= 0
    BY <1>1, <1>3
  <2> QED
    BY <1>7, <1>9, <2>1
<1>11. x <= 2 * hv => v1 <= high * v2
  <2>1. x <= 2 * hv => n * (x - 2 * hv) <= 0
    BY <1>1, <1>3
  <2> QED
    BY <1>8, <1>9, <2>1
<1>12. x = 2 * lv => v1 = low * v2
  <2>1. x = 2 * lv => n * (x - 2 * lv) = 0
    BY <1>1, <1>3
  <2> QED
    BY <1>7, <1>9, <2>1
<1>13. x = 2 * hv => v1 = high * v2
  <2>1. x = 2 * hv => n * (x - 2 * hv) = 0
    BY <1>1, <1>3
  <2> QED
    BY <1>8, <1>9, <2>1
<1> QED
  BY <1>9, <1>10, <1>11, <1>12, <1>13

\* How long a number is.
LEMMA SmallDigits ==
    ASSUME NEW n \in Int
    PROVE  /\ Digits(n) \in 1 .. 5
           /\ n < 10 => Digits(n) = 1
           /\ n < 100 => Digits(n) <= 2
           /\ n < 1000 => Digits(n) <= 3
           /\ n < 10000 => Digits(n) <= 4
BY DEF Digits

LEMMA ProbeCounts == ASSUME NEW x \in Probe PROVE x \in Nat
<1>1. Probe \subseteq 0 .. LongWrap - 1 /\ LongWrap \in Nat
  BY Zenon, ReadingsAssumption
<1> QED
  BY <1>1

LEMMA ReadProbeOK == ASSUME ReadingsInv, NEW x \in Probe, ReadProbe(x) PROVE ReadingsInv'
<1> DEFINE X == IF kind = "EC" THEN 2 * (x \div 2) ELSE x
           v == IF kind = "EC" /\ x \div 2 = 0 THEN <<0, 1>> ELSE Value(X)
           chars == IF v[2] = 0 \/ OutOf(v) THEN 6 ELSE 3 + Tenths(v[1] \div v[2])
<1>1. /\ step.at = "none" /\ UNCHANGED <<kind, step, constants, points, light>>
      /\ kind # "plain" /\ shown' = [of |-> kind, says |-> v, chars |-> chars, true |-> x]
  BY DEF ReadProbe, Show, Text
<1>2. ReadingsTypes /\ LineInv
  BY DEF ReadingsInv
<1>3. ReadingsTypes' /\ LineInv'
  <2>1. light' \in [told : BOOLEAN, result : 0 .. Word - 1]
    BY <1>1, <1>2, Zenon DEF ReadingsTypes
  <2> QED
    BY <1>1, <1>2, <2>1, TypesStay
<1>4. x \in Nat /\ X \in Nat /\ kind \in {"pH", "EC"} /\ (kind = "EC" => X = 2 * (x \div 2))
      /\ (kind = "pH" => X = x)
  <2>1. kind \in {"pH", "EC"}
    BY <1>1, <1>2, Zenon DEF ReadingsTypes
  <2>2. x \in Nat
    BY ProbeCounts
  <2> QED
    BY <2>1, <2>2
<1>5. constants.num \in Int /\ constants.den \in Nat /\ constants.off \in Int
  BY <1>2, ReadingsFields
<1>6. PICK v1, v2 : v1 = X * constants.num + 2 * constants.off /\ v2 = 2 * constants.den
  OBVIOUS
<1>7. Value(X) = <<v1, v2>> /\ v1 \in Int /\ v2 \in Nat
  <2> HIDE DEF X
  <2> QED
    BY <1>4, <1>5, <1>6 DEF Value
<1>8. OnTheLine'
  <2>1. SUFFICES ASSUME points.lowValue < points.highValue, points.low < points.high,
                        kind = "EC" => x >= 2
                 PROVE  /\ x \in 2 * points.lowValue .. 2 * points.highValue =>
                             v[2] > 0 /\ points.low * v[2] <= v[1] /\ v[1] <= points.high * v[2]
                        /\ x = 2 * points.lowValue => v[1] = points.low * v[2]
                        /\ x = 2 * points.highValue => v[1] = points.high * v[2]
    BY <1>1 DEF OnTheLine
  <2>2. v = <<v1, v2>>
    <3>1. ~(kind = "EC" /\ x \div 2 = 0)
      BY <1>4, <2>1
    <3> QED
      BY <1>7, <3>1
  <2>3. PICK low, high, lv, hv : low = points.low /\ high = points.high /\ lv = points.lowValue
                                 /\ hv = points.highValue
    OBVIOUS
  <2>4. low \in Int /\ high \in Int /\ lv \in 0 .. LongWrap - 1 /\ hv \in 0 .. LongWrap - 1
    BY <1>2, <2>3, ReadingsFields
  <2>5. constants = Line(low, high, lv, hv) /\ low < high /\ lv < hv
    BY <1>2, <2>1, <2>3 DEF LineInv
  <2> HIDE DEF X, v, chars
  <2>6. /\ v2 > 0
        /\ 2 * lv <= X => low * v2 <= v1
        /\ X <= 2 * hv => v1 <= high * v2
        /\ X = 2 * lv => v1 = low * v2
        /\ X = 2 * hv => v1 = high * v2
    <3>1. PICK y : y = X
      OBVIOUS
    <3>2. y \in Int /\ v1 = y * constants.num + 2 * constants.off /\ v2 = 2 * constants.den
      BY <1>4, <1>6, <3>1
    <3>3. /\ v2 > 0
          /\ 2 * lv <= y => low * v2 <= v1
          /\ y <= 2 * hv => v1 <= high * v2
          /\ y = 2 * lv => v1 = low * v2
          /\ y = 2 * hv => v1 = high * v2
      <4>1. /\ v1 = y * Line(low, high, lv, hv).num + 2 * Line(low, high, lv, hv).off
            /\ v2 = 2 * Line(low, high, lv, hv).den
            /\ v1 \in Int /\ v2 \in Int
        BY <1>7, <2>5, <3>2
      <4> QED
        BY SMTT(30), <2>4, <2>5, <3>2, <4>1, LinePoints
    <3> QED
      BY <3>1, <3>3
  <2>7. lv \in Nat /\ hv \in Nat
    BY <2>4, ReadingsAssumption
  <2>8. /\ 2 * lv <= x => 2 * lv <= X
        /\ x <= 2 * hv => X <= 2 * hv
        /\ x = 2 * lv => X = 2 * lv
        /\ x = 2 * hv => X = 2 * hv
    BY <1>4, <2>7
  <2>9. v[1] = v1 /\ v[2] = v2
    BY <2>2
  <2>10. x \in 2 * lv .. 2 * hv => 2 * lv <= x /\ x <= 2 * hv
    BY <1>4, <2>7
  <2> QED
    BY <2>3, <2>6, <2>8, <2>9, <2>10
<1>9. Decoded'
  BY <1>1, <1>4 DEF Decoded
<1>10. chars < 9
  <2>1. v[1] \in Int /\ v[2] \in Nat
    BY <1>7
  <2>2. PICK a, b : a = v[1] /\ b = v[2]
    OBVIOUS
  <2>3. a \in Int /\ b \in Nat
    BY <2>1, <2>2
  <2> HIDE DEF v
  <2>4. SUFFICES ASSUME ~(b = 0 \/ OutOf(v)) PROVE 3 + Tenths(a \div b) < 9
    BY <2>2
  <2>5. b > 0 /\ a >= 0 /\ a <= 200 * b
    <3>1. a <= Limit * b /\ a >= 0 /\ b > 0
      BY <2>2, <2>3, <2>4 DEF OutOf, Limit
    <3>2. CASE Limit = 140
      BY <2>3, <3>1, <3>2
    <3>3. CASE Limit = 200
      BY <2>3, <3>1, <3>3
    <3> QED
      BY <3>2, <3>3 DEF Limit
  <2>6. PICK q, r : q = a \div b /\ r = a % b
    OBVIOUS
  <2>7. q \in Int /\ r \in 0 .. b - 1 /\ a = b * q + r
    BY <2>3, <2>5, <2>6, DivMod
  <2>8. q >= 0
    <3>1. SUFFICES ASSUME q <= -1 PROVE FALSE
      BY <2>7
    <3>2. b * q <= -b
      BY <2>3, <2>7, <3>1
    <3> QED
      BY <2>3, <2>5, <2>7, <3>2
  <2>9. q <= 200
    <3>1. SUFFICES ASSUME q >= 201 PROVE FALSE
      BY <2>7
    <3>2. b * q >= 201 * b
      BY <2>3, <2>7, <3>1
    <3> QED
      BY <2>3, <2>5, <2>7, <3>2
  <2>10. Tenths(q) <= 4
    <3>1. Magnitude(q) = q /\ Sign(q) = 0
      BY <2>7, <2>8 DEF Magnitude, Sign
    <3>2. q \div 10 \in Int /\ q \div 10 < 100
      BY <2>7, <2>8, <2>9
    <3>3. PICK m : m = q \div 10
      OBVIOUS
    <3>4. Digits(m) <= 2 /\ Digits(m) \in Int
      BY <3>2, <3>3, SmallDigits
    <3> QED
      BY <3>1, <3>3, <3>4 DEF Tenths
  <2>11. Tenths(q) \in Int
    <3>1. q \div 10 \in Int /\ Magnitude(q) = q /\ Sign(q) = 0
      BY <2>7, <2>8 DEF Magnitude, Sign
    <3>2. PICK m : m = q \div 10
      OBVIOUS
    <3>3. Digits(m) \in Int
      BY <3>1, <3>2, SmallDigits
    <3> QED
      BY <3>1, <3>2, <3>3 DEF Tenths
  <2> QED
    BY <2>6, <2>10, <2>11
<1>11. Fits'
  <2> HIDE DEF v, X
  <2>2. shown'.chars = chars /\ shown'.of = kind
    BY <1>1
  <2> HIDE DEF chars
  <2>3. ~(Frost') /\ ~(Glare')
    BY <1>4, <2>2 DEF Frost, Glare
  <2> QED
    BY <1>10, <2>2, <2>3 DEF Fits
<1> QED
  BY <1>3, <1>8, <1>9, <1>11 DEF ReadingsInv, ReadingsTrue

\* The length of what a DHT is shown with.
LEMMA DhtChars ==
    ASSUME NEW t \in Int, NEW h \in Int, -400 <= t, t <= 800, 0 <= h, h <= 1000
    PROVE  Tenths(t) + 1 + Whole((h + 5) \div 10) < IF t <= -100 /\ h >= 995 THEN 11 ELSE 9
<1>1. PICK m, s : m = Magnitude(t) /\ s = Sign(t)
  OBVIOUS
<1>2. /\ m \in 0 .. 800 /\ s \in 0 .. 1
      /\ s = 1 => m = -t
      /\ s = 0 => t >= 0
  BY <1>1 DEF Magnitude, Sign
<1>3. PICK a, b : a = m \div 10 /\ b = (h + 5) \div 10
  OBVIOUS
<1>4. a \in 0 .. 80 /\ b \in 0 .. 100 /\ (m < 100 => a < 10) /\ (h < 995 => b < 100)
  BY <1>2, <1>3
<1>5. PICK da, db : da = Digits(a) /\ db = Digits(b)
  OBVIOUS
<1>6. /\ da \in Int /\ da <= 2
      /\ db \in Int /\ db <= 3
      /\ m < 100 => da <= 1
      /\ h < 995 => db <= 2
  BY <1>4, <1>5, SmallDigits
<1>7. Tenths(t) = s + da + 2
  BY <1>1, <1>3, <1>5 DEF Tenths
<1>8. Whole(b) = db
  <2>1. Magnitude(b) = b /\ Sign(b) = 0
    BY <1>4 DEF Magnitude, Sign
  <2> QED
    BY <1>5, <1>6, <2>1 DEF Whole
<1>9. Tenths(t) + 1 + Whole(b) = s + da + db + 3
  BY <1>2, <1>6, <1>7, <1>8
<1>10. s + da + db + 3 < IF t <= -100 /\ h >= 995 THEN 11 ELSE 9
  BY <1>2, <1>6
<1> QED
  BY <1>3, <1>9, <1>10

\* The temperature and the humidity come back from the bytes.
LEMMA DHT22Back ==
    ASSUME NEW t \in Int, NEW h \in Int, -400 <= t, t <= 800, 0 <= h, h <= 1000
    PROVE  readTemperature("DHT22", DHT22(t, h)) = t /\ readHumidity("DHT22", DHT22(t, h)) = h
<1>1. PICK m, s : m = Magnitude(t) /\ s = Sign(t)
  OBVIOUS
<1>2. /\ m \in 0 .. 800 /\ s \in 0 .. 1
      /\ s = 1 => m = -t
      /\ s = 0 => m = t
  BY <1>1 DEF Magnitude, Sign
<1>3. PICK a, b, c, d : a = m \div 256 /\ b = m % 256 /\ c = h \div 256 /\ d = h % 256
  OBVIOUS
<1>4. a \in 0 .. 3 /\ b \in 0 .. 255 /\ m = a * 256 + b /\ c \in Int /\ d \in 0 .. 255 /\ h = c * 256 + d
  BY <1>2, <1>3
<1>5. PICK e : e = a + 128 * s
  OBVIOUS
<1>6. e \in Int /\ e % 128 = a /\ (s = 1 => e >= 128) /\ (s = 0 => e < 128)
  BY <1>2, <1>4, <1>5
<1>7. DHT22(t, h) = <<c, d, e, b>>
  BY <1>1, <1>3, <1>5 DEF DHT22
<1>8. readHumidity("DHT22", <<c, d, e, b>>) = h
  BY <1>4 DEF readHumidity
<1>9. readTemperature("DHT22", <<c, d, e, b>>) = t
  <2>1. readTemperature("DHT22", <<c, d, e, b>>) = ((e % 128) * 256 + b) * (IF e >= 128 THEN -1 ELSE 1)
    BY DEF readTemperature
  <2>2. (e % 128) * 256 + b = m
    BY <1>4, <1>6
  <2> QED
    BY <1>2, <1>6, <2>1, <2>2
<1> QED
  BY <1>7, <1>8, <1>9

\* A reading of a sensor without a probe is about no line.
LEMMA PlainStays ==
    ASSUME ReadingsInv, Plain, light' \in [told : BOOLEAN, result : 0 .. Word - 1],
           shown'.of \notin {"pH", "EC"}, Decoded', Fits'
    PROVE  ReadingsInv'
<1>1. ReadingsTypes /\ LineInv /\ UNCHANGED <<kind, step, constants, points>> /\ step.at = "none"
  BY DEF ReadingsInv, Plain, Show
<1>2. ReadingsTypes' /\ LineInv'
  BY <1>1, TypesStay
<1>3. OnTheLine'
  BY DEF OnTheLine
<1> QED
  BY <1>2, <1>3 DEF ReadingsInv, ReadingsTrue

LEMMA ReadDHTOK ==
    ASSUME ReadingsInv, NEW t \in Celsius, NEW h \in Humidity, NEW type \in {"DHT11", "DHT22"},
           ReadDHT(type, t, h)
    PROVE  ReadingsInv'
<1>1. t \in Int /\ h \in Int /\ -400 <= t /\ t <= 800 /\ 0 <= h /\ h <= 1000
  <2>1. Celsius \subseteq -400 .. 800 /\ Humidity \subseteq 0 .. 1000
    BY Zenon, ReadingsAssumption
  <2> QED
    BY <2>1
<1> DEFINE five == IF type = "DHT22" THEN DHT22(t, h) ELSE <<h \div 10, 0, t \div 10, 0>>
           tenths == readTemperature(type, five)
           hum == readHumidity(type, five)
           true == IF type = "DHT22" THEN <<t, h>> ELSE <<10 * (t \div 10), 10 * (h \div 10)>>
<1>2. /\ Plain /\ (type = "DHT11" => t >= 0) /\ UNCHANGED light
      /\ shown' = [of |-> type, says |-> <<tenths, hum>>,
                   chars |-> Tenths(tenths) + 1 + Whole((hum + 5) \div 10), true |-> true]
  BY DEF ReadDHT, Text
<1>3. /\ <<tenths, hum>> = true /\ tenths \in Int /\ hum \in Int
      /\ -400 <= tenths /\ tenths <= 800 /\ 0 <= hum /\ hum <= 1000
      /\ type = "DHT11" => tenths >= 0
  <2>1. CASE type = "DHT22"
    <3>1. tenths = t /\ hum = h
      BY <1>1, <2>1, DHT22Back
    <3> QED
      BY <1>1, <2>1, <3>1
  <2>2. CASE type = "DHT11"
    <3>1. PICK a, b : a = t \div 10 /\ b = h \div 10
      OBVIOUS
    <3>2. a \in 0 .. 80 /\ b \in 0 .. 100
      BY <1>1, <1>2, <2>2, <3>1
    <3>3. tenths = 10 * a /\ hum = 10 * b /\ true = <<10 * a, 10 * b>>
      BY <2>2, <3>1 DEF readTemperature, readHumidity
    <3> QED
      BY <3>2, <3>3
  <2> QED
    BY <2>1, <2>2
<1> HIDE DEF five, tenths, hum, true
<1>4. light' \in [told : BOOLEAN, result : 0 .. Word - 1]
  BY <1>2 DEF ReadingsInv, ReadingsTypes
<1>5. Decoded'
  BY <1>2, <1>3 DEF Decoded
<1>6. Fits'
  <2>1. PICK n : n = Tenths(tenths) + 1 + Whole((hum + 5) \div 10)
    OBVIOUS
  <2>2. n < IF tenths <= -100 /\ hum >= 995 THEN 11 ELSE 9
    BY <1>3, <2>1, DhtChars
  <2>3. shown'.chars = n /\ shown'.of = type /\ shown'.says[1] = tenths /\ shown'.says[2] = hum
    BY <1>2, <2>1
  <2>4. ~Glare'
    BY <2>3 DEF Glare
  <2>5. tenths <= -100 /\ hum >= 995 => Frost'
    <3>1. tenths <= -100 => type = "DHT22"
      BY <1>3
    <3> QED
      BY <2>3, <3>1 DEF Frost
  <2>6. ~(tenths <= -100 /\ hum >= 995) => ~Frost'
    BY <2>3 DEF Frost
  <2> QED
    BY <2>2, <2>3, <2>4, <2>5, <2>6 DEF Fits
<1>7. shown'.of \notin {"pH", "EC"}
  BY <1>2
<1> QED
  BY <1>2, <1>4, <1>5, <1>6, <1>7, PlainStays

\* An int comes back from its two bytes.
LEMMA Int16Back ==
    ASSUME NEW u \in 0 .. Word - 1
    PROVE  Int16(u \div 256, u % 256) = (IF u >= 128 * 256 THEN u - Word ELSE u)
<1>1. PICK a, b : a = u \div 256 /\ b = u % 256
  OBVIOUS
<1>2. a \in Int /\ b \in Int /\ a * 256 + b = u
  BY <1>1 DEF Word
<1> QED
  BY <1>1, <1>2 DEF Int16

LEMMA WrapsOnce ==
    ASSUME NEW w \in Nat \ {0}, NEW a \in Int, -w <= a, a < w
    PROVE  a % w = (IF a < 0 THEN a + w ELSE a) /\ a % w \in 0 .. w - 1
<1>1. CASE a < 0
  <2>1. a + w \in 0 .. w - 1 /\ w * (-1) + (a + w) = a
    BY <1>1
  <2>2. (w * (-1) + (a + w)) % w = a + w
    BY <2>1, ModUnique
  <2> QED
    BY <1>1, <2>1, <2>2
<1>2. CASE ~(a < 0)
  <2>1. a \in 0 .. w - 1 /\ w * 0 + a = a
    BY <1>2
  <2>2. (w * 0 + a) % w = a
    BY <2>1, ModUnique
  <2> QED
    BY <1>2, <2>1, <2>2
<1> QED
  BY <1>1, <1>2

LEMMA MagnitudeBound ==
    ASSUME NEW h \in Nat, NEW n \in Int, -h <= n, n <= h
    PROVE  Magnitude(n) \in 0 .. h /\ Sign(n) \in 0 .. 1 /\ (n >= 0 => Magnitude(n) = n)
BY DEF Magnitude, Sign

LEMMA ReadDS18B20OK == ASSUME ReadingsInv, NEW r \in Raw16, ReadDS18B20(r) PROVE ReadingsInv'
<1> DEFINE n == Int16((r % Word) \div 256, r % 256)
           tenths == (Magnitude(n) * 10 + 8) \div 16
<1>1. /\ Plain /\ UNCHANGED light
      /\ shown' = [of |-> "DS18B20", says |-> n, chars |-> Sign(n) + Tenths(tenths), true |-> r]
  BY DEF ReadDS18B20, Text
<1>2. r \in -(128 * 256) .. 128 * 256 - 1
  BY ZenonT(40), ReadingsAssumption
<1>3. n = r
  <2>1. PICK u : u = r % Word
    OBVIOUS
  <2>2. PICK w, h, k : w = Word /\ h = 128 * 256 /\ k = 256
    OBVIOUS
  <2>3. w \in Nat \ {0} /\ r \in Int /\ -w <= r /\ r < w
    BY SMTT(30), <1>2, <2>2 DEF Word
  <2>4. k \in Nat \ {0} /\ w = k * k /\ h \in Int /\ w = 2 * h /\ -h <= r /\ r < h
    BY SMTT(30), <1>2, <2>2 DEF Word
  <2>5. u = (IF r < 0 THEN r + w ELSE r) /\ u \in 0 .. w - 1
    BY <2>1, <2>2, <2>3, WrapsOnce
  <2>6. u \in Int
    BY <2>3, <2>5
  <2>7. r % k = u % k
    <3>1. u = r \/ u = r + k * k
      BY <2>4, <2>5
    <3>2. (r + k * k) % k = r % k
      <4>1. r \in Int /\ k \in Int /\ k \in Nat \ {0}
        BY <2>3, <2>4
      <4> QED
        BY <4>1, ModSame
    <3> QED
      BY <3>1, <3>2
  <2>8. n = IF u >= h THEN u - w ELSE u
    BY <2>1, <2>2, <2>5, <2>7, Int16Back
  <2>9. u >= h <=> r < 0
    BY <2>3, <2>4, <2>5, <2>6
  <2> QED
    BY <2>3, <2>5, <2>6, <2>8, <2>9
<1> HIDE DEF n
<1>4. PICK c : c = Sign(n) + Tenths(tenths)
  OBVIOUS
<1>5. c < 9
  <2>1. PICK m, s : m = Magnitude(n) /\ s = Sign(n)
    OBVIOUS
  <2>2. m \in 0 .. 128 * 256 /\ s \in 0 .. 1
    <3>1. PICK h : h = 128 * 256
      OBVIOUS
    <3>2. h \in Nat /\ n \in Int /\ -h <= n /\ n <= h
      BY SMTT(60), <1>2, <1>3, <3>1
    <3>3. Magnitude(n) \in 0 .. h /\ Sign(n) \in 0 .. 1
      BY <3>2, MagnitudeBound
    <3> QED
      BY <2>1, <3>1, <3>3
  <2>3. PICK t : t = tenths
    OBVIOUS
  <2>4. t \in Nat /\ t < 10 * 10000
    <3>1. t = (m * 10 + 8) \div 16
      BY <2>1, <2>3
    <3> QED
      BY <2>2, <3>1
  <2>5. Magnitude(t) = t /\ Sign(t) = 0
    BY <2>4 DEF Magnitude, Sign
  <2>6. PICK q : q = t \div 10
    OBVIOUS
  <2>7. q \in Int /\ q < 10000
    BY <2>4, <2>6
  <2>8. Digits(q) \in 1 .. 5 /\ Digits(q) <= 4
    BY <2>7, SmallDigits
  <2>9. Tenths(t) = Digits(q) + 2
    BY <2>5, <2>6, <2>8 DEF Tenths
  <2> QED
    BY <1>4, <2>1, <2>2, <2>3, <2>8, <2>9
<1> HIDE DEF tenths
<1>6. shown'.chars = c /\ shown'.of = "DS18B20" /\ shown'.says = shown'.true
  BY <1>1, <1>3, <1>4
<1>7. light' \in [told : BOOLEAN, result : 0 .. Word - 1]
  BY <1>1 DEF ReadingsInv, ReadingsTypes
<1>8. Decoded'
  BY <1>6 DEF Decoded
<1>9. Fits'
  BY <1>5, <1>6 DEF Fits, Frost, Glare
<1> QED
  BY <1>1, <1>6, <1>7, <1>8, <1>9, PlainStays

LEMMA ReadCO2OK == ASSUME ReadingsInv, NEW x \in Probe, ReadCO2(x) PROVE ReadingsInv'
<1>1. x \in Nat
  BY ProbeCounts
<1>2. PICK h : h = x \div 2
  OBVIOUS
<1>3. PICK y, c : y = (h * 5000 + 512) \div 1024 /\ c = Whole(y) + 3
  OBVIOUS
<1>4. /\ Plain /\ UNCHANGED light /\ h < 1024
      /\ shown' = [of |-> "CO2", says |-> (h * 5000) \div 1024, chars |-> c, true |-> x]
  BY <1>2, <1>3 DEF ReadCO2, Text
<1>5. c < 9
  <2>1. h \in Nat
    BY <1>1, <1>2
  <2>2. y \in Nat /\ y < 10000
    BY <1>3, <1>4, <2>1
  <2>3. Digits(y) \in 1 .. 5 /\ Digits(y) <= 4
    BY <2>2, SmallDigits
  <2>4. Whole(y) = Digits(y)
    BY <2>2, <2>3 DEF Whole, Magnitude, Sign
  <2> QED
    BY <1>3, <2>3, <2>4
<1>6. shown'.chars = c /\ shown'.of = "CO2"
  BY <1>4
<1>7. light' \in [told : BOOLEAN, result : 0 .. Word - 1]
  BY <1>4 DEF ReadingsInv, ReadingsTypes
<1>8. Decoded'
  BY <1>6 DEF Decoded
<1>9. Fits'
  BY <1>5, <1>6 DEF Fits, Frost, Glare
<1> QED
  BY <1>4, <1>6, <1>7, <1>8, <1>9, PlainStays

\* The light: what is shown, and how long it is.
LEMMA LuxText ==
    ASSUME NEW n \in Int, -(128 * 256) <= n, n < 128 * 256
    PROVE  /\ n >= 0 => Lux(n) = (n * 10) \div 12
           /\ Whole(Lux(n)) + 3 < IF Lux(n) <= -10000 THEN 11 ELSE 9
<1>1. PICK m : m = Magnitude(n)
  OBVIOUS
<1>2. m \in 0 .. 128 * 256 /\ (n >= 0 => m = n)
  <2>1. PICK h : h = 128 * 256
    OBVIOUS
  <2>2. h \in Nat /\ -h <= n /\ n <= h
    BY SMTT(60), <2>1
  <2> QED
    BY <1>1, <2>1, <2>2, MagnitudeBound
<1>3. PICK lx : lx = (m * 10) \div 12
  OBVIOUS
<1>4. lx \in Nat
  BY <1>2, <1>3
<1>5. PICK k : k = Lux(n)
  OBVIOUS
<1>6. k = IF n < 0 THEN -lx ELSE lx
  BY <1>1, <1>3, <1>5 DEF Lux
<1>7. PICK d : d = Digits(lx)
  OBVIOUS
<1>8. d \in 1 .. 5 /\ (lx < 10000 => d <= 4)
  BY <1>4, <1>7, SmallDigits
<1>9. Whole(k) = d + (IF k < 0 THEN 1 ELSE 0)
  <2>1. Magnitude(k) = lx /\ Sign(k) = IF k < 0 THEN 1 ELSE 0
    BY <1>4, <1>6 DEF Magnitude, Sign
  <2> QED
    BY <1>7, <1>8, <2>1 DEF Whole
<1>10. n >= 0 => k = (n * 10) \div 12
  BY <1>2, <1>3, <1>6
<1>11. Whole(k) + 3 < IF k <= -10000 THEN 11 ELSE 9
  BY <1>4, <1>6, <1>8, <1>9
<1> QED
  BY <1>5, <1>10, <1>11

LEMMA ReadLightOK == ASSUME ReadingsInv, NEW there \in BOOLEAN, ReadLight(there) PROVE ReadingsInv'
<1> DEFINE n == IF there THEN Int16(light.result \div 256, light.result % 256) ELSE 0
<1>1. /\ Plain /\ light' = [light EXCEPT !.told = there]
      /\ shown' = [of |-> "BH1750", says |-> Lux(n), chars |-> Whole(Lux(n)) + 3, true |-> light]
  BY DEF ReadLight, Text
<1>2. ReadingsTypes
  BY DEF ReadingsInv
<1>3. PICK u : u = light.result
  OBVIOUS
<1>4. u \in 0 .. Word - 1
  BY <1>2, <1>3, ReadingsFields
<1>5. n = IF ~there THEN 0 ELSE IF u >= 128 * 256 THEN u - Word ELSE u
  BY <1>3, <1>4, Int16Back
<1> HIDE DEF n
<1>6. n \in Int /\ -(128 * 256) <= n /\ n < 128 * 256
  <2>1. PICK w : w = Word
    OBVIOUS
  <2>2. w \in Int /\ w = 2 * (128 * 256) /\ u \in 0 .. w - 1
    BY <1>4, <2>1 DEF Word
  <2> QED
    BY <1>5, <2>1, <2>2
<1>7. PICK k, c : k = Lux(n) /\ c = Whole(Lux(n)) + 3
  OBVIOUS
<1>8. /\ n >= 0 => k = (n * 10) \div 12
      /\ c < IF k <= -10000 THEN 11 ELSE 9
  BY <1>6, <1>7, LuxText
<1>9. shown'.of = "BH1750" /\ shown'.says = k /\ shown'.chars = c /\ shown'.true.result = u
  BY <1>1, <1>3, <1>7
<1>10. light' = [told |-> there, result |-> u]
  BY <1>1, <1>2, <1>3 DEF ReadingsTypes
<1>11. light' \in [told : BOOLEAN, result : 0 .. Word - 1]
  BY <1>4, <1>10
<1>12. Decoded'
  <2>1. u < 128 * 256 /\ there => k = (u * 10) \div 12
    BY <1>4, <1>5, <1>8
  <2>2. ~there => k = 0 /\ ~light'.told
    BY <1>5, <1>8, <1>10
  <2> QED
    BY <1>9, <2>1, <2>2 DEF Decoded
<1>13. Fits'
  <2>1. ~Frost'
    BY <1>9 DEF Frost
  <2>2. IF k <= -10000 THEN Glare' ELSE ~Glare'
    BY <1>9 DEF Glare
  <2> QED
    BY <1>8, <1>9, <2>1, <2>2 DEF Fits
<1> QED
  BY <1>1, <1>9, <1>11, <1>12, <1>13, PlainStays

\* The other steps show nothing, or leave what is shown.
LEMMA CalibrationOK ==
    ASSUME ReadingsInv, Calibrate \/ CalibSel \/ CalibBack \/ (\E n \in {-1, 1} : CalibKey(n))
                        \/ \E x \in Probe : ThirdStep(x)
    PROVE  ReadingsInv'
<1> DEFINE ats == {"none", "first", "second", "third", "fourth"}
           V == 0 .. LongWrap - 1
<1>1. /\ kind \in {"pH", "EC", "plain"} /\ step \in [at : ats, low : Int, high : Int, lowValue : V]
      /\ (shown # Nothing => step.at = "none") /\ 0 \in V
  <2>1. 0 \in V
    BY ReadingsFields DEF ReadingsInv
  <2> QED
    BY <2>1 DEF ReadingsInv, ReadingsTypes
<1>2. \A x \in Probe : x \div 2 \in V
  <2> SUFFICES ASSUME NEW x \in Probe PROVE x \div 2 \in V
    OBVIOUS
  <2>1. x \in V /\ LongWrap \in Nat \ {0}
    BY ZenonT(40), ReadingsAssumption
  <2> QED
    BY <2>1
<1>3. Standard.low \in Int /\ Standard.high \in Int
  BY DEF Standard
<1>4. NoStep \in [at : ats, low : Int, high : Int, lowValue : V] /\ NoStep.at = "none"
  BY <1>1 DEF NoStep
<1> HIDE DEF V, ats
<1>5. UNCHANGED <<kind, constants, points, light>> /\ (shown' = shown \/ shown' = Nothing)
  BY DEF Calibrate, CalibSel, CalibBack, ThirdStep, CalibKey, Try
<1>6. /\ step' \in [at : ats, low : Int, high : Int, lowValue : V]
      /\ shown' # Nothing => step'.at = "none"
  <2>1. CASE Calibrate
    <3>1. step' = [at |-> "first", low |-> Standard.low, high |-> 0, lowValue |-> 0] /\ shown' = Nothing
      BY <2>1 DEF Calibrate, NoStep
    <3> QED
      BY <1>1, <1>3, <3>1 DEF ats
  <2>2. CASE CalibSel
    <3>1. step.at # "none" /\ shown' = shown
      BY <2>2 DEF CalibSel
    <3>2. CASE step' = [step EXCEPT !.at = "second", !.high = Standard.high]
      BY <1>1, <1>3, <3>1, <3>2 DEF ats
    <3>3. CASE step' = [step EXCEPT !.at = "third"]
      BY <1>1, <3>1, <3>3 DEF ats
    <3> QED
      BY <2>2, <3>2, <3>3 DEF CalibSel
  <2>3. CASE CalibBack
    BY <1>4, <2>3 DEF CalibBack
  <2>4. ASSUME NEW x \in Probe, ThirdStep(x)
        PROVE  /\ step' \in [at : ats, low : Int, high : Int, lowValue : V]
               /\ shown' # Nothing => step'.at = "none"
    <3>1. step.at # "none" /\ shown' = shown /\ step' = [step EXCEPT !.at = "fourth", !.lowValue = x \div 2]
      BY <2>4 DEF ThirdStep
    <3> QED
      BY <1>1, <1>2, <3>1 DEF ats
  <2>5. ASSUME NEW n \in {-1, 1}, CalibKey(n)
        PROVE  /\ step' \in [at : ats, low : Int, high : Int, lowValue : V]
               /\ shown' # Nothing => step'.at = "none"
    <3>1. n \in Int
      OBVIOUS
    <3>2. step.at # "none" /\ shown' = shown /\ (step' = [step EXCEPT !.low = @ + n] \/ step' = [step EXCEPT !.high = @ + n])
      BY <2>5 DEF CalibKey, Try
    <3>3. step.low + n \in Int /\ step.high + n \in Int
      BY <1>1, <3>1
    <3> QED
      BY <1>1, <3>2, <3>3
  <2> QED
    BY <2>1, <2>2, <2>3, <2>4, <2>5
<1>7. ReadingsTypes'
  BY <1>5, <1>6 DEF ReadingsInv, ReadingsTypes, ats, V
<1>8. LineInv'
  BY <1>5 DEF ReadingsInv, LineInv
<1>9. ReadingsTrue'
  BY <1>5, NothingTrue DEF ReadingsInv, ReadingsTrue, OnTheLine, Decoded, Fits, Frost, Glare
<1> QED
  BY <1>7, <1>8, <1>9 DEF ReadingsInv

LEMMA FourthStepOK == ASSUME ReadingsInv, NEW x \in Probe, FourthStep(x) PROVE ReadingsInv'
<1> DEFINE V == 0 .. LongWrap - 1
<1>1. PICK low, high, lv, hv : low = step.low /\ high = step.high /\ lv = step.lowValue /\ hv = x \div 2
  OBVIOUS
<1>2. /\ step.at = "fourth" /\ step' = NoStep /\ UNCHANGED <<kind, light, shown>>
      /\ constants' = Line(low, high, lv, hv)
      /\ points' = [low |-> low, high |-> high, lowValue |-> lv, highValue |-> hv]
  BY <1>1 DEF FourthStep
<1>3. low \in Int /\ high \in Int /\ lv \in V /\ hv \in V /\ LongWrap \in Nat \ {0}
  <2>1. x \in V /\ LongWrap \in Nat \ {0}
    BY ZenonT(40), ReadingsAssumption
  <2>2. hv \in V
    BY <1>1, <2>1
  <2> QED
    BY <1>1, <2>1, <2>2, ReadingsFields DEF ReadingsInv
<1>4. constants' \in [num : Int, den : Nat, off : Int]
  <2>1. PICK d : d = (hv - lv) % LongWrap
    OBVIOUS
  <2>2. d \in Nat /\ hv \in Int /\ high - low \in Int
    BY <1>3, <2>1
  <2>3. high * d - hv * (high - low) \in Int
    BY <1>3, <2>2
  <2>4. constants' = [num |-> high - low, den |-> d, off |-> high * d - hv * (high - low)]
    BY <1>2, <2>1 DEF Line
  <2> QED
    BY <2>2, <2>3, <2>4
<1>5. shown = Nothing
  BY <1>2 DEF ReadingsInv, ReadingsTypes
<1>6. NoStep \in [at : {"none", "first", "second", "third", "fourth"}, low : Int, high : Int, lowValue : V]
  <2>1. 0 \in V
    BY <1>3
  <2> HIDE DEF V
  <2> QED
    BY <2>1 DEF NoStep
<1> HIDE DEF V
<1>7. points' \in [low : Int, high : Int, lowValue : V, highValue : V]
  BY <1>2, <1>3
<1>8. ReadingsTypes'
  BY <1>2, <1>4, <1>5, <1>6, <1>7 DEF ReadingsInv, ReadingsTypes, V
<1>9. LineInv'
  BY <1>2 DEF LineInv
<1>10. ReadingsTrue'
  BY <1>2, <1>5, NothingTrue
<1> QED
  BY <1>8, <1>9, <1>10 DEF ReadingsInv

LEMMA WaitsOK ==
    ASSUME ReadingsInv, NextPass \/ LightGoes \/ \E l \in Lights : Measure(l)
    PROVE  ReadingsInv'
<1>1. UNCHANGED <<kind, step, constants, points>> /\ shown' = Nothing
  BY DEF NextPass, LightGoes, Measure
<1>2. light' \in [told : BOOLEAN, result : 0 .. Word - 1]
  <2> DEFINE W == 0 .. Word - 1
  <2>1. light \in [told : BOOLEAN, result : W]
    BY DEF ReadingsInv, ReadingsTypes
  <2>2. 0 \in W
    BY DEF Word
  <2> HIDE DEF W
  <2>3. ASSUME light' = [told |-> FALSE, result |-> 0] PROVE light' \in [told : BOOLEAN, result : W]
    BY <2>2, <2>3
  <2>4. ASSUME NEW l \in Lights, light' = [light EXCEPT !.result = l] PROVE light' \in [told : BOOLEAN, result : W]
    <3>1. l \in W
      BY ZenonT(40), ReadingsAssumption DEF W
    <3> QED
      BY <2>1, <2>4, <3>1
  <2>5. ASSUME light' = light PROVE light' \in [told : BOOLEAN, result : W]
    BY <2>1, <2>5
  <2>6. light' \in [told : BOOLEAN, result : W]
    BY <2>3, <2>4, <2>5 DEF NextPass, LightGoes, Measure
  <2> QED
    BY <2>6 DEF W
<1>3. ReadingsTypes' /\ LineInv'
  BY <1>1, <1>2 DEF ReadingsInv, ReadingsTypes, LineInv
<1> QED
  BY <1>1, <1>3, NothingTrue DEF ReadingsInv

LEMMA ReadingsNextOK == ReadingsInv /\ [ReadingsNext]_readingVars => ReadingsInv'
<1> SUFFICES ASSUME ReadingsInv, [ReadingsNext]_readingVars PROVE ReadingsInv'
  OBVIOUS
<1>1. CASE UNCHANGED readingVars
  BY <1>1 DEF readingVars, ReadingsInv, ReadingsTypes, LineInv, ReadingsTrue, OnTheLine, Decoded, Fits,
              Frost, Glare
<1>2. CASE NextPass \/ LightGoes \/ \E l \in Lights : Measure(l)
  BY <1>2, WaitsOK
<1>3. CASE Calibrate \/ CalibSel \/ CalibBack \/ (\E n \in {-1, 1} : CalibKey(n))
           \/ \E x \in Probe : ThirdStep(x)
  BY <1>3, CalibrationOK
<1>4. ASSUME NEW x \in Probe, FourthStep(x) \/ ReadProbe(x) \/ ReadCO2(x) PROVE ReadingsInv'
  BY <1>4, FourthStepOK, ReadProbeOK, ReadCO2OK
<1> QED
  BY <1>1, <1>2, <1>3, <1>4, ReadDHTOK, ReadDS18B20OK, ReadLightOK DEF ReadingsNext

LEMMA ReadingsInitOK == ReadingsInit => ReadingsInv
<1> SUFFICES ASSUME ReadingsInit PROVE ReadingsInv
  OBVIOUS
<1> DEFINE V == 0 .. LongWrap - 1
           W == 0 .. Word - 1
<1>1. 0 \in V /\ 0 \in W
  <2>1. LongWrap \in Nat \ {0}
    BY Zenon, ReadingsAssumption
  <2> QED
    BY <2>1 DEF Word
<1> HIDE DEF V, W
<1>2. step \in [at : {"none", "first", "second", "third", "fourth"}, low : Int, high : Int, lowValue : V]
  BY <1>1 DEF ReadingsInit, NoStep
<1>3. points \in [low : Int, high : Int, lowValue : V, highValue : V]
  BY <1>1 DEF ReadingsInit
<1>4. constants \in [num : Int, den : Nat, off : Int]
  BY DEF ReadingsInit
<1>5. light \in [told : BOOLEAN, result : W]
  BY <1>1 DEF ReadingsInit
<1>6. ReadingsTypes
  BY <1>2, <1>3, <1>4, <1>5 DEF ReadingsInit, ReadingsTypes, V, W
<1>7. LineInv
  BY DEF ReadingsInit, LineInv
<1> QED
  BY <1>6, <1>7, NothingTrue DEF ReadingsInit, ReadingsInv

-----------------------------------------------------------------------------
\* DataRight, of Sensors: whatever the sensors send, and whatever was read before,
\* what is shown is what they sent.
THEOREM DataRightHolds == Spec => []DataRight
<1> DEFINE Inv == DhtInv /\ WireInv /\ ReadingsInv
<1>1. Init => Inv
  BY DhtInitOK, WireInitOK, ReadingsInitOK DEF Init
<1>2. Inv /\ [Next]_vars => Inv'
  <2> SUFFICES ASSUME Inv, [Next]_vars PROVE Inv'
    OBVIOUS
  <2>1. DhtInv'
    <3>1. [DhtNext]_dhtVars
      BY DEF Next, vars
    <3> QED
      BY <3>1, DhtNextOK
  <2>2. WireInv'
    <3>1. [WireNext]_wireVars
      BY DEF Next, vars
    <3> QED
      BY <3>1, WireNextOK
  <2>3. ReadingsInv'
    <3>1. [ReadingsNext]_readingVars
      BY DEF Next, vars
    <3> QED
      BY <3>1, ReadingsNextOK
  <2> QED
    BY <2>1, <2>2, <2>3
<1>3. Inv => DataRight
  BY DhtInvMeans, WireInvMeans DEF ReadingsInv, DataRight
<1> QED
  BY <1>1, <1>2, <1>3, PTL DEF Spec

-----------------------------------------------------------------------------
=============================================================================
