------------------------------- MODULE Pulse -------------------------------
(***************************************************************************)
(* The length of a pulse, measured by looking at a pin and at micros()     *)
(* again and again: the echo of an SR04 and the signal of an EC probe.     *)
(* micros() wraps around, and a result has half its width.                 *)
(***************************************************************************)
EXTENDS Integers

CONSTANTS Wrap, IntWrap,     \* 2^32 and 2^16
          SensorDelay,       \* MAX_SENSOR_DELAY
          PingTime, ECTime,  \* _maxEchoTime of an SR04 and of an EC probe
          Overhead,          \* 5 us
          CheckLimit,        \* 2000: what the first pulse of an EC probe stays below
          Samples, Scale,    \* FREQSAMPLES, and what is divided by their mean
          Tick               \* the most that passes between two looks

ASSUME PulseAssumption ==
    /\ {Wrap, IntWrap, SensorDelay, PingTime, ECTime, Samples, Scale, Tick} \subseteq Nat \ {0}
    /\ {Overhead, CheckLimit} \subseteq Nat
    /\ Wrap % IntWrap = 0 /\ PingTime < IntWrap /\ ECTime < IntWrap

VARIABLES now,        \* micros()
          line, age,  \* the level of the echo pin, and for how long it has had it
          pulse,      \* how long the pulse was that has just been measured
          at,         \* where in high- or lowDuration
          call,       \* which of their calls
          maxTime,    \* _max_time
          wrapped,    \* the deadline of the call lies beyond the wrap of micros()
          sum, left,  \* freqhigh + freqlow, and the samples to come
          result      \* of the last call, or of them all

pulseVars == <<now, line, age, pulse, at, call, maxTime, wrapped, sum, left, result>>

Level == call # "low"        \* lowDuration waits for a low pulse
EchoTime == IF call = "SR04" THEN PingTime ELSE ECTime
OldAge == SensorDelay + 1

PulseInit ==
    /\ now \in 0 .. Wrap - 1 /\ line \in BOOLEAN /\ age = OldAge /\ pulse = 0
    /\ at = "rest" /\ call = "none" /\ maxTime = 0 /\ wrapped = FALSE
    /\ sum = 0 /\ left = 0 /\ result = 0

\* Time passes, and the level may change once, e after the look. Pulses are
\* longer than the time between two looks.
Passes(next) ==
    \E d \in 1 .. Tick :
      /\ now' = (now + d) % Wrap
      /\ \/ /\ line' = line /\ pulse' = pulse
            /\ age' = IF age + d > OldAge THEN OldAge ELSE age + d
         \/ \E e \in 0 .. d - 1 :
              /\ age + e > Tick
              /\ line' = ~line /\ age' = d - e
              /\ pulse' = IF next = "run" /\ line = Level
                          THEN (IF age + e > OldAge THEN OldAge ELSE age + e) ELSE 0

Goes(next) == at' = next /\ Passes(next)

\* A duration is asked for.
Ask(c) ==
    /\ call' = c
    /\ maxTime' = (now + SensorDelay) % Wrap
    /\ wrapped' = (now + SensorDelay >= Wrap)
    /\ at' = "clear"
    /\ UNCHANGED <<now, line, age>> /\ pulse' = 0

StartPing == at = "rest" /\ Ask("SR04") /\ result' = 0 /\ UNCHANGED <<sum, left>>

StartFrequency ==
    /\ at = "rest" /\ Ask("check1")
    /\ sum' = 0 /\ left' = Samples /\ result' = 0

Kept == UNCHANGED <<call, maxTime, wrapped, sum, left, result>>
Still == UNCHANGED <<now, line, age, pulse, call, sum, left>>

\* The station does something else.
Idle == at = "rest" /\ Kept /\ Goes("rest")

FaultyLookClear ==            \* the pulse that is there is taken for the next
    at = "clear" /\ Kept /\ Goes("start")
\* while (*_echoInput & _echoBit && micros() <= _max_time) {}
LookClear ==
    at = "clear" /\ Kept /\ Goes(IF line = Level /\ now <= maxTime THEN "clear" ELSE "start")

FaultyLookStart ==            \* waits for the pulse without end
    /\ at = "start"
    /\ \/ line # Level /\ Kept /\ Goes("start")
       \/ line = Level /\ maxTime' = (now + EchoTime) % Wrap /\ Goes("run")
            /\ UNCHANGED <<call, wrapped, sum, left, result>>
\* The wait for the pulse, and its deadline.
LookStart ==
    /\ at = "start"
    /\ \/ line # Level /\ now <= maxTime /\ Kept /\ Goes("start")
       \/ line # Level /\ now > maxTime /\ at' = "back" /\ result' = 0
            /\ Still /\ UNCHANGED <<maxTime, wrapped>>
       \/ line = Level /\ maxTime' = (now + EchoTime) % Wrap /\ Goes("run")
            /\ UNCHANGED <<call, wrapped, sum, left, result>>

\* The wait for its end.
LookRun ==
    /\ at = "run"
    /\ \/ line = Level /\ now <= maxTime /\ Kept /\ Goes("run")
       \/ /\ line # Level \/ now > maxTime
          /\ at' = "back"
          /\ result' = IF line = Level THEN 0
                       ELSE ((now - (maxTime - EchoTime) - Overhead) % Wrap) % IntWrap
          /\ Still /\ UNCHANGED <<maxTime, wrapped>>

\* A division by 0 has all ones as its result.
Frequency(total) ==
    LET mean == total \div Samples IN IF mean = 0 THEN Wrap - 1 ELSE Scale \div mean

Rest(value) ==
    /\ at' = "rest" /\ call' = "none" /\ maxTime' = 0 /\ wrapped' = FALSE /\ pulse' = 0
    /\ sum' = 0 /\ left' = 0 /\ result' = value
    /\ UNCHANGED <<now, line, age>>

\* getFrequency and ping go on with what a call returned.
Back ==
    /\ at = "back"
    /\ CASE call = "SR04" -> Rest(result)
         [] call = "check1" /\ result < CheckLimit ->
              Ask("check2") /\ result' = 0 /\ UNCHANGED <<sum, left>>
         [] call = "check2" /\ result > 1 ->
              Ask("high") /\ result' = 0 /\ UNCHANGED <<sum, left>>
         [] call = "high" -> Ask("low") /\ sum' = sum + result /\ result' = 0 /\ UNCHANGED left
         [] call = "low" /\ left > 1 ->
              Ask("high") /\ sum' = sum + result /\ left' = left - 1 /\ result' = 0
         [] call = "low" /\ left = 1 -> Rest(Frequency(sum + result))
         [] OTHER -> Rest(0)

PulseNext == Idle \/ StartPing \/ StartFrequency \/ LookClear \/ LookStart \/ LookRun \/ Back

-----------------------------------------------------------------------------
\* What is measured is the length of a whole pulse, but for the looks'
\* distance, also when micros() wraps around in the middle of it; unless the
\* deadline for its beginning lay beyond the wrap, or the pulse was longer
\* than the sensor is waited for.
Measured ==
    at = "back" /\ line # Level /\ result # 0 /\ ~wrapped /\ pulse \in 1 .. SensorDelay =>
      \E error \in -Tick .. Tick : result = (pulse - Overhead + error) % IntWrap

=============================================================================
