------------------------------ MODULE Sensors ------------------------------
(***************************************************************************)
(* Reading the sensors (Sensors.h): by pulses, by DHT trains and by the    *)
(* 1-Wire bus, and what is made of what they give. The main loop reads one *)
(* after the other; what they share, _max_time and the pins, each reading  *)
(* sets anew, so that every behaviour is about one of them, again and      *)
(* again.                                                                  *)
(***************************************************************************)
EXTENDS Pulse, Dht, OneWire, Readings

VARIABLE sensor

vars == <<pulseVars, dhtVars, wireVars, readingVars, sensor>>

\* A part that is not used stands still at one state.
PulseAtRest == now = 0 /\ line = FALSE
WireAtRest == attached = {} /\ temp = CHOOSE t \in Temps : TRUE

Init ==
    /\ sensor \in {"pulse", "DHT", "1-Wire", "text"}
    /\ PulseInit /\ DhtInit /\ WireInit /\ ReadingsInit
    /\ sensor # "text" => kind = "pH"
    /\ sensor # "pulse" => PulseAtRest
    /\ sensor # "1-Wire" => WireAtRest

Next ==
    /\ \/ sensor = "pulse" /\ PulseNext /\ UNCHANGED <<dhtVars, wireVars, readingVars>>
       \/ sensor = "DHT" /\ DhtNext /\ UNCHANGED <<pulseVars, wireVars, readingVars>>
       \/ sensor = "1-Wire" /\ WireNext /\ UNCHANGED <<pulseVars, dhtVars, readingVars>>
       \/ sensor = "text" /\ ReadingsNext /\ UNCHANGED <<pulseVars, dhtVars, wireVars>>
    /\ UNCHANGED sensor

\* The loops of the program go on; nobody has to start a measurement.
Fairness == WF_vars(sensor = "pulse" /\ (LookClear \/ LookStart \/ LookRun \/ Back)
                      /\ UNCHANGED <<dhtVars, wireVars, readingVars, sensor>>)

Spec == Init /\ [][Next]_vars /\ Fairness

-----------------------------------------------------------------------------
\* What is shown is what the sensors sent: an accepted DHT train, the
\* temperature of a device that stayed, the devices found on a quiet bus, and
\* values that a calibration and the conversions leave true and that fit their text.
DataRight == WithinData /\ FrameRight /\ TemperatureRight /\ Enumerated /\ ReadingsTrue

\* A measurement ends, whatever the sensor does, unless a deadline lies so
\* close to the wrap of micros() that no look falls behind it.
Blind == maxTime >= Wrap - Tick
MeasuringEnds == at # "rest" ~> (at = "rest" \/ Blind)

=============================================================================
