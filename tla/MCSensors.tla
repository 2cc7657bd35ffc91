----------------------------- MODULE MCSensors -----------------------------
(* Values of Sensors' constants for TLC. *)
EXTENDS Sensors

MCReadings == {<<a, b, c, 1>> : a \in 0 .. 3, b \in {0, 1, 2}, c \in {0, 3}}

\* Three families, one of them with three devices, which part at the third
\* and at the fourth bit.
MCRoms == {<<1, 0, 0, 0, 1>>, <<1, 0, 1, 1, 0>>, <<1, 0, 1, 0, 1>>, <<0, 1, 1, 0, 0>>, <<1, 1, 0, 1, 0>>}

\* Tenths of degrees of a DHT22, sixteenths of a DS18B20.
MCCelsius == {-400, -100, -99, -1, 0, 1, 256, 800}
MCRaw16 == {-880, -161, -1, 0, 1, 255, 256, 2000}

=============================================================================
