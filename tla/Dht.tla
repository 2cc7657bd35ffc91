-------------------------------- MODULE Dht --------------------------------
(***************************************************************************)
(* A reading of a DHT11 or DHT22: the sensor answers with a train of       *)
(* levels, whose lengths are the bits; read() of Sensors.h, which is the   *)
(* one of the DHT library, counts them out.                                *)
(***************************************************************************)
EXTENDS Integers, Sequences

CONSTANTS ByteBits,      \* 8
          Readings,      \* what a sensor may measure: four bytes each
          Count,         \* _count: a longer level is a one
          Forever        \* 255

ASSUME DhtAssumption ==
    /\ {ByteBits, Count, Forever} \subseteq Nat \ {0} /\ Count + 1 < Forever
    /\ \A r \in Readings : r \in Seq(0 .. 2 ^ ByteBits - 1) /\ Len(r) = 4

\* What the provers have to be told of powers.
ASSUME DhtPowers == \A n \in 0 .. ByteBits : 2 ^ n \in Nat \ {0} /\ 2 ^ (n + 1) = 2 * 2 ^ n

FrameBits == 5 * ByteBits
MAXTIMINGS == 5 + 2 * FrameBits

VARIABLES sent,          \* the reading of the sensor
          wave,          \* the lengths of the levels that reach the station, high first
          noise,         \* what has been done to them on the way
          i, j, data,    \* as in read()
          dht            \* "rest", "reading", "accepted", "refused"

dhtVars == <<sent, wave, noise, i, j, data, dht>>

Sum4(r) == (r[1] + r[2] + r[3] + r[4]) % 2 ^ ByteBits
Bit(byte, k) == (byte \div 2 ^ (ByteBits - k)) % 2        \* the highest is first

\* The sensor (external): it waits, answers low and high, sends its bits and
\* lets go.
Train(r) ==
    LET frame == Append(r, Sum4(r))
        bits  == [k \in 1 .. FrameBits |->
                    Bit(frame[(k - 1) \div ByteBits + 1], ((k - 1) % ByteBits) + 1)]
        level(n) == IF n <= 3 THEN Count + 1
                    ELSE IF n = 2 * FrameBits + 5 THEN Forever
                    ELSE IF n % 2 = 0 THEN Count
                    ELSE IF bits[(n - 3) \div 2] = 1 THEN Count + 1 ELSE Count
    IN  [n \in 1 .. 2 * FrameBits + 5 |-> level(n)]

\* A level is too short to be seen: its neighbours become one.
Merged(w, n) == SubSeq(w, 1, n - 2) \o <<Forever - 1>> \o SubSeq(w, n + 2, Len(w))
\* The sensor stops in the middle, or was never there.
Cut(w, n) == Append(SubSeq(w, 1, n - 1), Forever)
\* A level is interrupted for a moment.
Split(w, n) == SubSeq(w, 1, n - 1) \o <<1, 1, Count>> \o SubSeq(w, n + 1, Len(w))
\* Ringing without end.
Ringing == [n \in 1 .. MAXTIMINGS |-> Count + 1]

DhtInit ==
    /\ sent = <<0, 0, 0, 0>> /\ wave = <<>> /\ noise = "none"
    /\ i = 0 /\ j = 0 /\ data = [k \in 0 .. 5 |-> 0] /\ dht = "rest"

StartDHT(r) ==
    /\ dht = "rest" /\ dht' = "reading" /\ sent' = r
    /\ \/ wave' = Train(r) /\ noise' = "none"
       \/ \E n \in 2 .. 2 * FrameBits + 3 : wave' = Merged(Train(r), n) /\ noise' = "merged"
       \/ \E n \in 1 .. 2 * FrameBits + 4 :
            \/ wave' = Cut(Train(r), n) /\ noise' = "cut"
            \/ wave' = Split(Train(r), n) /\ noise' = "split"
       \/ wave' = Ringing /\ noise' = "split"
    /\ i' = 0 /\ j' = 0
    /\ data' = [k \in 0 .. 5 |-> IF k < 5 THEN 0 ELSE data[5]]

\* A bit goes into data[j/8], from below.
Shoved(bit) == [data EXCEPT ![j \div ByteBits] = (2 * @ + bit) % 2 ^ ByteBits]

\* One round of the loop over the levels.
OneLevel ==
    /\ dht = "reading" /\ i < MAXTIMINGS
    /\ LET counter == wave[i + 1] IN
         IF counter >= Forever THEN i' = MAXTIMINGS /\ UNCHANGED <<j, data>>
         ELSE /\ i' = i + 1
              /\ IF i >= 4 /\ i % 2 = 0
                 THEN data' = Shoved(IF counter > Count THEN 1 ELSE 0) /\ j' = j + 1
                 ELSE UNCHANGED <<j, data>>
    /\ UNCHANGED <<sent, wave, noise, dht>>

\* 40 bits and the checksum.
Check ==
    /\ dht = "reading" /\ i = MAXTIMINGS
    /\ dht' = IF /\ j >= FrameBits
                 /\ data[4] = (data[0] + data[1] + data[2] + data[3]) % 2 ^ ByteBits
              THEN "accepted" ELSE "refused"
    /\ UNCHANGED <<sent, wave, noise, i, j, data>>

\* readTemperature and readHumidity have printed what data holds, or "0/0".
ShowDHT ==
    /\ dht \in {"accepted", "refused"}
    /\ dht' = "rest" /\ sent' = <<0, 0, 0, 0>> /\ wave' = <<>> /\ noise' = "none" /\ i' = 0 /\ j' = 0
    /\ data' = [k \in 0 .. 5 |-> IF k < 5 THEN 0 ELSE data[5]]

DhtNext == (\E r \in Readings : StartDHT(r)) \/ OneLevel \/ Check \/ ShowDHT

-----------------------------------------------------------------------------
\* However many levels there are, the bits stay within data.
WithinData == dht = "reading" /\ i < MAXTIMINGS => j \div ByteBits <= 5

\* A reading that is accepted is what the sensor sent, and one that arrived
\* whole is accepted: levels lost anywhere and a sensor pulled out in the
\* middle do not pass, although the checksum of a reading shifted may be right.
FrameRight ==
    /\ dht = "accepted" /\ noise # "split" => \A k \in 1 .. 4 : data[k - 1] = sent[k]
    /\ dht = "refused" => noise # "none"

=============================================================================
