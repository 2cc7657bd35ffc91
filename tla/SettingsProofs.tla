--------------------------- MODULE SettingsProofs ---------------------------
(***************************************************************************)
(* Theorems about Settings, for every choice of pins, types, delays and    *)
(* calibrations, any number of power failures and whichever order the      *)
(* compiler chooses for the arguments of a call.                           *)
(***************************************************************************)
EXTENDS Settings, TLAPS

-----------------------------------------------------------------------------
(* The layout. *)

LEMMA PlacesAre ==
    /\ Items = {170, 180, 190, 200, 0, 8, 16, 24, 32, 40, 48}
    /\ Pairs = {0, 8, 16, 24, 32, 40, 48}
    /\ RAMItems = {170, 180, 190, 200}
    /\ Places = Items \cup {1016}
    /\ StrayEC = 16 /\ StrayPH = 1016
<1>1. {PHAt(w) : w \in 0..2} = {0, 8, 16}
  BY DEF PHAt
<1>2. {ECAt(w) : w \in 0..3} = {24, 32, 40, 48}
  BY DEF ECAt
<1>3. StrayEC = 16 /\ StrayPH = 1016
  BY DEF StrayEC, StrayPH, Wrapped, ECAt, PHAt
<1> QED BY <1>1, <1>2, <1>3 DEF Items, Pairs, RAMItems, Tables, Places, Analog, Digital, I2C, Delay

\* No two places of the EEPROM that the program uses share a byte.
LEMMA SlotsDisjoint ==
    ASSUME NEW r \in Places, NEW s \in Places, r # s
    PROVE  Slot(r) \cap Slot(s) = {}
<1>1. r \in Int /\ s \in Int /\ Size(r) \in Nat /\ Size(s) \in Nat
  BY PlacesAre DEF Size
<1>2. r + Size(r) <= s \/ s + Size(s) <= r
  BY PlacesAre DEF Size, Analog, Digital, I2C, Delay
<1> QED BY <1>1, <1>2 DEF Slot

LEMMA SizeType == ASSUME NEW r \in Places PROVE Size(r) \in 2..8 /\ r \in Nat
BY PlacesAre DEF Size

LEMMA SlotByte ==
    ASSUME NEW r \in Places, NEW i \in 1..Size(r)
    PROVE  r + i - 1 \in Slot(r) /\ r + i - 1 \in Addr
<1>1. r + i - 1 \in Slot(r)
  BY SizeType DEF Slot
<1> QED BY <1>1 DEF Addr

LEMMA ReadType ==
    ASSUME NEW mem \in [Addr -> Byte], NEW r \in Places
    PROVE  Read(mem, r) \in Image(r)
BY SlotByte DEF Read, Image

LEMMA BytesType == ASSUME NEW d \in Nat PROVE Bytes(d) \in Image(Delay)
<1>1. Size(Delay) = 4
  BY DEF Size, Analog, Digital, I2C, Delay
<1>2. /\ d % 256 \in Byte /\ (d \div 256) % 256 \in Byte
      /\ (d \div 65536) % 256 \in Byte /\ (d \div 16777216) % 256 \in Byte
  BY DEF Byte
<1> QED BY <1>1, <1>2 DEF Bytes, Image

LEMMA AssignDelayType ==
    ASSUME NEW d \in Nat
    PROVE  AssignDelay(d) \in [readable : Byte, type : {0, 1}]
<1>1. (d \div 60000) % 256 \in Byte /\ (d \div 1000) % 256 \in Byte
  BY DEF Byte
<1> QED BY <1>1 DEF AssignDelay

LEMMA ValueType == ASSUME NEW b \in Image(Delay) PROVE Value(b) \in Nat
<1>1. Size(Delay) = 4
  BY DEF Size, Analog, Digital, I2C, Delay
<1>2. b[1] \in Nat /\ b[2] \in Nat /\ b[3] \in Nat /\ b[4] \in Nat
  BY <1>1 DEF Image, Byte
<1> QED BY <1>2 DEF Value

LEMMA FactoryType == Factory \in [Addr -> Byte]
<1>1. ASSUME NEW at \in Places, NEW i \in 1..Size(at)
      PROVE  FactoryItem(at)[i] \in Byte
  <2>1. CASE at \in Tables
    BY <1>1, <2>1 DEF FactoryItem, Byte
  <2>2. CASE at = Delay
    <3>1. Delay \notin Tables
      BY DEF Tables, Analog, Digital, I2C, Delay
    <3>2. FactoryItem(at) = Bytes(1000)
      BY <2>2, <3>1 DEF FactoryItem
    <3>3. Bytes(1000) \in [1..Size(at) -> Byte]
      BY <2>2, BytesType DEF Image
    <3> QED BY ZenonT(40), <1>1, <3>2, <3>3
  <2>3. CASE at \in Pairs /\ at \notin Tables /\ at # Delay
    <3>1. i \in 1..8
      BY <1>1, SizeType
    <3>2. FactoryItem(at) = Ones
      BY <2>3 DEF FactoryItem
    <3> QED BY <3>1, <3>2 DEF Ones, Byte
  <2>4. CASE at \notin Pairs /\ at \notin Tables /\ at # Delay
    <3>1. i \in 1..8
      BY <1>1, SizeType
    <3> QED BY <3>1, <2>4 DEF FactoryItem, Byte
  <2> QED BY <2>1, <2>2, <2>3, <2>4
<1>2. ASSUME NEW a \in Addr
      PROVE  Holder(a) \in Places /\ a \in Slot(Holder(a))
  BY DEF Addr, Holder
<1>3. ASSUME NEW a \in Addr
      PROVE  a - Holder(a) + 1 \in 1..Size(Holder(a))
  BY <1>2, SizeType DEF Slot
<1> QED BY <1>1, <1>2, <1>3 DEF Factory

-----------------------------------------------------------------------------
(* Type correctness. *)

LEMMA FreeMeans == ASSUME Free PROVE job = Idle /\ newDelay = Closed
BY DEF Free

LEMMA JobType ==
    ASSUME NEW item \in Items, NEW at \in Places, NEW image \in Image(at), NEW by \in Callers,
           job' = Job(item, at, image, by)
    PROVE  /\ job' # Idle
           /\ job'.item = item /\ job'.at = at /\ job'.image = image /\ job'.n = 0
           /\ job'.by = by
           /\ job'.n \in 0..(Size(at) - 1)
           /\ job' = [item |-> job'.item, at |-> job'.at, image |-> job'.image,
                      n |-> job'.n, by |-> job'.by]
<1>1. at # -1
  BY SizeType
<1> QED BY <1>1, SizeType DEF Job, Idle

LEMMA TablesInItems ==
    /\ RAMItems \subseteq Items /\ Items \subseteq Places /\ Tables \subseteq RAMItems
    /\ Delay \in RAMItems /\ I2C \in Tables /\ Delay \notin Tables
    /\ -1 \notin Places
BY PlacesAre DEF Items, Places, RAMItems, Tables, Analog, Digital, I2C, Delay

LEMMA RetypeType ==
    ASSUME TypeOK, NEW t \in Tables, NEW p \in Pins(t), NEW k \in Types(t)
    PROVE  /\ p + 1 \in 2..Size(t)
           /\ [live[t] EXCEPT ![p + 1] = k] \in Image(t)
<1>1. p + 1 \in 2..Size(t) /\ k \in Byte
  BY PinsAssumption, TypesAssumption
     DEF Pins, Types, Tables, Size, Byte, Analog, Digital, I2C
<1>2. live[t] \in [1..Size(t) -> Byte]
  BY TablesInItems DEF TypeOK, Image
<1> QED BY <1>1, <1>2 DEF Image

LEMMA LandingType ==
    ASSUME NEW item \in {PHAt(w) : w \in PHPins} \cup {ECAt(w) : w \in ECPins},
           NEW order, NEW image \in Calibrations
    PROVE  /\ item \in Pairs /\ item \notin RAMItems
           /\ Landing(item, order) \in Places \ RAMItems
           /\ Pair(image, order) \in Image(Landing(item, order))
<1>1. item \in Pairs
  BY PinsAssumption DEF Pairs
<1>2. Landing(item, order) \in Places \ RAMItems
  BY <1>1, PlacesAre DEF Landing
<1>3. Size(Landing(item, order)) = 8
  BY <1>2, PlacesAre DEF Size, Analog, Digital, I2C, Delay
<1>4. image \in [1..8 -> Byte]
  BY CalibrationsAssumption
<1>5. \A i \in 1..8 : ((i + 3) % 8) + 1 \in 1..8
  OBVIOUS
<1>6. Swapped(image) \in [1..8 -> Byte]
  BY <1>4, <1>5 DEF Swapped
<1>7. item \notin RAMItems
  BY <1>1, PlacesAre
<1> QED BY <1>1, <1>2, <1>3, <1>4, <1>6, <1>7 DEF Pair, Image

LEMMA ChosenType == ASSUME TypeOK, InMenu PROVE Chosen \in Nat
<1>1. newDelay \in 0..255
  BY DEF TypeOK, InMenu, Byte
<1> QED BY <1>1 DEF Chosen

LEMMA WriteType ==
    ASSUME TypeOK, job # Idle
    PROVE  /\ job.item \in Items /\ job.at \in Places /\ job.n \in 0..(Size(job.at) - 1)
           /\ job.n + 1 \in 1..Size(job.at)
           /\ job.at + job.n \in Addr /\ job.at + job.n \in Slot(job.at)
           /\ job.image[job.n + 1] \in Byte
<1>1. job.item \in Items /\ job.at \in Places /\ job.n \in 0..(Size(job.at) - 1)
      /\ job.image \in Image(job.at)
  BY DEF TypeOK
<1>2. job.n + 1 \in 1..Size(job.at)
  BY <1>1, SizeType
<1>3. job.at + job.n = job.at + (job.n + 1) - 1
  BY <1>1, SizeType
<1> QED BY <1>1, <1>2, <1>3, SlotByte DEF Image

\* The parts of TypeOK that a change of a setting touches.
RAMType == /\ live = [at \in RAMItems |-> live[at]]
           /\ \A at \in RAMItems : live[at] \in Image(at)
JobType0 ==
    \/ job = Idle
    \/ /\ job.item \in Items
       /\ job.at \in Places
       /\ job.by \in Callers
       /\ job.n \in 0..(Size(job.at) - 1)
       /\ job = [item |-> job.item, at |-> job.at, image |-> job.image,
                 n |-> job.n, by |-> job.by]
       /\ job.image \in Image(job.at)

LEMMA ChangeType ==
    ASSUME TypeOK, NEW at \in RAMItems, NEW image \in Image(at), NEW by \in Callers,
           live' = [live EXCEPT ![at] = image],
           job' = Job(at, at, image, by)
    PROVE  RAMType' /\ JobType0'
<1>1. RAMType'
  BY DEF TypeOK, RAMType
<1>2. JobType0'
  BY JobType, TablesInItems DEF JobType0
<1> QED BY <1>1, <1>2

LEMMA ChangeDelayType ==
    ASSUME TypeOK, NEW d \in Nat, NEW by \in Callers, ChangeDelay(d, by)
    PROVE  RAMType' /\ JobType0' /\ shown' \in [readable : Byte, type : {0, 1}]
<1>1. RAMType' /\ JobType0'
  BY BytesType, ChangeType, TablesInItems DEF ChangeDelay
<1>2. shown' \in [readable : Byte, type : {0, 1}]
  BY AssignDelayType DEF ChangeDelay
<1> QED BY <1>1, <1>2

LEMMA LoadedType ==
    ASSUME NEW mem \in [Addr -> Byte]
    PROVE  /\ Loaded(mem) = [at \in RAMItems |-> Loaded(mem)[at]]
           /\ \A at \in RAMItems : Loaded(mem)[at] \in Image(at)
BY ReadType, TablesInItems DEF Loaded

LEMMA InitType == Init => TypeOK
<1> SUFFICES ASSUME Init PROVE TypeOK
  OBVIOUS
<1>1. eeprom \in [Addr -> Byte]
  BY FactoryType DEF Init
<1>2. RAMType
  BY FactoryType, LoadedType DEF Init, RAMType
<1>3. shown \in [readable : Byte, type : {0, 1}]
  BY AssignDelayType DEF Init
<1>4. failures \in 0..MaxFailures
  BY MaxFailuresAssumption DEF Init
<1>5. newDelay \in {Closed} \cup Byte /\ provider \in BOOLEAN /\ job = Idle
  BY DEF Init
<1> QED BY <1>1, <1>2, <1>3, <1>4, <1>5 DEF TypeOK, RAMType

LEMMA NextType == TypeOK /\ [Next]_vars => TypeOK'
<1> SUFFICES ASSUME TypeOK, [Next]_vars PROVE TypeOK'
  OBVIOUS
<1>1. ASSUME NEW by \in Callers, Retype(by) PROVE TypeOK'
  <2>1. PICK t \in Tables : \E p \in Pins(t), k \in Types(t) :
          /\ live' = [live EXCEPT ![t] = [live[t] EXCEPT ![p + 1] = k]]
          /\ job' = Job(t, t, [live[t] EXCEPT ![p + 1] = k], by)
    BY <1>1 DEF Retype
  <2>2. RAMType' /\ JobType0'
    BY <2>1, RetypeType, ChangeType, TablesInItems
  <2> QED BY <1>1, <2>2 DEF Retype, TypeOK, RAMType, JobType0
<1>2. ASSUME NEW by \in Callers, SetConstants(by) PROVE TypeOK'
  <2>1. PICK item \in {PHAt(w) : w \in PHPins} \cup {ECAt(w) : w \in ECPins},
              image \in Calibrations, order \in Orders(by) :
          job' = Job(item, Landing(item, order), Pair(image, order), by)
    BY <1>2 DEF SetConstants
  <2>2. item \in Items
    BY PinsAssumption DEF Items, Pairs
  <2>3. JobType0'
    BY <2>1, <2>2, LandingType, JobType DEF JobType0
  <2> QED BY <1>2, <2>3 DEF SetConstants, TypeOK, JobType0
<1>3. CASE SetDelay
  <2>1. PICK d \in Delays : ChangeDelay(d, "serial")
    BY <1>3 DEF SetDelay
  <2>2. d \in Nat
    BY DelaysAssumption
  <2>3. RAMType' /\ JobType0' /\ shown' \in [readable : Byte, type : {0, 1}]
    BY <2>1, <2>2, ChangeDelayType DEF Callers
  <2> QED BY <1>3, <2>3 DEF SetDelay, TypeOK, RAMType, JobType0
<1>4. CASE OpenDelayMenu
  BY <1>4 DEF OpenDelayMenu, TypeOK, Byte
<1>5. CASE DelayDown
  BY <1>5, UpLimitAssumption DEF DelayDown, InMenu, TypeOK, Byte, Closed
<1>6. CASE DelayUp
  BY <1>6, UpLimitAssumption DEF DelayUp, InMenu, TypeOK, Byte, Closed
<1>7. CASE DelaySel
  <2>1. Chosen \in Nat
    BY <1>7, ChosenType DEF DelaySel
  <2>2. RAMType' /\ JobType0' /\ shown' \in [readable : Byte, type : {0, 1}]
    BY <1>7, <2>1, ChangeDelayType DEF DelaySel, Callers
  <2> QED BY <1>7, <2>2 DEF DelaySel, TypeOK, RAMType, JobType0
<1>8. CASE DelayBack
  BY <1>8 DEF DelayBack, TypeOK
<1>9. CASE WriteByte
  <2>1. eeprom' \in [Addr -> Byte]
    BY <1>9, WriteType DEF WriteByte, TypeOK
  <2>2. provider' \in BOOLEAN
    BY <1>9 DEF WriteByte, TypeOK, Registers, LastByte
  <2>3. JobType0'
    <3>1. CASE LastByte
      BY <1>9, <3>1 DEF WriteByte, JobType0
    <3>2. CASE ~LastByte
      <4>1. job' = [job EXCEPT !.n = job.n + 1]
        BY <1>9, <3>2 DEF WriteByte
      <4>2. job = [item |-> job.item, at |-> job.at, image |-> job.image,
                   n |-> job.n, by |-> job.by]
        BY <1>9 DEF WriteByte, TypeOK
      <4>3. job' = [item |-> job.item, at |-> job.at, image |-> job.image,
                    n |-> job.n + 1, by |-> job.by]
        BY <4>1, <4>2
      <4>4. job.n + 1 \in 0..(Size(job.at) - 1)
        BY <1>9, <3>2, WriteType, SizeType DEF WriteByte, LastByte
      <4> QED BY <1>9, <4>3, <4>4 DEF WriteByte, JobType0, TypeOK
    <3> QED BY <3>1, <3>2
  <2> QED BY <1>9, <2>1, <2>2, <2>3 DEF WriteByte, TypeOK, JobType0
<1>10. CASE Restart
  <2>1. RAMType'
    BY <1>10, LoadedType DEF Restart, TypeOK, RAMType
  <2>2. shown' \in [readable : Byte, type : {0, 1}]
    BY <1>10, AssignDelayType, ReadType, ValueType, TablesInItems DEF Restart, TypeOK
  <2>3. failures' \in 0..MaxFailures
    BY <1>10, MaxFailuresAssumption DEF Restart, TypeOK
  <2> QED BY <1>10, <2>1, <2>2, <2>3 DEF Restart, TypeOK, RAMType
<1>11. CASE UNCHANGED vars
  BY <1>11 DEF vars, TypeOK
<1> QED BY <1>1, <1>2, <1>3, <1>4, <1>5, <1>6, <1>7, <1>8, <1>9, <1>10, <1>11 DEF Next

\* The settings, the EEPROM and the write under way keep their types and bounds:
\* no call of EEPROM_writeAnything leaves the addresses of the program's own places.
THEOREM TypeCorrect == Spec => []TypeOK
<1> QED BY InitType, NextType, PTL DEF Spec

-----------------------------------------------------------------------------
(* The write under way. *)

LEMMA WriteTouches ==
    ASSUME TypeOK, WriteByte
    PROVE  /\ \A r \in Places : r # job.at => Stored(r)' = Stored(r)
           /\ \A i \in 1..Size(job.at) :
                 Read(eeprom', job.at)[i] = IF i = job.n + 1 THEN job.image[i] ELSE Stored(job.at)[i]
<1> DEFINE here == job.at + job.n
<1>1. /\ job # Idle /\ here \in Slot(job.at) /\ here \in Addr /\ job.at \in Places
      /\ job.n \in Nat
  BY WriteType DEF WriteByte
<1>2. eeprom' = [eeprom EXCEPT ![here] = job.image[job.n + 1]]
  BY DEF WriteByte
<1>3. ASSUME NEW r \in Places, r # job.at, NEW i \in 1..Size(r)
      PROVE  eeprom'[r + i - 1] = eeprom[r + i - 1]
  <2>1. r + i - 1 # here
    BY <1>1, <1>3, SlotByte, SlotsDisjoint
  <2> QED BY <1>2, <1>3, <2>1, SlotByte DEF TypeOK
<1>4. ASSUME NEW r \in Places, r # job.at PROVE Stored(r)' = Stored(r)
  BY <1>3, <1>4 DEF Stored, Read
<1>5. ASSUME NEW i \in 1..Size(job.at)
      PROVE  eeprom'[job.at + i - 1] =
                IF i = job.n + 1 THEN job.image[i] ELSE eeprom[job.at + i - 1]
  <2>1. i \in Int /\ job.at \in Int /\ job.at + i - 1 \in Addr
    BY <1>1, SizeType, SlotByte
  <2>2. (job.at + i - 1 = here) <=> (i = job.n + 1)
    BY <1>1, <2>1
  <2> QED BY <1>1, <1>2, <2>1, <2>2 DEF TypeOK
<1>6. ASSUME NEW i \in 1..Size(job.at)
      PROVE  Read(eeprom', job.at)[i] = IF i = job.n + 1 THEN job.image[i] ELSE Stored(job.at)[i]
  BY <1>5, <1>6 DEF Stored, Read
<1> QED BY <1>4, <1>6

\* A write is begun from a state where every copy is in step.
LEMMA BeginInv ==
    ASSUME TypeOK, WriteInv, job = Idle, UNCHANGED eeprom,
           NEW at \in RAMItems, NEW image \in Image(at), NEW by \in Callers,
           live' = [live EXCEPT ![at] = image],
           job' = Job(at, at, image, by),
           at \in Tables => \E q \in 2..Size(at) : \A i \in 1..Size(at) :
                               i # q => live[at][i] = image[i]
    PROVE  WriteInv'
<1>1. \A r \in RAMItems : Stored(r) = live[r]
  BY TablesInItems DEF WriteInv, Idle
<1>2. \A r \in RAMItems : Stored(r)' = Stored(r)
  BY DEF Stored, Read
<1>3. /\ job'.at = at /\ job'.item = at /\ job'.image = image /\ job'.n = 0
  BY DEF Job
<1>4. live'[at] = image /\ \A r \in RAMItems : r # at => live'[r] = live[r]
  BY DEF TypeOK
<1>5. Written'
  BY <1>3 DEF Written
<1>6. OneSlotAhead'
  BY <1>1, <1>2, <1>3 DEF OneSlotAhead
<1> QED BY <1>1, <1>2, <1>3, <1>4, <1>5, <1>6 DEF WriteInv

LEMMA InitInv == Init => WriteInv
BY TablesInItems DEF Init, WriteInv, Stored, Loaded, Idle

LEMMA NextInv == TypeOK /\ WriteInv /\ [Next]_vars => WriteInv'
<1> SUFFICES ASSUME TypeOK, WriteInv, [Next]_vars PROVE WriteInv'
  OBVIOUS
<1>1. ASSUME NEW by \in Callers, Retype(by) PROVE WriteInv'
  <2>1. job = Idle /\ UNCHANGED eeprom
    BY <1>1 DEF Retype, Free
  <2>2. PICK t \in Tables : \E p \in Pins(t), k \in Types(t) :
          /\ live' = [live EXCEPT ![t] = [live[t] EXCEPT ![p + 1] = k]]
          /\ job' = Job(t, t, [live[t] EXCEPT ![p + 1] = k], by)
    BY <1>1 DEF Retype
  <2>3. PICK p \in Pins(t), k \in Types(t) :
          /\ live' = [live EXCEPT ![t] = [live[t] EXCEPT ![p + 1] = k]]
          /\ job' = Job(t, t, [live[t] EXCEPT ![p + 1] = k], by)
    BY <2>2
  <2> DEFINE image == [live[t] EXCEPT ![p + 1] = k]
  <2>4. p + 1 \in 2..Size(t) /\ image \in Image(t)
    BY RetypeType
  <2>5. \A i \in 1..Size(t) : i # p + 1 => live[t][i] = image[i]
    BY TablesInItems DEF TypeOK, Image
  <2> HIDE DEF image
  <2> QED BY <2>1, <2>3, <2>4, <2>5, BeginInv, TablesInItems DEF image
<1>2. ASSUME NEW by \in Callers, SetConstants(by) PROVE WriteInv'
  <2>1. job = Idle /\ UNCHANGED <<eeprom, live>>
    BY <1>2 DEF SetConstants, Free
  <2>2. PICK item \in {PHAt(w) : w \in PHPins} \cup {ECAt(w) : w \in ECPins},
              image \in Calibrations, order \in Orders(by) :
          job' = Job(item, Landing(item, order), Pair(image, order), by)
    BY <1>2 DEF SetConstants
  <2>3. item \notin RAMItems /\ Landing(item, order) \notin RAMItems
    BY LandingType
  <2>4. job'.item = item /\ job'.at = Landing(item, order) /\ job'.n = 0
    BY <2>2 DEF Job
  <2>6. Written' /\ OneSlotAhead'
    BY <2>3, <2>4, TablesInItems DEF Written, OneSlotAhead
  <2>7. \A at \in RAMItems : Stored(at)' = live'[at]
    BY <2>1, TablesInItems DEF WriteInv, Idle, Stored, Read
  <2> QED BY <2>3, <2>4, <2>6, <2>7 DEF WriteInv
<1>3. ASSUME NEW d \in Nat, NEW by \in Callers, job = Idle, UNCHANGED eeprom, ChangeDelay(d, by)
      PROVE  WriteInv'
  BY <1>3, BeginInv, BytesType, TablesInItems DEF ChangeDelay
<1>4. CASE SetDelay
  <2>1. PICK d \in Delays : ChangeDelay(d, "serial")
    BY <1>4 DEF SetDelay
  <2>2. d \in Nat /\ "serial" \in Callers
    BY DelaysAssumption DEF Callers
  <2> QED BY <1>3, <1>4, <2>1, <2>2 DEF SetDelay, Free
<1>5. CASE DelaySel
  BY <1>3, <1>5, ChosenType DEF DelaySel, InMenu, Callers
<1>6. CASE UNCHANGED <<live, eeprom, job>>
  <2>1. Written' <=> Written
    BY <1>6 DEF Written, Stored, Read
  <2>2. OneSlotAhead' <=> OneSlotAhead
    BY <1>6 DEF OneSlotAhead, Stored, Read
  <2>3. \A at \in RAMItems : Stored(at)' = Stored(at)
    BY <1>6 DEF Stored, Read
  <2> QED BY <1>6, <2>1, <2>2, <2>3 DEF WriteInv
<1>7. CASE WriteByte
  <2>1. /\ job # Idle /\ live' = live /\ job.at \in Places
        /\ job.n + 1 \in 1..Size(job.at) /\ job.image \in Image(job.at)
    BY <1>7, WriteType DEF WriteByte, TypeOK
  <2>2. \A r \in RAMItems : r # job.at => Stored(r)' = live'[r]
    BY <1>7, <2>1, WriteTouches, TablesInItems DEF WriteInv
  <2>3. \A i \in 1..(job.n + 1) : Read(eeprom', job.at)[i] = job.image[i]
    <3>1. SUFFICES ASSUME NEW i \in 1..(job.n + 1)
                   PROVE  Read(eeprom', job.at)[i] = job.image[i]
      OBVIOUS
    <3>2. i \in 1..Size(job.at) /\ (i = job.n + 1 \/ i \in 1..job.n)
      BY <1>7, WriteType, SizeType DEF WriteByte
    <3> QED BY <1>7, <2>1, <3>2, WriteTouches DEF WriteInv, Written
  <2>4. CASE LastByte
    <3>1. job' = Idle /\ job.n + 1 = Size(job.at)
      BY <1>7, <2>4 DEF WriteByte, LastByte
    <3>2. Read(eeprom', job.at) = job.image
      BY <2>1, <2>3, <3>1 DEF Read, Image
    <3>3. ASSUME NEW r \in RAMItems, r = job.at PROVE Stored(r)' = live'[r]
      BY <2>1, <3>2, <3>3 DEF WriteInv, Stored
    <3>4. \A r \in RAMItems : Stored(r)' = live'[r]
      BY <2>2, <3>3
    <3> QED BY <3>1, <3>4 DEF WriteInv
  <2>5. CASE ~LastByte
    <3>1. job' = [job EXCEPT !.n = job.n + 1]
      BY <1>7, <2>5 DEF WriteByte
    <3>2. job = [item |-> job.item, at |-> job.at, image |-> job.image,
                 n |-> job.n, by |-> job.by]
      BY <2>1 DEF TypeOK
    <3>3. /\ job'.item = job.item /\ job'.at = job.at /\ job'.image = job.image
          /\ job'.n = job.n + 1
      BY <3>1, <3>2
    <3>4. Written'
      BY <2>3, <3>3 DEF Written, Stored
    <3>5. ASSUME NEW q \in 2..Size(job.at),
                 \A i \in 1..Size(job.at) : i # q => Stored(job.at)[i] = job.image[i]
          PROVE  \A i \in 1..Size(job.at) : i # q => Read(eeprom', job.at)[i] = job.image[i]
      BY <1>7, <3>5, WriteTouches
    <3>6. OneSlotAhead'
      BY <2>1, <3>3, <3>5 DEF WriteInv, OneSlotAhead, Stored
    <3> QED BY <2>1, <2>2, <3>3, <3>4, <3>6 DEF WriteInv
  <2> QED BY <2>4, <2>5
<1>8. CASE Restart
  BY <1>8, TablesInItems DEF Restart, WriteInv, Loaded, Stored, Read, Idle
<1> QED BY <1>1, <1>2, <1>4, <1>5, <1>6, <1>7, <1>8
       DEF Next, OpenDelayMenu, DelayDown, DelayUp, DelayBack, vars

THEOREM Inductive == Spec => [](TypeOK /\ WriteInv)
<1>1. Init => TypeOK /\ WriteInv
  BY InitType, InitInv
<1>2. TypeOK /\ WriteInv /\ [Next]_vars => (TypeOK /\ WriteInv)'
  BY NextType, NextInv
<1> QED BY <1>1, <1>2, PTL DEF Spec

\* Whenever no write is under way, the EEPROM holds the type tables and the delay
\* that the program works with: restarting changes none of them.
THEOREM StoredWhenIdleHolds == Spec => []StoredWhenIdle
<1>1. WriteInv => StoredWhenIdle
  BY TablesInItems DEF WriteInv, StoredWhenIdle, Idle
<1> QED BY <1>1, Inductive, PTL

\* Whatever is written, in whichever order the compiler evaluates arguments and wherever
\* the power fails, no byte of an item changes but of the one at the place written to.
THEOREM OthersUntouchedHolds == Spec => OthersUntouched
<1>1. TypeOK /\ [Next]_vars =>
        [\A at \in Items : at # job.at => Stored(at)' = Stored(at)]_vars
  <2> SUFFICES ASSUME TypeOK, [Next]_vars, NEW at \in Items, at # job.at
               PROVE  Stored(at)' = Stored(at)
    OBVIOUS
  <2>1. CASE WriteByte
    BY <2>1, WriteTouches, TablesInItems DEF WriteByte
  <2>2. CASE UNCHANGED eeprom
    BY <2>2 DEF Stored, Read
  <2> QED BY <2>1, <2>2 DEF Next, vars, Retype, SetConstants, SetDelay, OpenDelayMenu,
            DelayDown, DelayUp, DelaySel, DelayBack, Restart
<1>2. []TypeOK /\ [][Next]_vars => OthersUntouched
  BY <1>1, PTL DEF OthersUntouched
<1> QED BY <1>2, TypeCorrect, PTL DEF Spec

\* When the RTC becomes the source of the time, the I2C table that names it is in
\* use and stored.
THEOREM RegisteredIsKeptHolds == Spec => RegisteredIsKept
<1>1. TypeOK /\ WriteInv /\ TypeOK' /\ WriteInv' /\ [Next]_vars =>
        [~provider /\ provider' => live'[I2C][2] = 3 /\ Stored(I2C)' = live'[I2C]]_vars
  <2> SUFFICES ASSUME TypeOK, WriteInv, WriteInv', [Next]_vars, ~provider, provider'
               PROVE  live'[I2C][2] = 3 /\ Stored(I2C)' = live'[I2C]
    OBVIOUS
  <2>1. CASE WriteByte
    <3>1. Registers
      BY <2>1 DEF WriteByte
    <3>2. job' = Idle /\ live' = live
      BY <2>1, <3>1 DEF WriteByte, Registers
    <3> QED BY <3>1, <3>2, TablesInItems DEF WriteInv, Registers, Idle
  <2>2. CASE Restart
    <3>1. live'[I2C] = Read(eeprom, I2C) /\ eeprom' = eeprom
      BY <2>2, TablesInItems DEF Restart, Loaded
    <3> QED BY <2>2, <3>1 DEF Restart, Stored
  <2>3. CASE UNCHANGED provider
    BY <2>3
  <2> QED BY <2>1, <2>2, <2>3 DEF Next, vars, Retype, SetConstants, SetDelay, OpenDelayMenu,
            DelayDown, DelayUp, DelaySel, DelayBack
<1>2. [](TypeOK /\ WriteInv) /\ [][Next]_vars => RegisteredIsKept
  BY <1>1, PTL DEF RegisteredIsKept
<1> QED BY <1>2, Inductive, PTL DEF Spec

-----------------------------------------------------------------------------
(* The tables keep their promise. *)

\* A pin's type in use, and the one stored.
InUse == [t \in Tables |-> [p \in 1..(Size(t) - 1) |-> live[t][p + 1]]]
Kept == [t \in Tables |-> [p \in 1..(Size(t) - 1) |-> Stored(t)[p + 1]]]

LEMMA FactoryTables ==
    ASSUME NEW t \in Tables, NEW p \in 1..(Size(t) - 1)
    PROVE  Read(Factory, t)[p + 1] = 1
<1> DEFINE a == t + (p + 1) - 1
<1>1. t \in Places /\ p + 1 \in 1..Size(t) /\ p + 1 # 1
  BY SizeType, TablesInItems
<1>2. a \in Slot(t) /\ a \in Addr
  BY <1>1, SlotByte
<1>3. Holder(a) \in Places /\ a \in Slot(Holder(a))
  BY <1>2 DEF Holder, Addr
<1>4. Holder(a) = t
  BY <1>1, <1>2, <1>3, SlotsDisjoint
<1>5. a - t + 1 = p + 1
  BY <1>1, SizeType
<1>6. Factory[a] = FactoryItem(t)[p + 1]
  BY <1>2, <1>4, <1>5 DEF Factory
<1>7. FactoryItem(t)[p + 1] = 1
  BY <1>1 DEF FactoryItem
<1> QED BY <1>1, <1>6, <1>7 DEF Read

LEMMA InitPromise == Init => Promise!Init
<1> SUFFICES ASSUME Init PROVE Promise!Init
  OBVIOUS
<1>1. \A t \in Tables : live[t] = Read(Factory, t) /\ Stored(t) = Read(Factory, t)
  BY TablesInItems DEF Init, Loaded, Stored
<1>2. Kept = InUse
  BY <1>1 DEF Kept, InUse
<1>3. \A t \in Tables : \A p \in 1..(Size(t) - 1) : live[t][p + 1] = 1
  BY <1>1, FactoryTables
<1> QED BY <1>2, <1>3 DEF Promise!Init, Kept, InUse

LEMMA RetypePromise ==
    ASSUME TypeOK, WriteInv, NEW by \in Callers, Retype(by)
    PROVE  Promise!Change
<1>1. Kept = InUse /\ Kept' = Kept
  <2>1. job.at = -1 /\ eeprom' = eeprom
    BY DEF Retype, Free, Idle
  <2>2. \A s \in Tables : Stored(s) = live[s]
    BY <2>1, TablesInItems DEF WriteInv
  <2> QED BY <2>1, <2>2 DEF Kept, InUse, Stored
<1>2. PICK t \in Tables : \E p \in Pins(t), k \in Types(t) :
        live' = [live EXCEPT ![t] = [live[t] EXCEPT ![p + 1] = k]]
  BY DEF Retype
<1>3. PICK p \in Pins(t), k \in Types(t) :
        live' = [live EXCEPT ![t] = [live[t] EXCEPT ![p + 1] = k]]
  BY <1>2
<1>4. p \in 1..(Size(t) - 1)
  BY PinsAssumption DEF Pins, Tables, Size, Analog, Digital, I2C
<1>5. k \in 1..(IF t = Analog THEN 4 ELSE IF t = Digital THEN 6 ELSE 3)
  BY TypesAssumption DEF Types
<1>6. live'[t] = [live[t] EXCEPT ![p + 1] = k] /\ \A s \in Tables : s # t => live'[s] = live[s]
  BY <1>3, TablesInItems DEF TypeOK
<1>7. \A i \in 1..(Size(t) - 1) : live'[t][i + 1] = IF i = p THEN k ELSE live[t][i + 1]
  <2>1. Size(t) \in Nat /\ live[t] \in [1..Size(t) -> Byte]
    <3>1. t \in RAMItems /\ t \in Places
      BY TablesInItems
    <3> QED BY <3>1, SizeType DEF TypeOK, Image
  <2>2. ASSUME NEW i \in 1..(Size(t) - 1)
        PROVE  live'[t][i + 1] = IF i = p THEN k ELSE live[t][i + 1]
    <3>1. i + 1 \in 1..Size(t) /\ (i + 1 = p + 1 <=> i = p)
      BY <2>1, <1>4
    <3> QED BY <1>6, <2>1, <3>1
  <2> QED BY <2>2
<1>8. InUse' = [InUse EXCEPT ![t] = [InUse[t] EXCEPT ![p] = k]]
  <2>1. [i \in 1..(Size(t) - 1) |-> live'[t][i + 1]] = [InUse[t] EXCEPT ![p] = k]
    BY <1>4, <1>7 DEF InUse
  <2> QED BY <1>6, <2>1 DEF InUse
<1> DEFINE sockets == [u \in Tables |-> 1..(Size(u) - 1)]
           kinds == [u \in Tables |-> 1..(IF u = Analog THEN 4 ELSE IF u = Digital THEN 6 ELSE 3)]
<1>9. p \in sockets[t] /\ k \in kinds[t]
  BY <1>4, <1>5
<1>10. \E u \in Tables : \E i \in sockets[u], j \in kinds[u] :
          InUse' = [InUse EXCEPT ![u] = [InUse[u] EXCEPT ![i] = j]]
  <2> HIDE DEF sockets, kinds
  <2> QED BY <1>8, <1>9
<1> QED BY <1>1, <1>10 DEF Promise!Change, Kept, InUse

LEMMA WritePromise ==
    ASSUME TypeOK, WriteInv, WriteByte
    PROVE  Promise!Keep \/ UNCHANGED <<InUse, Kept>>
<1>1. InUse' = InUse
  BY DEF WriteByte, InUse
<1>2. /\ \A r \in Tables : r # job.at => Stored(r)' = Stored(r)
      /\ \A r \in Tables : r # job.at => Stored(r) = live[r]
  BY WriteTouches, TablesInItems DEF WriteInv
<1>3. CASE job.at \notin Tables
  BY <1>1, <1>2, <1>3 DEF Kept
<1>4. CASE job.at \in Tables
  <2>1. PICK q \in 2..Size(job.at) : \A i \in 1..Size(job.at) :
              i # q => Stored(job.at)[i] = job.image[i]
    BY <1>4 DEF WriteInv, OneSlotAhead, WriteByte
  <2>2. job.image = live[job.at] /\ job.at \in Places /\ Size(job.at) \in Nat
    BY <1>4, SizeType, TablesInItems DEF WriteInv, WriteByte
  <2>3. CASE job.n + 1 = q
    <3>1. \A i \in 1..Size(job.at) : Read(eeprom', job.at)[i] = live[job.at][i]
      BY <2>1, <2>2, <2>3, WriteTouches
    <3>2. \A t \in Tables : \A p \in 1..(Size(t) - 1) : Stored(t)'[p + 1] = live[t][p + 1]
      BY <1>2, <2>2, <3>1, SizeType, TablesInItems DEF Stored
    <3>3. Kept' = InUse
      BY <3>2 DEF Kept, InUse
    <3> QED BY <1>1, <3>3 DEF Promise!Keep, Kept, InUse
  <2>4. CASE job.n + 1 # q
    <3>1. \A i \in 1..Size(job.at) : Read(eeprom', job.at)[i] = Stored(job.at)[i]
      BY <2>1, <2>4, WriteTouches, WriteType DEF WriteByte
    <3>2. \A t \in Tables : \A p \in 1..(Size(t) - 1) : Stored(t)'[p + 1] = Stored(t)[p + 1]
      BY <1>2, <2>2, <3>1, SizeType, TablesInItems DEF Stored
    <3>3. Kept' = Kept
      BY <3>2 DEF Kept
    <3> QED BY <1>1, <3>3
  <2> QED BY <2>3, <2>4
<1> QED BY <1>3, <1>4

LEMMA RestartPromise == ASSUME TypeOK, Restart PROVE Promise!Restart
<1>1. InUse' = Kept
  BY TablesInItems DEF Restart, InUse, Kept, Loaded, Stored
<1>2. Kept' = Kept
  BY DEF Restart, Kept, Stored
<1> QED BY <1>1, <1>2 DEF Promise!Restart, InUse, Kept

LEMMA DelayPromise ==
    ASSUME TypeOK, NEW d, NEW by, ChangeDelay(d, by), UNCHANGED eeprom
    PROVE  UNCHANGED <<InUse, Kept>>
<1>1. \A t \in Tables : live'[t] = live[t]
  BY TablesInItems DEF ChangeDelay, TypeOK
<1> QED BY <1>1 DEF InUse, Kept, Stored

\* However often the power fails in the middle of a write, each type table comes back
\* as it was before or after the last change, and what is in use is stored before the
\* next change: every step of Settings is a step of SettingsPromise or none.
THEOREM PromiseIsKept == Spec => PromiseKept
<1>1. TypeOK /\ WriteInv /\ [Next]_vars => [Promise!Next]_<<InUse, Kept>>
  <2> SUFFICES ASSUME TypeOK, WriteInv, [Next]_vars
               PROVE  Promise!Next \/ UNCHANGED <<InUse, Kept>>
    OBVIOUS
  <2>1. ASSUME NEW by \in Callers, Retype(by) PROVE Promise!Next
    BY <2>1, RetypePromise DEF Promise!Next
  <2>2. CASE SetDelay
    BY <2>2, DelayPromise DEF SetDelay
  <2>3. CASE DelaySel
    BY <2>3, DelayPromise DEF DelaySel
  <2>4. CASE WriteByte
    BY <2>4, WritePromise DEF Promise!Next
  <2>5. CASE Restart
    BY <2>5, RestartPromise DEF Promise!Next
  <2>6. CASE UNCHANGED <<live, eeprom>>
    BY <2>6 DEF InUse, Kept, Stored
  <2> QED BY <2>1, <2>2, <2>3, <2>4, <2>5, <2>6
         DEF Next, vars, SetConstants, OpenDelayMenu, DelayDown, DelayUp, DelayBack
<1>2. [](TypeOK /\ WriteInv) /\ [][Next]_vars => [][Promise!Next]_<<InUse, Kept>>
  BY <1>1, PTL
<1>3. Promise!Init /\ [][Promise!Next]_<<InUse, Kept>> => PromiseKept
  BY DEF PromiseKept, Promise!Spec, InUse, Kept
<1> QED BY <1>2, <1>3, InitPromise, Inductive, PTL DEF Spec

-----------------------------------------------------------------------------
(* The delay. *)

\* delayReadable never stands for more seconds than the delay has; below 66 seconds it
\* is a number from 1 to 65. The keys count from 1 to UpLimit + 1, and down from where
\* the menu was opened.
DelayInv ==
    /\ shown.readable * 1000 <= Value(live[Delay])
    /\ Value(live[Delay]) >= 1000 /\ Value(live[Delay]) < 66000 => shown.readable >= 1
    /\ newDelay # Closed =>
         /\ newDelay <= UpLimit + 1 \/ newDelay <= shown.readable
         /\ newDelay >= 1 \/ shown.readable = 0

LEMMA DivMod ==
    ASSUME NEW a \in Int, NEW w \in Nat \ {0}
    PROVE  a \div w \in Int /\ a % w \in 0 .. w - 1 /\ a = w * (a \div w) + (a % w)
OBVIOUS

LEMMA DivUnique ==
    ASSUME NEW w \in Nat \ {0}, NEW q \in Int, NEW r \in Int, 0 <= r, r < w
    PROVE  (w * q + r) \div w = q /\ (w * q + r) % w = r
OBVIOUS

\* An unsigned long of 32 bits is what its bytes say.
LEMMA ValueOfBytes ==
    ASSUME NEW d \in Nat, d \div 65536 < 65536
    PROVE  Value(Bytes(d)) = d
<1> DEFINE h == d \div 65536  l == d % 65536
           b == l % 256  c == l \div 256  e == h % 256  f == h \div 256
<1>1. h \in Int /\ l \in Int /\ 0 <= l /\ l < 65536 /\ d = 65536 * h + l
  BY DivMod
<1>2. 0 <= h /\ h < 65536
  BY <1>1
<1> HIDE DEF h, l
<1>3. b \in Int /\ c \in Int /\ 0 <= b /\ b < 256 /\ l = 256 * c + b
  BY <1>1, DivMod
<1>4. e \in Int /\ f \in Int /\ 0 <= e /\ e < 256 /\ h = 256 * f + e
  BY <1>1, DivMod
<1> HIDE DEF b, c, e, f
<1>5. 0 <= c /\ c < 256 /\ 0 <= f /\ f < 256
  BY <1>1, <1>2, <1>3, <1>4
<1> DEFINE g == 256 * h + c
<1>6. g \in Int /\ g = 256 * h + c /\ d = 256 * g + b
  BY <1>1, <1>3
<1> HIDE DEF g
<1>7. d % 256 = b /\ (d \div 256) % 256 = c
  <2>1. \A q, r \in Int : 0 <= r /\ r < 256 => (256 * q + r) % 256 = r /\ (256 * q + r) \div 256 = q
    OBVIOUS
  <2>2. (256 * g + b) % 256 = b /\ (256 * g + b) \div 256 = g /\ (256 * h + c) % 256 = c
    BY <2>1, <1>1, <1>3, <1>5, <1>6
  <2> QED BY <1>6, <2>2
<1>8. (d \div 65536) % 256 = e
  BY DEF e, h
<1>9. (d \div 16777216) % 256 = f
  <2>1. 65536 * e + l \in Int /\ 0 <= 65536 * e + l /\ 65536 * e + l < 16777216
        /\ d = 16777216 * f + (65536 * e + l)
    BY <1>1, <1>4
  <2>2. d \div 16777216 = f
    BY SMTT(30), <2>1, <1>4, DivUnique
  <2>3. f = 256 * 0 + f
    BY <1>4
  <2> QED BY <2>2, <2>3, <1>4, <1>5, DivUnique
<1>10. Bytes(d) = <<b, c, e, f>>
  BY <1>7, <1>8, <1>9 DEF Bytes
<1>11. d = b + 256 * c + 65536 * e + 16777216 * f
  BY <1>1, <1>3, <1>4
<1> QED BY <1>10, <1>11 DEF Value

LEMMA ByteOf == ASSUME NEW q \in Nat PROVE q % 256 \in 0..255 /\ q % 256 <= q
<1>1. q \div 256 >= 0
  OBVIOUS
<1> QED BY <1>1, DivMod

LEMMA ReadableBounds ==
    ASSUME NEW d \in Nat
    PROVE  /\ AssignDelay(d).readable * 1000 <= d
           /\ d >= 1000 /\ d < 66000 => AssignDelay(d).readable >= 1
<1>1. CASE d % 60000 = 0
  <2> DEFINE m == d \div 60000
  <2>1. m \in Nat /\ d = 60000 * m
    BY <1>1, DivMod
  <2>2. AssignDelay(d).readable = m % 256
    BY <1>1 DEF AssignDelay
  <2> HIDE DEF m
  <2>3. m % 256 \in Nat /\ m % 256 <= m
    BY <2>1, ByteOf
  <2>4. d >= 1000 /\ d < 66000 => m = 1
    BY <2>1
  <2>5. 1 % 256 = 1
    OBVIOUS
  <2> QED BY <2>1, <2>2, <2>3, <2>4, <2>5
<1>2. CASE d % 60000 # 0
  <2> DEFINE m == d \div 1000  r == d % 1000
  <2>1. m \in Nat /\ r \in 0..999 /\ d = 1000 * m + r
    BY DivMod
  <2>2. AssignDelay(d).readable = m % 256
    BY <1>2 DEF AssignDelay
  <2> HIDE DEF m, r
  <2>3. m % 256 \in Nat /\ m % 256 <= m
    BY <2>1, ByteOf
  <2>4. d >= 1000 /\ d < 66000 => 1 <= m /\ m < 256
    BY <2>1
  <2>5. m < 256 => m % 256 = m
    <3>1. m < 256 => (256 * 0 + m) % 256 = m
      BY <2>1, DivUnique
    <3>2. 256 * 0 + m = m
      BY <2>1
    <3> QED BY <3>1, <3>2
  <2> QED BY <2>1, <2>2, <2>3, <2>4, <2>5
<1> QED BY <1>1, <1>2

\* What KeySel computes, in which units.
LEMMA ChosenIs ==
    ASSUME TypeOK, DelayInv, InMenu
    PROVE  /\ newDelay \in 0..255 /\ newDelay * 1000 \in Nat
           /\ Chosen \in Nat /\ Chosen \div 65536 < 65536
           /\ newDelay <= 65 => Chosen = newDelay * (IF shown.type = 0 THEN 1000 ELSE 60000)
           /\ shown.type # 0 => Chosen = newDelay * 60000
           /\ newDelay > 65 => newDelay * 1000 <= Value(live[Delay])
<1>1. newDelay \in 0..255 /\ UpLimit \in 1..64
  BY UpLimitAssumption DEF TypeOK, InMenu, Byte
<1>2. Value(live[Delay]) \in Nat /\ shown.readable \in 0..255
  BY ValueType, TablesInItems DEF TypeOK, Byte
<1>3. newDelay > 65 => newDelay * 1000 <= Value(live[Delay])
  BY <1>1, <1>2 DEF DelayInv, InMenu
<1>4. CASE shown.type = 0
  <2>1. Chosen = (newDelay * 1000) % 65536 /\ newDelay * 1000 \in Nat
    BY <1>1, <1>4 DEF Chosen
  <2>2. Chosen \in Nat /\ Chosen < 65536
    BY <2>1
  <2>3. (65536 * 0 + Chosen) \div 65536 = 0 /\ 65536 * 0 + Chosen = Chosen
    BY <2>2, DivUnique
  <2>4. newDelay <= 65 => Chosen = newDelay * 1000
    BY <1>1, <2>1
  <2> QED BY <1>1, <1>3, <1>4, <2>2, <2>3, <2>4
<1>5. CASE shown.type # 0
  <2>1. Chosen = newDelay * 60000 /\ Chosen \in Nat
    BY <1>1, <1>5 DEF Chosen
  <2>2. Chosen \div 65536 < 65536
    BY <1>1, <2>1
  <2> QED BY <1>1, <1>3, <1>5, <2>1, <2>2
<1> QED BY <1>4, <1>5

LEMMA DelayChanged ==
    ASSUME TypeOK, NEW d \in Nat, d \div 65536 < 65536, NEW by, ChangeDelay(d, by)
    PROVE  Value(live'[Delay]) = d /\ shown'.readable = AssignDelay(d).readable
<1>1. live'[Delay] = Bytes(d)
  BY TablesInItems DEF ChangeDelay, TypeOK
<1> QED BY <1>1, ValueOfBytes DEF ChangeDelay

LEMMA DelayInit == Init => DelayInv
<1> SUFFICES ASSUME Init PROVE DelayInv
  OBVIOUS
<1>1. Size(Delay) = 4 /\ Delay \in Places /\ Delay = 200 /\ Delay \notin Tables
  BY TablesInItems DEF Size, Analog, Digital, I2C, Delay
<1>2. ASSUME NEW i \in 1..4 PROVE Factory[Delay + i - 1] = Bytes(1000)[i]
  <2> DEFINE a == Delay + i - 1
  <2>1. a \in Slot(Delay) /\ a \in Addr
    BY <1>1, SlotByte
  <2>2. Holder(a) \in Places /\ a \in Slot(Holder(a))
    BY <2>1 DEF Holder, Addr
  <2>3. Holder(a) = Delay
    BY <1>1, <2>1, <2>2, SlotsDisjoint
  <2>4. a - Delay + 1 = i
    BY <1>1
  <2>5. FactoryItem(Delay) = Bytes(1000)
    BY <1>1 DEF FactoryItem
  <2> HIDE DEF a
  <2>6. Factory[a] = FactoryItem(Holder(a))[a - Holder(a) + 1]
    BY <2>1 DEF Factory
  <2> QED BY <2>3, <2>4, <2>5, <2>6 DEF a
<1>3. live[Delay] = Read(Factory, Delay)
  BY TablesInItems DEF Init, Loaded
<1>4. \A i \in 1..4 : live[Delay][i] = Bytes(1000)[i]
  BY <1>1, <1>2, <1>3 DEF Read
<1>5. Value(live[Delay]) = 1000
  BY <1>4 DEF Value, Bytes
<1>6. shown.readable = 1
  BY DEF Init, AssignDelay
<1>7. newDelay = Closed
  BY DEF Init
<1> QED BY <1>5, <1>6, <1>7 DEF DelayInv

LEMMA NewDelayInv ==
    ASSUME TypeOK, NEW d \in Nat, d \div 65536 < 65536, NEW by, ChangeDelay(d, by),
           newDelay' = Closed
    PROVE  DelayInv' /\ Value(live'[Delay]) = d
BY DelayChanged, ReadableBounds DEF DelayInv

LEMMA DelayNext == TypeOK /\ DelayInv /\ [Next]_vars => DelayInv'
<1> SUFFICES ASSUME TypeOK, DelayInv, [Next]_vars PROVE DelayInv'
  OBVIOUS
<1>1. ASSUME NEW by \in Callers, Retype(by) PROVE DelayInv'
  <2>1. PICK t \in Tables : \E image : live' = [live EXCEPT ![t] = image]
    BY <1>1 DEF Retype
  <2>2. live'[Delay] = live[Delay]
    BY <2>1, TablesInItems DEF TypeOK
  <2> QED BY <1>1, <2>2 DEF Retype, DelayInv
<1>2. CASE SetDelay
  <2>1. PICK d \in Delays : ChangeDelay(d, "serial")
    BY <1>2 DEF SetDelay
  <2>2. d \in Nat /\ d \div 65536 < 65536 /\ newDelay' = Closed
    BY <1>2, DelaysAssumption DEF SetDelay, Free
  <2> QED BY <2>1, <2>2, NewDelayInv
<1>3. CASE DelaySel
  <2>1. ChangeDelay(Chosen, "menu") /\ newDelay' = Closed /\ InMenu
    BY <1>3 DEF DelaySel
  <2> QED BY <2>1, ChosenIs, NewDelayInv
<1>4. CASE OpenDelayMenu
  BY <1>4 DEF OpenDelayMenu, DelayInv, TypeOK, Byte, Closed
<1>5. CASE DelayDown
  <2>1. newDelay \in 0..255 /\ UpLimit \in 1..64 /\ live' = live /\ shown.readable \in 0..255
    BY <1>5, UpLimitAssumption DEF DelayDown, InMenu, TypeOK, Byte
  <2>2. shown'.readable = shown.readable
    BY <1>5 DEF DelayDown, TypeOK
  <2>3. newDelay' = UpLimit \/ (newDelay > 1 /\ newDelay' = newDelay - 1)
    BY <1>5, <2>1 DEF DelayDown
  <2>4. newDelay <= UpLimit + 1 \/ newDelay <= shown.readable
    BY <1>5 DEF DelayDown, InMenu, DelayInv
  <2>5. /\ newDelay' <= UpLimit + 1 \/ newDelay' <= shown.readable
        /\ newDelay' >= 1
    BY <2>1, <2>3, <2>4
  <2> QED BY <2>1, <2>2, <2>5 DEF DelayInv
<1>6. CASE DelayUp
  <2>1. newDelay \in 0..255 /\ UpLimit \in 1..64 /\ live' = live /\ shown.readable \in 0..255
    BY <1>6, UpLimitAssumption DEF DelayUp, InMenu, TypeOK, Byte
  <2>2. shown'.readable = shown.readable
    BY <1>6 DEF DelayUp, TypeOK
  <2>3. newDelay' = 1 \/ (newDelay <= UpLimit /\ newDelay' = newDelay + 1)
    BY <1>6, <2>1 DEF DelayUp
  <2> QED BY <1>6, <2>1, <2>2, <2>3 DEF DelayInv, DelayUp, InMenu
<1>7. CASE DelayBack
  BY <1>7 DEF DelayBack, DelayInv
<1>8. ASSUME UNCHANGED <<live, shown, newDelay>> PROVE DelayInv'
  BY <1>8 DEF DelayInv
<1>9. CASE Restart
  <2>1. Value(Read(eeprom, Delay)) \in Nat
    BY ReadType, ValueType, TablesInItems DEF TypeOK
  <2>2. /\ live'[Delay] = Read(eeprom, Delay) /\ newDelay' = Closed
        /\ shown' = AssignDelay(Value(Read(eeprom, Delay)))
    BY <1>9, TablesInItems DEF Restart, Loaded
  <2> QED BY <2>1, <2>2, ReadableBounds DEF DelayInv
<1> QED BY <1>1, <1>2, <1>3, <1>4, <1>5, <1>6, <1>7, <1>8, <1>9
       DEF Next, SetConstants, WriteByte, vars

LEMMA DelayHolds == Spec => [](TypeOK /\ WriteInv /\ DelayInv)
<1>1. Init => DelayInv
  BY DelayInit
<1>2. TypeOK /\ DelayInv /\ [Next]_vars => DelayInv'
  BY DelayNext
<1> QED BY <1>1, <1>2, Inductive, PTL DEF Spec

\* Who begins to store a delay.
LEMMA StoresDelay ==
    ASSUME TypeOK, Next, job = Idle, job'.item = Delay
    PROVE  DelaySel \/ (SetDelay /\ job'.by = "serial")
<1>1. ASSUME NEW by \in Callers, Retype(by) PROVE FALSE
  <2>1. PICK t \in Tables : job'.item = t
    BY <1>1 DEF Retype, Job
  <2> QED BY <2>1, TablesInItems
<1>2. ASSUME NEW by \in Callers, SetConstants(by) PROVE FALSE
  <2>1. PICK item \in {PHAt(w) : w \in PHPins} \cup {ECAt(w) : w \in ECPins} : job'.item = item
    BY <1>2 DEF SetConstants, Job
  <2>2. item \notin RAMItems
    BY <2>1, PinsAssumption, PlacesAre DEF Pairs
  <2> QED BY <2>1, <2>2, TablesInItems
<1>3. ASSUME SetDelay PROVE job'.by = "serial"
  BY <1>3 DEF SetDelay, ChangeDelay, Job
<1>4. ASSUME job' = Idle PROVE FALSE
  BY <1>4 DEF Idle, Delay
<1>5. ASSUME WriteByte PROVE FALSE
  BY <1>5 DEF WriteByte
<1> QED BY <1>1, <1>2, <1>3, <1>4, <1>5
       DEF Next, OpenDelayMenu, DelayDown, DelayUp, DelayBack, Restart

\* For any delays asked for, any torn by power failures, and whatever is counted in the
\* delay menu: confirming it sets what it shows, but for a number above 65 that is left
\* from a delay of at least as many seconds.
THEOREM ConfirmedDelayHolds == Spec => ConfirmedDelay
<1>1. TypeOK /\ DelayInv /\ [Next]_vars =>
        [job'.by = "menu" /\ job'.item = Delay /\ job = Idle =>
          \/ Value(live'[Delay]) = newDelay * (IF shown.type = 0 THEN 1000 ELSE 60000)
          \/ /\ shown.type = 0 /\ newDelay > 65
             /\ newDelay * 1000 <= Value(live[Delay])]_vars
  <2> SUFFICES ASSUME TypeOK, DelayInv, Next, job'.by = "menu", job'.item = Delay, job = Idle
               PROVE  \/ Value(live'[Delay]) = newDelay * (IF shown.type = 0 THEN 1000 ELSE 60000)
                      \/ /\ shown.type = 0 /\ newDelay > 65
                         /\ newDelay * 1000 <= Value(live[Delay])
    OBVIOUS
  <2>1. InMenu /\ ChangeDelay(Chosen, "menu")
    BY StoresDelay DEF DelaySel
  <2>2. Value(live'[Delay]) = Chosen
    BY <2>1, ChosenIs, DelayChanged
  <2>3. newDelay \in 0..255
    BY <2>1, ChosenIs
  <2> QED BY <2>1, <2>2, <2>3, ChosenIs
<1>2. [](TypeOK /\ DelayInv) /\ [][Next]_vars => ConfirmedDelay
  BY <1>1, PTL DEF ConfirmedDelay
<1> QED BY <1>2, DelayHolds, PTL DEF Spec

\* A wait of loop() that looks at the keys goes on doing so until a client asks for less
\* than a second, a delay is torn by a power failure, or a delay of 66 seconds or more is
\* replaced in the menu: for every history of delays, menus and failures.
THEOREM WaitKeptHolds == Spec => WaitKept
<1>1. TypeOK /\ WriteInv /\ DelayInv /\ [Next]_vars =>
        [Waits /\ ~Waits' =>
          \/ job'.by = "serial" /\ job'.item = Delay
          \/ job.at = Delay /\ failures' # failures
          \/ Value(live[Delay]) >= 66000]_vars
  <2> SUFFICES ASSUME TypeOK, WriteInv, DelayInv, Next, Waits, ~Waits'
               PROVE  \/ job'.by = "serial" /\ job'.item = Delay
                      \/ job.at = Delay /\ failures' # failures
                      \/ Value(live[Delay]) >= 66000
    OBVIOUS
  <2>1. Value(live[Delay]) \in Nat /\ failures \in Nat
    BY ValueType, TablesInItems, MaxFailuresAssumption DEF TypeOK
  <2>2. live'[Delay] # live[Delay]
    BY DEF Waits
  <2>3. ASSUME NEW by \in Callers, Retype(by) PROVE FALSE
    <3>1. PICK t \in Tables : \E image : live' = [live EXCEPT ![t] = image]
      BY <2>3 DEF Retype
    <3> QED BY <2>2, <3>1, TablesInItems DEF TypeOK
  <2>4. ASSUME SetDelay PROVE job'.by = "serial" /\ job'.item = Delay
    BY <2>4 DEF SetDelay, ChangeDelay, Job
  <2>5. ASSUME DelaySel PROVE Value(live[Delay]) >= 66000
    <3>1. InMenu /\ ChangeDelay(Chosen, "menu")
      BY <2>5 DEF DelaySel
    <3>2. Value(live'[Delay]) = Chosen /\ Chosen \in Nat /\ newDelay \in 0..255
      BY <3>1, ChosenIs, DelayChanged
    <3>3. Chosen < 1000
      BY <3>2 DEF Waits
    <3>4. CASE newDelay > 65
      BY <3>1, <3>4, <2>1, <3>2, ChosenIs
    <3>5. CASE newDelay <= 65
      <4>1. Chosen = newDelay * (IF shown.type = 0 THEN 1000 ELSE 60000)
        BY <3>1, <3>5, ChosenIs
      <4>2. newDelay = 0
        BY <3>2, <3>3, <4>1
      <4>3. shown.readable = 0
        BY <3>1, <4>2 DEF DelayInv, InMenu
      <4> QED BY <2>1, <4>3 DEF DelayInv, Waits
    <3> QED BY <3>2, <3>4, <3>5
  <2>6. ASSUME Restart PROVE job.at = Delay /\ failures' # failures
    <3>1. failures' # failures
      BY <2>1, <2>6 DEF Restart
    <3>2. live'[Delay] = Stored(Delay)
      BY <2>6, TablesInItems DEF Restart, Loaded, Stored
    <3>3. job.at = Delay
      BY <2>2, <3>2, TablesInItems DEF WriteInv
    <3> QED BY <3>1, <3>3
  <2>7. ~UNCHANGED live
    BY <2>2
  <2> QED BY <2>3, <2>4, <2>5, <2>6, <2>7
         DEF Next, SetConstants, OpenDelayMenu, DelayDown, DelayUp, DelayBack, WriteByte
<1>2. [](TypeOK /\ WriteInv /\ DelayInv) /\ [][Next]_vars => WaitKept
  BY <1>1, PTL DEF WaitKept
<1> QED BY <1>2, DelayHolds, PTL DEF Spec

=============================================================================
