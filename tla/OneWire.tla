------------------------------ MODULE OneWire ------------------------------
(***************************************************************************)
(* A 1-Wire bus: what OneWire.cpp sends, bit by bit, what the devices on   *)
(* the wire answer together, and its two users: readDS18B20 of the station *)
(* and the search for the devices' ROM codes. Devices may be put on and    *)
(* pulled off, and the wire may be shorted, at any bit. Time slots are left *)
(* out, and LastFamilyDiscrepancy, which is never read.                    *)
(***************************************************************************)
EXTENDS Integers, FiniteSets, Sequences

CONSTANTS Roms,          \* the ROM codes of the devices there are, their first bit first
          FamilyBits,    \* the bits of a ROM's first byte
          TempBits,      \* the width of the first byte of a scratchpad
          Temps,         \* what a device's first byte may hold
          MaxChanges     \* bounds how often devices come and go

RomBits == Len(CHOOSE r \in Roms : TRUE)
Family(r) == SubSeq(r, 1, FamilyBits)
NoRom == [b \in 1 .. RomBits |-> 0]

\* A ROM ends with a check sum, so that no two differ in the last bit only.
ASSUME OneWireAssumption ==
    /\ FamilyBits \in Nat \ {0} /\ TempBits \in Nat \ {0} /\ MaxChanges \in Nat
    /\ \A r \in Roms : r \in Seq({0, 1}) /\ Len(r) = RomBits /\ FamilyBits < RomBits
                       /\ Family(r) # Family(NoRom)
    /\ \A r, s \in Roms : r # s => SubSeq(r, 1, RomBits - 1) # SubSeq(s, 1, RomBits - 1)
    /\ Temps \subseteq 0 .. 2 ^ TempBits - 1

\* What the provers have to be told of powers.
ASSUME OneWirePowers == \A n \in 0 .. TempBits : 2 ^ n \in Nat \ {0} /\ 2 ^ (n + 1) = 2 * 2 ^ n

VARIABLES attached, shorted,   \* the wire
          listening,           \* the devices that take part since the last reset
          ROM_NO, LastDiscrepancy, LastDeviceFlag,   \* as in OneWire
          last_zero, bit,      \* as in search; bit is id_bit_number
          wire,                \* where search or readDS18B20 is
          answer,              \* what it has returned
          temp, raw,           \* what the devices' scratchpads hold, and what has been read of it
          found, target,       \* since the last reset_search or target_search
          steady,              \* nothing has come or gone since then
          changes

searchState == <<ROM_NO, LastDiscrepancy, LastDeviceFlag>>
wireVars == <<attached, shorted, listening, searchState, last_zero, bit, wire, answer,
              temp, raw, found, target, steady, changes>>

WireInit ==
    /\ attached \in SUBSET Roms /\ shorted = FALSE /\ listening = {}
    /\ ROM_NO = NoRom /\ LastDiscrepancy = 0 /\ LastDeviceFlag = FALSE
    /\ last_zero = 0 /\ bit = 1 /\ wire = "rest" /\ answer = FALSE
    /\ temp \in Temps /\ raw = 0
    /\ found = {} /\ target = NoRom /\ steady = TRUE /\ changes = 0

-----------------------------------------------------------------------------
\* The wire is pulled up: a bit read is 1 unless somebody pulls it down.
ReadBit(pullers) == IF shorted \/ pullers # {} THEN 0 ELSE 1

\* reset: the devices answer, unless the wire stays low from before.
Presence == ~shorted /\ attached # {}

Heard == listening \cap attached

\* Devices are put on and pulled off; the wire is shorted, or freed.
ComeOrGo ==
    /\ changes < MaxChanges /\ changes' = changes + 1
    /\ \/ \E r \in Roms : attached' = (attached \ {r}) \cup ({r} \ attached) /\ shorted' = shorted
       \/ shorted' = ~shorted /\ attached' = attached
    /\ listening' = IF shorted' THEN {} ELSE listening \cap attached'
    /\ steady' = FALSE
    /\ UNCHANGED <<searchState, last_zero, bit, wire, answer, temp, raw, found, target>>

-----------------------------------------------------------------------------
\* The search.

Anew(r, discrepancy) ==
    /\ wire = "rest"
    /\ ROM_NO' = r /\ LastDiscrepancy' = discrepancy /\ LastDeviceFlag' = FALSE
    /\ found' = {} /\ target' = r /\ steady' = ~shorted /\ answer' = FALSE
    /\ UNCHANGED <<attached, shorted, listening, last_zero, bit, wire, temp, raw, changes>>

ResetSearch == Anew(NoRom, 0)
TargetSearch(f) == Anew([b \in 1 .. RomBits |-> IF b <= FamilyBits THEN f[b] ELSE 0], RomBits)

\* The end of a call, without or with a device.
NotFound ==
    /\ ROM_NO' = ROM_NO /\ LastDiscrepancy' = 0 /\ LastDeviceFlag' = FALSE
    /\ wire' = "notFound" /\ answer' = FALSE /\ listening' = {}
    /\ bit' = 1 /\ last_zero' = 0 /\ UNCHANGED found

SearchBegins ==
    /\ wire = "rest"
    /\ IF LastDeviceFlag \/ ~Presence THEN NotFound
       ELSE /\ wire' = "search" /\ listening' = attached
            /\ UNCHANGED <<searchState, last_zero, bit, answer, found>>
    /\ UNCHANGED <<attached, shorted, temp, raw, target, steady, changes>>

FaultyDirection(id, cmp) ==      \* takes 1 after the last discrepancy too
    IF id # cmp THEN id
    ELSE IF bit < LastDiscrepancy THEN ROM_NO[bit]
    ELSE IF LastDiscrepancy # 0 THEN 1 ELSE 0
\* Which way at this bit.
Direction(id, cmp) ==
    IF id # cmp THEN id
    ELSE IF bit < LastDiscrepancy THEN ROM_NO[bit]
    ELSE IF bit = LastDiscrepancy THEN 1 ELSE 0

\* One round of the loop: the bit, its complement, the way taken.
SearchBit ==
    LET id        == ReadBit({r \in Heard : r[bit] = 0})
        cmp       == ReadBit({r \in Heard : r[bit] = 1})
        direction == Direction(id, cmp)
        zero      == IF id = cmp /\ direction = 0 THEN bit ELSE last_zero
        rom       == [ROM_NO EXCEPT ![bit] = direction]
    IN  /\ wire = "search"
        /\ IF id = 1 /\ cmp = 1 THEN NotFound
           ELSE /\ ROM_NO' = rom
                /\ listening' = {r \in Heard : r[bit] = direction}
                /\ IF bit < RomBits
                   THEN /\ bit' = bit + 1 /\ last_zero' = zero
                        /\ UNCHANGED <<LastDiscrepancy, LastDeviceFlag, wire, answer, found>>
                   ELSE
                        /\ bit' = 1 /\ last_zero' = 0
                        /\ IF Family(rom) = Family(NoRom)
                           THEN /\ LastDiscrepancy' = 0 /\ LastDeviceFlag' = FALSE
                                /\ wire' = "notFound" /\ answer' = FALSE /\ UNCHANGED found
                           ELSE /\ LastDiscrepancy' = zero /\ LastDeviceFlag' = (zero = 0)
                                /\ wire' = "found" /\ answer' = TRUE
                                /\ found' = found \cup {rom}
        /\ UNCHANGED <<attached, shorted, temp, raw, target, steady, changes>>

\* The caller has taken the answer; one that got none begins anew.
SearchReturns ==
    /\ wire \in {"found", "notFound"}
    /\ wire' = "rest"
    /\ found' = IF wire = "found" THEN found ELSE {}
    /\ target' = IF wire = "found" THEN target ELSE NoRom
    /\ steady' = IF wire = "found" THEN steady ELSE ~shorted
    /\ answer' = FALSE
    /\ UNCHANGED <<attached, shorted, listening, searchState, last_zero, bit, temp, raw, changes>>

-----------------------------------------------------------------------------
\* readDS18B20: reset, SKIP ROM and CONVERT; after a second reset, SKIP ROM
\* and the scratchpad, its lowest bit first. What reset returns is not looked
\* at: devices that were not there at the reset do not take part.

Silent == UNCHANGED <<attached, shorted, searchState, last_zero, found, target, steady, changes>>

Convert ==
    /\ wire = "rest" /\ wire' = "converting"
    /\ listening' = IF Presence THEN attached ELSE {}
    /\ UNCHANGED <<bit, answer, temp, raw>> /\ Silent

AskScratchpad ==
    /\ wire = "converting" /\ wire' = "scratchpad"
    /\ listening' = IF Presence THEN attached ELSE {}
    /\ raw' = 0 /\ UNCHANGED <<bit, answer, temp>> /\ Silent

ReadScratchpad ==
    /\ wire = "scratchpad"
    /\ LET b == ReadBit({r \in Heard : (temp \div 2 ^ (bit - 1)) % 2 = 0}) IN raw' = raw + b * 2 ^ (bit - 1)
    /\ IF bit < TempBits THEN bit' = bit + 1 /\ UNCHANGED wire
       ELSE bit' = 1 /\ wire' = "shown"
    /\ UNCHANGED <<listening, answer, temp>> /\ Silent

Shown ==
    /\ wire = "shown" /\ wire' = "rest"
    /\ raw' = 0 /\ listening' = {}
    /\ UNCHANGED <<bit, answer, temp>> /\ Silent

WireNext ==
    \/ ComeOrGo \/ ResetSearch \/ \E r \in Roms : TargetSearch(Family(r))
    \/ SearchBegins \/ SearchBit \/ SearchReturns
    \/ Convert \/ AskScratchpad \/ ReadScratchpad \/ Shown

-----------------------------------------------------------------------------
\* On a bus that stays as it is every call finds another device, until all
\* have been found; a search for a family finds one of it first, if there is.
Enumerated ==
    steady =>
      /\ found \subseteq attached
      /\ wire = "notFound" /\ target = NoRom => found = attached
      /\ \A r \in found : found = {r} /\ (\E s \in attached : Family(s) = Family(target))
                            => Family(r) = Family(target)

\* What a device's scratchpad holds is shown as it is. (If the device was pulled out, ones
\* take the place of its bits, and the station cannot tell; nor can it tell a device that was
\* put on since the conversion, and has not measured yet, from one that has.)
TemperatureRight ==
    wire = "shown" /\ listening # {} /\ ~shorted => raw = temp

=============================================================================
