----------------------------- MODULE DrmProperty -----------------------------
(***************************************************************************)
(* The enum and bitmask translation of a KMS property                     *)
(* (src/src/backends/drm/drm_property.h, class DrmProperty).              *)
(*                                                                         *)
(* A property keeps two QMaps built when it is created: m_enumToPropertyMap*)
(* from KWin's enum values to the kernel's, and m_propertyToEnumMap back.  *)
(* For a bitmask property both are keyed by single bits and a value is    *)
(* translated bit by bit.  valueForEnum is not const, so its QMap::        *)
(* operator[] inserts a default-constructed 0 for every key it does not   *)
(* find; enumForValue is const and only reads.  hasEnum asks the map      *)
(* whether it contains a key; setEnumLegacy looks the key up again, cast  *)
(* to uint32_t.                                                            *)
(*                                                                         *)
(* Integers are words of Width bits (uint64_t in the code) and HalfWidth   *)
(* bits for the uint32_t cast, so that the loop's shift wraps to 0 at the *)
(* top bit as it does at bit 64.                                           *)
(***************************************************************************)
EXTENDS Naturals, TLC, Bitwise

CONSTANTS Width,         \* bits of a uint64_t in the model
          HalfWidth,     \* bits of a uint32_t in the model
          EnumInputs,    \* enum values the callers pass
          BitmaskMap,    \* m_enumToPropertyMap of a bitmask property
          EnumMap        \* m_enumToPropertyMap of a plain enum property

Word == 0..(2^Width - 1)

ASSUME /\ HalfWidth < Width
       /\ EnumInputs \subseteq Word
       /\ \A m \in {BitmaskMap, EnumMap} : DOMAIN m \subseteq Word /\ \A k \in DOMAIN m : m[k] \in Word

VARIABLES isBitmask,     \* m_isBitmask
          enumToProp,    \* m_enumToPropertyMap, with the keys operator[] added
          lastQuery,     \* the last valueForEnum call and its result
          legacyWritten  \* values setEnumLegacy passed to setPropertyLegacy

vars == <<isBitmask, enumToProp, lastQuery, legacyWritten>>

NoQuery == [enum |-> 0, value |-> 0, none |-> TRUE]

\* The map the property was created with (initEnumMap).
Registered == IF isBitmask THEN BitmaskMap ELSE EnumMap

\* m_propertyToEnumMap: the inverse of the registered map; never written.
PropToEnum == [v \in {Registered[k] : k \in DOMAIN Registered} |->
                  CHOOSE k \in DOMAIN Registered : Registered[k] = v]

\* const QMap::operator[]: the stored value, or a default 0.
Get(map, k) == IF k \in DOMAIN map THEN map[k] ELSE 0

\* non-const QMap::operator[]: the same value, and the key is now present.
Insert(map, k) == IF k \in DOMAIN map THEN map ELSE map @@ (k :> 0)

\* mask <<= 1 on a Width-bit word.
Shift(mask) == (mask * 2) % 2^Width

-----------------------------------------------------------------------------
(* valueForEnum, bitmask branch with the off-by-one "integer > mask" in   *)
(* the loop condition.                                                     *)
RECURSIVE ValueLoopStrict(_, _, _, _)
ValueLoopStrict(integer, mask, set, map) ==
    IF integer > mask /\ mask # 0
    THEN IF (integer & mask) # 0
         THEN ValueLoopStrict(integer, Shift(mask), set | Get(map, mask), Insert(map, mask))
         ELSE ValueLoopStrict(integer, Shift(mask), set, map)
    ELSE <<set, map>>

(* valueForEnum, bitmask branch: for (mask = 1; integer >= mask && mask   *)
(* != 0; mask <<= 1) OR in m_enumToPropertyMap[mask] of every set bit.    *)
(* Returns the value and the map as operator[] left it.                   *)
RECURSIVE ValueLoop(_, _, _, _)
ValueLoop(integer, mask, set, map) ==
    IF integer >= mask /\ mask # 0
    THEN IF (integer & mask) # 0
         THEN ValueLoop(integer, Shift(mask), set | Get(map, mask), Insert(map, mask))
         ELSE ValueLoop(integer, Shift(mask), set, map)
    ELSE <<set, map>>

(* valueForEnum: the kernel value for an enum value, and the map after.   *)
ValueForEnumOp(integer) ==
    IF isBitmask THEN ValueLoop(integer, 1, 0, enumToProp)
    ELSE <<Get(enumToProp, integer), Insert(enumToProp, integer)>>

(* enumForValue, bitmask branch: the same loop over the kernel's bits,    *)
(* reading m_propertyToEnumMap through the const operator[].              *)
RECURSIVE EnumLoop(_, _, _)
EnumLoop(value, mask, ret) ==
    IF value >= mask /\ mask # 0
    THEN EnumLoop(value, Shift(mask),
                  IF (value & mask) # 0 THEN ret | Get(PropToEnum, mask) ELSE ret)
    ELSE ret

EnumForValue(value) ==
    IF isBitmask THEN EnumLoop(value, 1, 0) ELSE Get(PropToEnum, value)

HasEnum(value) == value \in DOMAIN enumToProp

-----------------------------------------------------------------------------
(* The property is created from the kernel's description, as a bitmask or *)
(* as a plain enum property.                                               *)
Init ==
    /\ isBitmask \in BOOLEAN
    /\ enumToProp = IF isBitmask THEN BitmaskMap ELSE EnumMap
    /\ lastQuery = NoQuery
    /\ legacyWritten = {}

(* A caller translates an enum value for an atomic commit.                *)
ValueForEnum(e) ==
    LET r == ValueForEnumOp(e)
    IN /\ lastQuery' = [enum |-> e, value |-> r[1], none |-> FALSE]
       /\ enumToProp' = r[2]
       /\ UNCHANGED <<isBitmask, legacyWritten>>

(* setEnumLegacy: when hasEnum(value), pass m_enumToPropertyMap at the     *)
(* uint32_t-cast key to setPropertyLegacy; otherwise return false.        *)
SetEnumLegacy(e) ==
    LET key == e % 2^HalfWidth
    IN /\ HasEnum(e)
       /\ legacyWritten' = legacyWritten \cup {[enum |-> e, value |-> Get(enumToProp, key)]}
       /\ enumToProp' = Insert(enumToProp, key)
       /\ UNCHANGED <<isBitmask, lastQuery>>

Next == \E e \in EnumInputs : ValueForEnum(e) \/ SetEnumLegacy(e)

Spec == Init /\ [][Next]_vars

-----------------------------------------------------------------------------
(* Properties.                                                             *)

\* Bits of a word, and whether the kernel supports every bit (or the value).
Bits(v) == {b \in {2^i : i \in 0..(Width - 1)} : (v & b) # 0}
Supported(e) == IF isBitmask THEN Bits(e) \subseteq DOMAIN Registered
                ELSE e \in DOMAIN Registered

(* Round trip: whatever valueForEnum calls came before (and the keys they *)
(* inserted), translating a supported enum value to the kernel and back   *)
(* with enumForValue gives the value again.                               *)
RoundTrip ==
    (lastQuery.none = FALSE /\ Supported(lastQuery.enum))
        => EnumForValue(lastQuery.value) = lastQuery.enum

(* setEnumLegacy only ever sends the kernel the value registered for an   *)
(* enum the kernel supports, whatever valueForEnum calls came before.     *)
LegacyWriteCorrect ==
    \A w \in legacyWritten :
        w.enum \in DOMAIN Registered /\ w.value = Registered[w.enum]
=============================================================================
