------------------------------ MODULE AppZones ------------------------------
(***************************************************************************)
(* The table of a schedule's zones (app_data::set_zone and get_zone,       *)
(* hhg-app/src/app-data.cpp:275-374, 453-536).  The parser's thread alone  *)
(* sets and reads it with $DATA 3 and 4.  A zone is whether it has been     *)
(* set; its watering time is read from the JSON and not stored, and what   *)
(* get_zone prints as its status is the weight of a zone.  The schedule    *)
(* that the JSON names is taken to be one of the table.                    *)
(***************************************************************************)
EXTENDS Integers, FiniteSets

CONSTANTS
    Zones,    \* HHG_ZONES_SIZE, 4
    ZoneIds   \* bound: what the JSON has as id, an int of either sign

ASSUME AppZonesAssumption == Zones \in 1 .. 250 /\ ZoneIds \subseteq Int

VARIABLES
    zones_len,
    zones_set,   \* the zones that have been assigned
    beyond,      \* memory behind the table has been assigned: nothing is known any more
    gap,         \* history: a zone has been set with a smaller one missing
    outside      \* history: an id that names no zone of the table has been accepted

zoneVars == <<zones_len, zones_set, beyond, gap, outside>>

ZonesInit ==
    /\ zones_len = 0 /\ zones_set = {} /\ beyond = FALSE
    /\ gap = FALSE /\ outside = FALSE

\* uint8_t idx = id->valueint.
ZoneIndex(id) == id % 256

\* Mutated: any new zone is counted.
SetZoneCounts(id) ==
    LET idx == ZoneIndex(id)
    IN /\ ~beyond
       /\ ~(idx > zones_len /\ idx >= Zones)
       /\ zones_len' = IF idx \notin zones_set THEN zones_len + 1 ELSE zones_len
       /\ zones_set' = zones_set \cup ({idx} \cap (0 .. Zones - 1))
       /\ beyond' = (idx >= Zones)
       /\ gap' = (gap \/ ~(0 .. idx - 1 \subseteq zones_set))
       /\ outside' = (outside \/ id \notin 0 .. Zones - 1)

(* The index is tested and assigned, the id as it came is compared with the  *)
(* length: 256 sets zone 0 and does not count it.  An index behind the table *)
(* is refused only if it is also greater than zones_len; one that is not is  *)
(* assigned where the table has ended.                                       *)
SetZone(id) ==
    LET idx == ZoneIndex(id)
    IN /\ ~beyond
       /\ ~(idx > zones_len /\ idx >= Zones)
       /\ zones_len' = IF id = zones_len THEN zones_len + 1 ELSE zones_len
       /\ zones_set' = zones_set \cup ({idx} \cap (0 .. Zones - 1))
       /\ beyond' = (idx >= Zones)
       /\ gap' = (gap \/ ~(0 .. idx - 1 \subseteq zones_set))
       /\ outside' = (outside \/ id \notin 0 .. Zones - 1)

ZonesNext == \E id \in ZoneIds : SetZone(id)

ZonesSpec == ZonesInit /\ [][ZonesNext]_zoneVars

\* get_zone finds a zone.
Readable(id) == id < Zones /\ id < zones_len + 1

-----------------------------------------------------------------------------
(* Properties. *)

(* What is counted has been set, whatever ids came in whatever order; and as *)
(* long as none of them was outside of the table, and none came before a     *)
(* smaller one, every zone that has been set is counted and can be read.     *)
(* After that a zone may stay uncounted until it is set once more: zone 0,   *)
(* when 256 has set it, and one behind a gap (app-data.cpp:355-371, 461).    *)
CountedIsSet ==
    ~beyond => /\ 0 .. zones_len - 1 \subseteq zones_set
               /\ ~gap /\ ~outside => /\ zones_len = Cardinality(zones_set)
                                      /\ \A id \in zones_set : Readable(id)

=============================================================================
