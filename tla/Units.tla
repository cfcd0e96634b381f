-------------------------------- MODULE Units --------------------------------
(***************************************************************************)
(* The units of a gateway as config subentries (units.py), the matching of *)
(* discovered addresses to stored units (flow_helpers.py) and what setup   *)
(* derives from them (__init__.py, identifiers.py, entity.py).             *)
(*                                                                         *)
(* A unit key is <<address, n>>: slave_<address>, with the suffix n from 2 *)
(* on; an id stands for the subentry ID.  An app setup code is the identity *)
(* of one physical unit.  Names, previews and product IDs are passed on    *)
(* like the code and left out.                                             *)
(***************************************************************************)
EXTENDS Naturals, FiniteSetsExt

CONSTANTS
    Slaves,    \* the Modbus addresses
    Codes,     \* the app setup codes
    Profiles,  \* the profiles a user can choose
    Names,     \* per profile the keys of the entities it has
    None

ASSUME SlavesAssumption == Slaves \subseteq Nat /\ IsFiniteSet(Slaves)
ASSUME NamesAssumption == DOMAIN Names = Profiles

Keys == Slaves \X (Nat \ {0})
Subentries ==
    [id: Nat, key: Keys, slave: Slaves, uid: Slaves \union {None}, code: Codes \union {None},
     profile: Profiles]
Rooms == [key: Keys, slave: Slaves, profile: Profiles, code: Codes \union {None}]

\* A code is no unit key, and None is no value of another kind.
ASSUME NoneAssumption == None \notin Slaves /\ None \notin Codes /\ \A S \in SUBSET Slaves : S # None
ASSUME CodesAssumption == Codes \intersect Keys = {}

\* unit_subentry_data: the address is the unique ID of the subentry.
Subentry(id, key, slave, code, profile) ==
    [id |-> id, key |-> key, slave |-> slave, uid |-> slave, code |-> code, profile |-> profile]

\* unit_rooms: the unit stored for each address.  Of two units that an older
\* release stored for one address the later one, without a unique ID, is seen.
UnitRooms(subs) ==
    [a \in {s.slave : s \in subs} |->
        CHOOSE s \in subs : s.slave = a /\ \A t \in subs : t.slave = a /\ t.uid = None => s.uid = None]

-----------------------------------------------------------------------------
(* match_existing_rooms                                                    *)

\* The stored address of the unit with a code, if one unit alone has it.
WithCode(rooms, code) ==
    {a \in DOMAIN rooms : /\ code # None /\ rooms[a].code = code
                          /\ \A b \in DOMAIN rooms : rooms[b].code = code => b = a}

\* Mutant: only the address counts.
ByCodeNever(found, rooms) == [a \in DOMAIN found |-> {}]

\* The stored address each found address takes over by its code.
ByCode(found, rooms) ==
    [a \in DOMAIN found |->
        IF \A b \in DOMAIN found : found[b] = found[a] => b = a
        THEN WithCode(rooms, found[a]) ELSE {}]

\* The stored unit of every found address that has one: by code, then by address.
MatchExistingRooms(found, rooms) ==
    LET byCode == ByCode(found, rooms)
        claimed == UNION {byCode[a] : a \in DOMAIN found}
        from(a) == IF byCode[a] # {} THEN byCode[a]
                   ELSE (DOMAIN rooms \ claimed) \intersect {a}
    IN  [a \in {b \in DOMAIN found : from(b) # {}} |-> rooms[CHOOSE b \in from(a) : TRUE]]

-----------------------------------------------------------------------------
(* build_rooms_from_profiles and new_unit                                  *)

\* The first key of an address that no unit uses.
FreeKey(a, taken) == <<a, Min({n \in 1..(Cardinality(taken) + 1) : <<a, n>> \notin taken})>>

\* _retained_app_setup_code
RetainedCode(code, found) == IF code \in {found[a] : a \in DOMAIN found} THEN None ELSE code

BuildRoomsFromProfiles(found, rooms, profile, id) ==
    LET matched == MatchExistingRooms(found, rooms)
        reserved == {matched[a].key : a \in DOMAIN matched}
        room(a) ==
            LET known == a \in DOMAIN matched
            IN  Subentry(IF known THEN matched[a].id ELSE id,
                         IF known THEN matched[a].key ELSE FreeKey(a, reserved), a,
                         IF found[a] # None THEN found[a]
                         ELSE IF known THEN RetainedCode(matched[a].code, found) ELSE None,
                         profile[a])
    IN  {room(a) : a \in DOMAIN found}

\* new_unit
NewUnit(a, code, profile, subs, id) ==
    Subentry(id, FreeKey(a, {s.key : s \in subs}), a, code, profile)

-----------------------------------------------------------------------------
(* What setup derives from the subentries                                  *)

\* _room_configs: a code stored for several units identifies none of them.
RoomConfigs(subs) ==
    {[key |-> s.key, slave |-> s.slave, profile |-> s.profile,
      code |-> IF \E t \in subs \ {s} : t.code = s.code THEN None ELSE s.code] : s \in subs}

\* What _setup_snapshot keeps of the units.
SnapshotUnits(subs) ==
    {[id |-> s.id, key |-> s.key, slave |-> s.slave, profile |-> s.profile, code |-> s.code] : s \in subs}

\* room_identifiers
RoomIdentifiers(room) == {room.key} \union ({room.code} \ {None})

\* room_entity_platforms: the entities of the rooms, by unit key and entity key.
RoomEntities(rooms) == UNION {{<<room.key, name>> : name \in Names[room.profile]} : room \in rooms}
=============================================================================
