-------------------------- MODULE ConfigEntryProofs --------------------------
(***************************************************************************)
(* Proofs about the config entry: whatever the flows, setups, reloads and  *)
(* restarts do to each other, the stored units stay distinct, no setup     *)
(* leaves anything behind, the registries belong to the units, and a saved *)
(* rescan follows the units and is complete.                               *)
(*                                                                         *)
(* EntryInv is inductive on its own.  RegistryInv is inductive with it: it *)
(* follows a unit from the rooms that setup read to its device and its     *)
(* entities.  A unit that was removed while the entry runs has lost both,  *)
(* and Gone says that its subentry cannot come back: a later unit with the *)
(* same key has another subentry ID.                                       *)
(***************************************************************************)
EXTENDS ConfigEntry, TLAPS, FiniteSetTheorems, WellFoundedInduction

-----------------------------------------------------------------------------
(* The inductive invariants                                                *)

Ports == {"tty", "by_id", "net"}
Phases ==
    {"absent", "idle", "validating", "forwarding", "loaded", "unloading", "retry", "error", "stuck"}
OldVersions == {<<2, 1>>} \union ({1} \X (1..4))

StoredTypes ==
    /\ version \in {<<0, 0>>, Current} \union OldVersions
    /\ subs \subseteq Subentries /\ IsFiniteSet(subs)
    /\ port \in Ports /\ rate \in Rates /\ changes \in Nat
    /\ at \in [Slaves -> Codes \union {None}]
RuntimeTypes ==
    phase \in Phases /\ setup \in Setups \union {None} /\ running \in RuntimeData \union {None}
RegistryTypes ==
    /\ devices \subseteq SUBSET (Keys \union Codes)
    /\ issue # None => issue \subseteq Slaves /\ issue # {}
FlowTypes == rescan \in Rescans \union {None} /\ adding \in ProbeResults \union {None}
Flags ==
    /\ client \in BOOLEAN /\ queued \in BOOLEAN /\ reload \in BOOLEAN
    /\ byId \in BOOLEAN /\ missed \in BOOLEAN
Types == StoredTypes /\ RuntimeTypes /\ RegistryTypes /\ FlowTypes /\ Flags

\* Which locals, clients and flows each state of the entry has.
Lives ==
    /\ NothingLeftBehind
    /\ (setup # None) <=> phase = "validating"
    /\ phase = "absent" <=> version = <<0, 0>>
    /\ version \in OldVersions => phase = "idle"
    /\ rescan # None => version = Current
    /\ rescan # None /\ rescan.confirm => rescan.profile \in Profiles
    /\ adding # None => version \notin OldVersions

\* Distinct keys and unique IDs, and the order in which the units of one
\* address were stored.
Distinct(units) ==
    /\ \A s, t \in units : s.key = t.key => s = t
    /\ \A s, t \in units : s.uid = t.uid /\ s.uid # None => s = t
    /\ \A s \in units : s.uid \in {s.slave, None}

Ordered(units) == \A s, t \in units : s.slave = t.slave /\ s.key[2] = t.key[2] => s = t

EntryInv ==
    /\ Types /\ Lives /\ IssueNamesNoUnit
    /\ Distinct(subs)
    /\ version \in OldVersions => Ordered(subs)

\* The subentry of a unit is gone for good: new subentries have the ID of a
\* flow that is open, and none is open that could use this one again.
Gone(u) ==
    /\ \A s \in subs : s.key # u.key \/ s.id # u.id
    /\ u.id = changes => adding = None /\ rescan = None

SubentryIds ==
    /\ \A s \in subs : s.id <= changes
    /\ running # None => \A u \in running.snapshot.units : u.id <= changes
    /\ \A s \in subs : s.id = changes => adding = None \/ rescan = None

\* The subentries that setup read are still stored, or gone for good.
Stays(u) == \E s \in subs : s.key = u.key /\ s.id = u.id

SnapshotFollowed == running # None => \A u \in running.snapshot.units : Stays(u) \/ Gone(u)

\* Keys and codes identify the rooms of one setup.
RoomsDistinct(rooms) ==
    /\ \A r, q \in rooms : r.key = q.key => r = q
    /\ \A r, q \in rooms : r.code = q.code /\ r.code # None => r = q

\* What setup leaves of the registries: no device has the code of another
\* room, and no entity is left that no room has.
Synced(rooms) ==
    /\ \A room \in rooms, d \in devices : room.code # None /\ room.code \in d => room.key \in d
    /\ \A e \in entities : <<e.key, e.name>> \in RoomEntities(rooms)

Registered(room) ==
    /\ RoomIdentifiers(room) \in devices
    /\ \A name \in Names[room.profile] : \E e \in entities : e.key = room.key /\ e.name = name

SetupFollowed ==
    /\ phase = "validating" =>
          /\ RoomsDistinct(setup.rooms) /\ Synced(setup.rooms)
          /\ ~missed => \A room \in setup.rooms : \E s \in subs : s.key = room.key
    /\ phase = "forwarding" => RoomsDistinct(running.rooms) /\ Synced(running.rooms)
    /\ running # None /\ ~missed =>
          \A room \in running.rooms : \E u \in running.snapshot.units : u.key = room.key
    /\ phase = "loaded" =>
          /\ \A e \in entities : <<e.key, e.name>> \in RoomEntities(running.rooms)
          /\ ~missed => \A room \in running.rooms :
                \/ Registered(room)
                \/ \E u \in running.snapshot.units : u.key = room.key /\ Gone(u)

OldNames == {e.name : e \in UNION {old.entities : old \in OldEntries}}

NewNames == UNION {Names[p] : p \in Profiles}

EntityNames ==
    {"airflow_data_stale", "rf_fault_status", "data_health", "device_fault"}
    \union NewNames \union OldNames

Entities == [key: Keys, name: EntityNames, scoped: BOOLEAN, fresh: BOOLEAN]

\* The name an entity of an older release has after the migration.
NameNow(name) ==
    IF name = "airflow_data_stale" THEN "data_health"
    ELSE IF name = "rf_fault_status" THEN "device_fault" ELSE name

UserEntities ==
    /\ entities \subseteq Entities
    /\ \A e \in entities : e.fresh => <<e.key, e.name>> \notin had
    /\ version = Current =>
          /\ \A e \in entities : e.scoped
          /\ \A h \in had : \E e \in entities : h = <<e.key, e.name>>
    /\ version # Current =>
          /\ \A e \in entities : ~e.fresh
          /\ \A h \in had : \E e \in entities : h = <<e.key, NameNow(e.name)>>
          /\ \A e \in entities : e.name = "airflow_data_stale" => version = <<1, 1>>
          /\ \A e \in entities : version = <<2, 1>> => e.scoped
    /\ version = <<0, 0>> => entities = {}

RegistryInv == SubentryIds /\ SnapshotFollowed /\ SetupFollowed /\ UserEntities

-----------------------------------------------------------------------------
(* Sets of naturals and finite images                                      *)

\* The order on the naturals as the relation that is known to be well founded.
LEMMA LessRelation == {p \in Nat \X Nat : p[1] < p[2]} = OpToRel(<, Nat)
  BY DEF OpToRel

\* A set of naturals that is not empty has a least element, which Min chooses.
LEMMA MinChosen ==
    ASSUME NEW S, S \subseteq Nat, S # {}
    PROVE  Min(S) \in S
<1> DEFINE R == {p \in Nat \X Nat : p[1] < p[2]}
<1>1. IsWellFoundedOn(R, Nat)
  BY LessRelation, NatLessThanWellFounded, Zenon
<1> HIDE DEF R
<1>2. PICK x \in S : \A y \in S : ~(<<y, x>> \in R)
  BY <1>1, WFMin
<1>3. \A y \in S : x <= y
  <2>1. ASSUME NEW y \in S PROVE x <= y
    <3>1. x \in Nat /\ y \in Nat
      OBVIOUS
    <3>2. ~(y < x)
      <4>1. ~(<<y, x>> \in R)
        BY <1>2
      <4>2. <<y, x>> \in Nat \X Nat /\ <<y, x>>[1] = y /\ <<y, x>>[2] = x
        BY <3>1
      <4> QED
        BY <4>1, <4>2 DEF R
    <3> QED
      BY <3>1, <3>2
  <2> QED
    BY <2>1
<1> QED
  BY <1>3 DEF Min

\* The image of a finite set under a function is finite.
LEMMA ImageFinite ==
    ASSUME NEW S, IsFiniteSet(S), NEW f, DOMAIN f = S
    PROVE  IsFiniteSet({f[x] : x \in S})
<1> DEFINE T == {f[x] : x \in S}
           g == [x \in S |-> f[x]]
<1>1. g \in [S -> T]
  OBVIOUS
<1>2. \A t \in T : \E s \in S : g[s] = t
  OBVIOUS
<1>3. g \in Surjection(S, T)
  BY <1>1, <1>2 DEF Surjection
<1> HIDE DEF g, T
<1>4. IsFiniteSet(T)
  BY <1>3, FS_Surjection
<1> QED
  BY <1>4 DEF T

-----------------------------------------------------------------------------
(* Unit keys (new_unit)                                                    *)

\* A new unit gets a key that no unit has: of more suffixes than there are
\* keys one is free.
LEMMA FreeKeyFree ==
    ASSUME NEW a \in Slaves, NEW taken, IsFiniteSet(taken)
    PROVE  /\ FreeKey(a, taken) \in Keys
           /\ FreeKey(a, taken) \notin taken
           /\ FreeKey(a, taken)[1] = a
<1> DEFINE k == Cardinality(taken)
           free == {n \in 1..(k + 1) : <<a, n>> \notin taken}
<1>1. k \in Nat
  BY FS_CardinalityType
<1> HIDE DEF k
<1>2. free # {}
  <2> SUFFICES ASSUME \A n \in 1..(k + 1) : <<a, n>> \in taken PROVE FALSE
    OBVIOUS
  <2> DEFINE f == [n \in 1..(k + 1) |-> <<a, n>>]
             S == 1..(k + 1)
  <2>1. f \in [S -> taken]
    OBVIOUS
  <2>2. IsFiniteSet(S) /\ Cardinality(S) = k + 1
    <3>1. 1 \in Int /\ k + 1 \in Int /\ ~(1 > k + 1) /\ k + 1 - 1 + 1 = k + 1
      BY <1>1
    <3> QED
      BY <3>1, FS_Interval
  <2>3. Cardinality(taken) < Cardinality(S)
    <3>1. Cardinality(taken) = k
      BY DEF k
    <3> QED
      BY <2>2, <3>1, <1>1
  <2>4. \A x, y \in S : f[x] = f[y] => x = y
    OBVIOUS
  <2> HIDE DEF f, S
  <2>5. \E x, y \in S : x # y /\ f[x] = f[y]
    BY <2>1, <2>2, <2>3, FS_PigeonHole
  <2> QED
    BY <2>4, <2>5
<1>3. free \subseteq Nat \ {0}
  BY <1>1
<1>4. Min(free) \in free
  <2>1. free \subseteq Nat
    BY <1>3
  <2> HIDE DEF free
  <2> QED
    BY <2>1, <1>2, MinChosen
<1>5. FreeKey(a, taken) = <<a, Min(free)>>
  BY DEF FreeKey, k
<1>6. <<a, Min(free)>> \notin taken
  BY <1>4
<1>7. Min(free) \in Nat \ {0}
  BY <1>3, <1>4
<1> HIDE DEF free
<1> QED
  BY <1>5, <1>6, <1>7 DEF Keys

-----------------------------------------------------------------------------
(* Matching found addresses to stored units (match_existing_rooms)         *)

\* The stored addresses a found address may take its unit from.
Source(found, rooms, a) ==
    IF ByCode(found, rooms)[a] # {} THEN ByCode(found, rooms)[a]
    ELSE (DOMAIN rooms \ UNION {ByCode(found, rooms)[b] : b \in DOMAIN found}) \intersect {a}

\* MatchExistingRooms in terms of Source: the stored unit an address follows.
LEMMA MatchBySource ==
    ASSUME NEW found, NEW rooms
    PROVE  MatchExistingRooms(found, rooms) =
               [a \in {b \in DOMAIN found : Source(found, rooms, b) # {}} |->
                   rooms[CHOOSE b \in Source(found, rooms, a) : TRUE]]
  BY DEF MatchExistingRooms, Source

\* A unit found by its code is the one stored unit with that code.
LEMMA ByCodeFacts ==
    ASSUME NEW found, NEW rooms, NEW a \in DOMAIN found, NEW b \in ByCode(found, rooms)[a]
    PROVE  /\ b \in DOMAIN rooms /\ found[a] # None /\ rooms[b].code = found[a]
           /\ \A c \in DOMAIN rooms : rooms[c].code = found[a] => c = b
           /\ \A c \in DOMAIN found : found[c] = found[a] => c = a
<1>1. ByCode(found, rooms)[a] =
          IF \A c \in DOMAIN found : found[c] = found[a] => c = a
          THEN WithCode(rooms, found[a]) ELSE {}
  BY DEF ByCode
<1>2. \A c \in DOMAIN found : found[c] = found[a] => c = a
  BY <1>1
<1>3. b \in WithCode(rooms, found[a])
  BY <1>1, <1>2
<1> QED
  BY <1>2, <1>3 DEF WithCode

\* No two found addresses take over one stored unit.
LEMMA SourceOnce ==
    ASSUME NEW found, NEW rooms, NEW a \in DOMAIN found, NEW c \in DOMAIN found,
           NEW b, b \in Source(found, rooms, a), b \in Source(found, rooms, c)
    PROVE  a = c /\ b \in DOMAIN rooms
<1> DEFINE by(x) == ByCode(found, rooms)[x]
           claimed == UNION {by(x) : x \in DOMAIN found}
<1>1. ASSUME NEW x \in DOMAIN found, b \in Source(found, rooms, x)
      PROVE  b \in by(x) \/ (by(x) = {} /\ b \in DOMAIN rooms /\ b \notin claimed /\ b = x)
  BY <1>1 DEF Source
<1>2. ASSUME NEW x \in DOMAIN found, b \in by(x) PROVE b \in claimed
  BY <1>2
<1>3. CASE b \in by(a) /\ b \in by(c)
  <2>1. found[a] = found[c]
    BY <1>3, ByCodeFacts
  <2> QED
    BY <1>3, <2>1, ByCodeFacts
<1>4. CASE b \notin by(a) /\ b \notin by(c)
  BY <1>1, <1>4
<1>5. CASE b \in by(a) /\ b \notin by(c)
  BY <1>1, <1>2, <1>5
<1>6. CASE b \notin by(a) /\ b \in by(c)
  BY <1>1, <1>2, <1>6
<1> QED
  BY <1>3, <1>4, <1>5, <1>6

\* What the matching returns: a stored unit per found address, each at most
\* once, when every stored address has a unit of its own.
KeysOnce(rooms) == \A a, b \in DOMAIN rooms : rooms[a].key = rooms[b].key => a = b

\* A match gives addresses that were found the records of stored units, each once.
LEMMA MatchExisting ==
    ASSUME NEW found, NEW rooms, KeysOnce(rooms)
    PROVE  LET matched == MatchExistingRooms(found, rooms)
           IN  /\ DOMAIN matched \subseteq DOMAIN found
               /\ \A a \in DOMAIN matched : \E b \in DOMAIN rooms : matched[a] = rooms[b]
               /\ KeysOnce(matched)
<1> DEFINE matched == MatchExistingRooms(found, rooms)
           from(a) == CHOOSE b \in Source(found, rooms, a) : TRUE
           D == {b \in DOMAIN found : Source(found, rooms, b) # {}}
<1>1. matched = [a \in D |-> rooms[from(a)]]
  BY MatchBySource
<1> HIDE DEF matched
<1>2. DOMAIN matched = D /\ \A a \in D : matched[a] = rooms[from(a)]
  BY <1>1
<1>3. \A a \in D : from(a) \in Source(found, rooms, a)
  OBVIOUS
<1>4. \A a \in D : from(a) \in DOMAIN rooms
  BY <1>3, SourceOnce
<1>5. KeysOnce(matched)
  <2> SUFFICES ASSUME NEW a \in D, NEW c \in D, matched[a].key = matched[c].key PROVE a = c
    BY <1>2 DEF KeysOnce
  <2>1. from(a) = from(c)
    BY <1>2, <1>4 DEF KeysOnce
  <2> HIDE DEF from
  <2> QED
    BY <1>3, <2>1, SourceOnce
<1> QED
  BY <1>2, <1>4, <1>5 DEF matched

\* A unit that alone has a code that one found address alone reported is
\* matched to that address.
LEMMA MatchByCode ==
    ASSUME NEW found, NEW rooms, NEW a \in DOMAIN found, NEW b \in DOMAIN rooms,
           found[a] # None, rooms[b].code = found[a],
           \A c \in DOMAIN rooms : rooms[c].code = found[a] => c = b,
           \A c \in DOMAIN found : found[c] = found[a] => c = a
    PROVE  LET matched == MatchExistingRooms(found, rooms)
           IN  a \in DOMAIN matched /\ matched[a] = rooms[b]
<1>1. ByCode(found, rooms)[a] = {b}
  BY DEF ByCode, WithCode
<1>2. Source(found, rooms, a) = {b}
  BY <1>1 DEF Source
<1> DEFINE D == {c \in DOMAIN found : Source(found, rooms, c) # {}}
<1>3. a \in D
  BY <1>2
<1>4. (CHOOSE c \in Source(found, rooms, a) : TRUE) = b
  BY <1>2
<1> QED
  BY <1>3, <1>4, MatchBySource

\* unit_rooms: the units of the stored addresses, one for each.
LEMMA UnitRoomsFacts ==
    ASSUME NEW units, \A s, t \in units : s.key = t.key => s = t
    PROVE  LET rooms == UnitRooms(units)
           IN  /\ DOMAIN rooms = {s.slave : s \in units}
               /\ \A a \in DOMAIN rooms : rooms[a] \in units /\ rooms[a].slave = a
               /\ KeysOnce(rooms)
<1> DEFINE rooms == UnitRooms(units)
           D == {s.slave : s \in units}
           Last(a, s) == s.slave = a /\ \A t \in units : t.slave = a /\ t.uid = None => s.uid = None
<1>1. rooms = [a \in D |-> CHOOSE s \in units : Last(a, s)]
  BY DEF UnitRooms
<1>2. ASSUME NEW a \in D PROVE \E s \in units : Last(a, s)
  <2>1. PICK s \in units : s.slave = a
    OBVIOUS
  <2>2. CASE \E t \in units : t.slave = a /\ t.uid = None
    BY <2>2
  <2>3. CASE \A t \in units : t.slave = a => t.uid # None
    BY <2>1, <2>3
  <2> QED
    BY <2>2, <2>3
<1>3. ASSUME NEW a \in D PROVE rooms[a] \in units /\ rooms[a].slave = a
  <2>1. rooms[a] = CHOOSE s \in units : Last(a, s)
    BY <1>1
  <2>2. rooms[a] \in units /\ Last(a, rooms[a])
    BY <1>2, <2>1
  <2> QED
    BY <2>2
<1>4. DOMAIN rooms = D
  BY <1>1
<1> HIDE DEF rooms
<1>5. KeysOnce(rooms)
  <2> SUFFICES ASSUME NEW a \in D, NEW c \in D, rooms[a].key = rooms[c].key PROVE a = c
    BY <1>4 DEF KeysOnce
  <2>1. rooms[a] = rooms[c]
    BY <1>3
  <2> QED
    BY <1>3, <2>1
<1> QED
  BY <1>3, <1>4, <1>5 DEF rooms

-----------------------------------------------------------------------------
(* The units a rescan builds (build_rooms_from_profiles)                   *)

\* The unit that is built for a found address.
Built(found, matched, profile, id, a) ==
    Subentry(IF a \in DOMAIN matched THEN matched[a].id ELSE id,
             IF a \in DOMAIN matched THEN matched[a].key
             ELSE FreeKey(a, {matched[b].key : b \in DOMAIN matched}),
             a,
             IF found[a] # None THEN found[a]
             ELSE IF a \in DOMAIN matched THEN RetainedCode(matched[a].code, found) ELSE None,
             profile[a])

\* The rooms built are one record for each probed address.
LEMMA BuildByAddress ==
    ASSUME NEW found, NEW rooms, NEW profile, NEW id
    PROVE  BuildRoomsFromProfiles(found, rooms, profile, id) =
               {Built(found, MatchExistingRooms(found, rooms), profile, id, a) : a \in DOMAIN found}
  BY DEF BuildRoomsFromProfiles, Built

\* What a probe returns: finitely many addresses, each with a code or none.
LEMMA ProbeResultFacts ==
    ASSUME NEW found \in ProbeResults
    PROVE  /\ DOMAIN found \subseteq Slaves /\ IsFiniteSet(DOMAIN found)
           /\ \A a \in DOMAIN found : found[a] \in Codes \union {None}
<1>1. PICK S \in SUBSET Slaves : found \in [S -> Codes \union {None}]
  BY DEF ProbeResults
<1>2. DOMAIN found = S
  BY <1>1
<1>3. IsFiniteSet(S)
  BY SlavesAssumption, FS_Subset
<1> QED
  BY <1>1, <1>2, <1>3

\* Every found address gets one unit, with a key of its own.
LEMMA BuiltUnits ==
    ASSUME NEW found \in ProbeResults, NEW rooms, KeysOnce(rooms),
           \A a \in DOMAIN rooms : rooms[a] \in Subentries,
           NEW profile \in [Slaves -> Profiles], NEW id \in Nat
    PROVE  LET built == BuildRoomsFromProfiles(found, rooms, profile, id)
           IN  /\ built \subseteq Subentries /\ IsFiniteSet(built)
               /\ {n.slave : n \in built} = DOMAIN found
               /\ \A n \in built : n.uid = n.slave
               /\ \A n, m \in built : n.slave = m.slave => n = m
               /\ \A n, m \in built : n.key = m.key => n = m
               /\ \A n \in built : n.id = id \/ \E b \in DOMAIN rooms : n.key = rooms[b].key
               /\ \A n \in built, a \in DOMAIN found :
                     n.code # None /\ found[a] = n.code => found[n.slave] = n.code
<1> DEFINE matched == MatchExistingRooms(found, rooms)
           reserved == {matched[b].key : b \in DOMAIN matched}
           unit(a) == Built(found, matched, profile, id, a)
           built == BuildRoomsFromProfiles(found, rooms, profile, id)
<1>1. built = {unit(a) : a \in DOMAIN found}
  BY BuildByAddress
<1>2. /\ DOMAIN matched \subseteq DOMAIN found
      /\ \A a \in DOMAIN matched : \E b \in DOMAIN rooms : matched[a] = rooms[b]
      /\ KeysOnce(matched)
  BY MatchExisting
<1>3. /\ DOMAIN found \subseteq Slaves /\ IsFiniteSet(DOMAIN found)
      /\ \A a \in DOMAIN found : found[a] \in Codes \union {None}
  BY ProbeResultFacts
<1>4. IsFiniteSet(reserved)
  <2> DEFINE f == [b \in DOMAIN matched |-> matched[b].key]
  <2>1. IsFiniteSet(DOMAIN matched)
    BY <1>2, <1>3, FS_Subset
  <2>2. DOMAIN f = DOMAIN matched /\ {f[b] : b \in DOMAIN matched} = reserved
    OBVIOUS
  <2> HIDE DEF f, reserved, matched
  <2>3. IsFiniteSet({f[b] : b \in DOMAIN matched})
    BY <2>1, <2>2, ImageFinite
  <2> QED
    BY <2>2, <2>3
<1>5. \A a \in DOMAIN matched : matched[a] \in Subentries
  BY <1>2
<1> HIDE DEF matched
<1>6. \A a \in DOMAIN found : FreeKey(a, reserved) \in Keys /\ FreeKey(a, reserved) \notin reserved
                              /\ FreeKey(a, reserved)[1] = a
  BY <1>3, <1>4, FreeKeyFree
<1>7. \A a \in DOMAIN found : unit(a).slave = a /\ unit(a).uid = a
  BY DEF Built, Subentry
<1>7k. \A a \in DOMAIN matched : unit(a).key = matched[a].key
  BY DEF Built, Subentry
<1>7n. \A a \in DOMAIN found : a \notin DOMAIN matched =>
          unit(a).key = FreeKey(a, reserved) /\ unit(a).id = id
  BY DEF Built, Subentry
<1>7c. \A a \in DOMAIN found :
          /\ found[a] # None => unit(a).code = found[a]
          /\ found[a] = None /\ a \in DOMAIN matched => unit(a).code = RetainedCode(matched[a].code, found)
          /\ found[a] = None /\ a \notin DOMAIN matched => unit(a).code = None
  BY DEF Built, Subentry
<1>8. \A a \in DOMAIN found : unit(a) \in Subentries
  <2> TAKE a \in DOMAIN found
  <2> DEFINE key == IF a \in DOMAIN matched THEN matched[a].key ELSE FreeKey(a, reserved)
             num == IF a \in DOMAIN matched THEN matched[a].id ELSE id
             code == IF found[a] # None THEN found[a]
                     ELSE IF a \in DOMAIN matched THEN RetainedCode(matched[a].code, found) ELSE None
  <2>1. num \in Nat /\ key \in Keys
    BY <1>5, <1>6 DEF Subentries
  <2>2. code \in Codes \union {None}
    <3>1. a \in DOMAIN matched => matched[a].code \in Codes \union {None}
      BY <1>5 DEF Subentries
    <3>2. a \in DOMAIN matched => RetainedCode(matched[a].code, found) \in Codes \union {None}
      BY <3>1 DEF RetainedCode
    <3> QED
      BY <1>3, <3>2
  <2>3. a \in Slaves /\ profile[a] \in Profiles
    BY <1>3
  <2>4. unit(a) = [id |-> num, key |-> key, slave |-> a, uid |-> a, code |-> code,
                   profile |-> profile[a]]
    BY DEF Built, Subentry
  <2> HIDE DEF num, key, code, unit
  <2> QED
    BY <2>1, <2>2, <2>3, <2>4 DEF Subentries
<1> HIDE DEF unit, reserved
<1>9. built \subseteq Subentries
  BY <1>1, <1>8
<1>10. IsFiniteSet(built)
  <2> DEFINE f == [a \in DOMAIN found |-> unit(a)]
  <2>1. DOMAIN f = DOMAIN found /\ {f[a] : a \in DOMAIN found} = built
    BY <1>1
  <2> HIDE DEF f, built
  <2>2. IsFiniteSet({f[a] : a \in DOMAIN found})
    BY <1>3, <2>1, ImageFinite
  <2> QED
    BY <2>1, <2>2
<1>11. {n.slave : n \in built} = DOMAIN found
  <2>1. ASSUME NEW a \in DOMAIN found PROVE a \in {n.slave : n \in built}
    <3>1. unit(a) \in built /\ unit(a).slave = a
      BY <1>1, <1>7
    <3> HIDE DEF built
    <3> QED
      BY <3>1
  <2>2. ASSUME NEW n \in built PROVE n.slave \in DOMAIN found
    BY <1>1, <1>7
  <2> HIDE DEF built
  <2> QED
    BY <2>1, <2>2
<1>12. \A n \in built : n.uid = n.slave
  BY <1>1, <1>7
<1>13. \A n, m \in built : n.slave = m.slave => n = m
  BY <1>1, <1>7
<1>14. ASSUME NEW a \in DOMAIN found, NEW c \in DOMAIN found, unit(a).key = unit(c).key
       PROVE  a = c
  <2>1. CASE a \in DOMAIN matched /\ c \in DOMAIN matched
    BY <1>2, <1>7k, <1>14, <2>1 DEF KeysOnce
  <2>2. CASE a \notin DOMAIN matched /\ c \notin DOMAIN matched
    BY <1>6, <1>7n, <1>14, <2>2
  <2>3. CASE a \in DOMAIN matched /\ c \notin DOMAIN matched
    <3>1. unit(a).key \in reserved
      BY <1>7k, <2>3 DEF reserved
    <3>2. unit(c).key \notin reserved
      BY <1>6, <1>7n, <2>3
    <3> QED
      BY <1>14, <3>1, <3>2
  <2>4. CASE a \notin DOMAIN matched /\ c \in DOMAIN matched
    <3>1. unit(c).key \in reserved
      BY <1>7k, <2>4 DEF reserved
    <3>2. unit(a).key \notin reserved
      BY <1>6, <1>7n, <2>4
    <3> QED
      BY <1>14, <3>1, <3>2
  <2> QED
    BY <2>1, <2>2, <2>3, <2>4
<1>15. \A n, m \in built : n.key = m.key => n = m
  BY <1>1, <1>14
<1>16. \A n \in built : n.id = id \/ \E b \in DOMAIN rooms : n.key = rooms[b].key
  <2>1. ASSUME NEW a \in DOMAIN found
        PROVE  unit(a).id = id \/ \E b \in DOMAIN rooms : unit(a).key = rooms[b].key
    BY <1>2, <1>7k, <1>7n
  <2> QED
    BY <1>1, <2>1
<1>17. ASSUME NEW n \in built, NEW a \in DOMAIN found, n.code # None, found[a] = n.code
       PROVE  found[n.slave] = n.code
  <2>1. PICK c \in DOMAIN found : n = unit(c)
    BY <1>1
  <2>2. n.slave = c
    BY <1>7, <2>1
  <2>3. CASE found[c] # None
    BY <1>7c, <2>1, <2>2, <2>3
  <2>4. CASE found[c] = None
    <3>1. c \in DOMAIN matched /\ n.code = RetainedCode(matched[c].code, found)
      BY <1>7c, <1>17, <2>1, <2>4
    <3> QED
      BY <1>17, <3>1 DEF RetainedCode
  <2> QED
    BY <2>3, <2>4
<1> HIDE DEF built
<1>18. \A n \in built, a \in DOMAIN found :
           n.code # None /\ found[a] = n.code => found[n.slave] = n.code
  BY <1>17
<1> QED
  BY <1>9, <1>10, <1>11, <1>12, <1>13, <1>15, <1>16, <1>18 DEF built

\* A matched address gets the key of its unit.
LEMMA BuiltKey ==
    ASSUME NEW found, NEW rooms, NEW profile, NEW id,
           NEW a \in DOMAIN MatchExistingRooms(found, rooms), a \in DOMAIN found
    PROVE  \E n \in BuildRoomsFromProfiles(found, rooms, profile, id) :
               n.slave = a /\ n.key = MatchExistingRooms(found, rooms)[a].key
<1> DEFINE n == Built(found, MatchExistingRooms(found, rooms), profile, id, a)
<1>1. n \in BuildRoomsFromProfiles(found, rooms, profile, id)
  BY BuildByAddress
<1>2. n.slave = a /\ n.key = MatchExistingRooms(found, rooms)[a].key
  BY DEF Built, Subentry
<1> HIDE DEF n
<1> QED
  BY <1>1, <1>2

-----------------------------------------------------------------------------
(* What a save of the rescan stores                                        *)

\* The flow matches the found addresses to the stored units once more before
\* it builds: each address has a unit of its own there too.
LEMMA ExistingUnits ==
    ASSUME Distinct(subs)
    PROVE  LET existing == MatchExistingRooms(rescan.found, UnitRooms(subs))
           IN  /\ KeysOnce(existing) /\ DOMAIN existing \subseteq DOMAIN rescan.found
               /\ \A a \in DOMAIN existing : existing[a] \in subs
<1> DEFINE rooms == UnitRooms(subs)
<1>1. /\ \A a \in DOMAIN rooms : rooms[a] \in subs
      /\ KeysOnce(rooms)
  BY UnitRoomsFacts DEF Distinct
<1> HIDE DEF rooms
<1>2. LET existing == MatchExistingRooms(rescan.found, rooms)
      IN  /\ DOMAIN existing \subseteq DOMAIN rescan.found
          /\ \A a \in DOMAIN existing : \E b \in DOMAIN rooms : existing[a] = rooms[b]
          /\ KeysOnce(existing)
  BY <1>1, MatchExisting
<1> QED
  BY <1>1, <1>2 DEF rooms

\* A built unit with the subentry ID of the stored unit whose key it has.
WithId(n) ==
    IF \E s \in subs : s.key = n.key
    THEN [n EXCEPT !.id = (CHOOSE s \in subs : s.key = n.key).id] ELSE n

\* A built unit takes the ID of the subentry with its key, or keeps its own.
LEMMA WithIdFacts ==
    ASSUME subs \subseteq Subentries, NEW n \in Subentries
    PROVE  /\ WithId(n) \in Subentries
           /\ WithId(n).key = n.key /\ WithId(n).slave = n.slave
           /\ WithId(n).uid = n.uid /\ WithId(n).code = n.code
           /\ \/ \E s \in subs : s.key = n.key /\ s.id = WithId(n).id
              \/ WithId(n).id = n.id /\ \A s \in subs : s.key # n.key
<1>1. CASE \E s \in subs : s.key = n.key
  <2> DEFINE t == CHOOSE s \in subs : s.key = n.key
  <2>1. t \in subs /\ t.key = n.key
    BY <1>1
  <2>2. WithId(n) = [n EXCEPT !.id = t.id]
    BY <1>1 DEF WithId
  <2> HIDE DEF t
  <2>3. t.id \in Nat
    BY <2>1 DEF Subentries
  <2>4. WithId(n) \in Subentries
    BY <2>2, <2>3 DEF Subentries
  <2>5. /\ WithId(n).key = n.key /\ WithId(n).slave = n.slave /\ WithId(n).uid = n.uid
        /\ WithId(n).code = n.code /\ WithId(n).id = t.id
    BY <2>2 DEF Subentries
  <2> QED
    BY <2>1, <2>4, <2>5
<1>2. CASE \A s \in subs : s.key # n.key
  BY <1>2 DEF WithId
<1> QED
  BY <1>1, <1>2

\* What a save would store: a unit for every found address and no other,
\* distinct keys, and the subentries of the units that are kept.
LEMMA RescannedUnits ==
    ASSUME subs \subseteq Subentries, Distinct(subs), rescan \in Rescans, changes \in Nat,
           NEW profile \in Profiles
    PROVE  LET built == Rescanned(profile)
           IN  /\ built \subseteq Subentries /\ IsFiniteSet(built)
               /\ {n.slave : n \in built} = DOMAIN rescan.found
               /\ \A n \in built : n.uid = n.slave
               /\ \A n, m \in built : n.slave = m.slave => n = m
               /\ \A n, m \in built : n.key = m.key => n = m
               /\ \A n \in built : \/ \E s \in subs : s.key = n.key /\ s.id = n.id
                                   \/ n.id = changes
               /\ \A n \in built, a \in DOMAIN rescan.found :
                     n.code # None /\ rescan.found[a] = n.code => rescan.found[n.slave] = n.code
<1> DEFINE found == rescan.found
           existing == MatchExistingRooms(found, UnitRooms(subs))
           profiles == [a \in Slaves |-> profile]
           raw == BuildRoomsFromProfiles(found, existing, profiles, changes)
           built == Rescanned(profile)
<1>1. found \in ProbeResults
  BY DEF Rescans
<1>2. KeysOnce(existing) /\ \A a \in DOMAIN existing : existing[a] \in Subentries
  BY ExistingUnits
<1>3. profiles \in [Slaves -> Profiles]
  OBVIOUS
<1>4. built = {WithId(n) : n \in raw}
  BY DEF Rescanned, WithId
<1> HIDE DEF existing, profiles, found
<1>5. /\ raw \subseteq Subentries /\ IsFiniteSet(raw)
      /\ {n.slave : n \in raw} = DOMAIN found
      /\ \A n \in raw : n.uid = n.slave
      /\ \A n, m \in raw : n.slave = m.slave => n = m
      /\ \A n, m \in raw : n.key = m.key => n = m
      /\ \A n \in raw : n.id = changes \/ \E b \in DOMAIN existing : n.key = existing[b].key
      /\ \A n \in raw, a \in DOMAIN found :
            n.code # None /\ found[a] = n.code => found[n.slave] = n.code
  BY <1>1, <1>2, <1>3, BuiltUnits
<1>6. \A b \in DOMAIN existing : existing[b] \in subs
  BY ExistingUnits DEF existing, found
<1> HIDE DEF raw
<1>7. \A n \in raw : /\ WithId(n) \in Subentries
                     /\ WithId(n).key = n.key /\ WithId(n).slave = n.slave
                     /\ WithId(n).uid = n.uid /\ WithId(n).code = n.code
                     /\ \/ \E s \in subs : s.key = n.key /\ s.id = WithId(n).id
                        \/ WithId(n).id = n.id /\ \A s \in subs : s.key # n.key
  BY <1>5, WithIdFacts
<1>8. built \subseteq Subentries
  BY <1>4, <1>7
<1>9. IsFiniteSet(built)
  <2> DEFINE f == [n \in raw |-> WithId(n)]
  <2>1. DOMAIN f = raw /\ {f[n] : n \in raw} = built
    BY <1>4
  <2> HIDE DEF f, built
  <2> QED
    BY <1>5, <2>1, ImageFinite
<1> HIDE DEF built
<1>10. {n.slave : n \in built} = DOMAIN found
  <2>1. ASSUME NEW n \in raw PROVE WithId(n) \in built /\ WithId(n).slave = n.slave
    BY <1>4, <1>7
  <2>2. {n.slave : n \in raw} \subseteq {n.slave : n \in built}
    BY <2>1
  <2>3. {n.slave : n \in built} \subseteq {n.slave : n \in raw}
    BY <1>4, <1>7
  <2> QED
    BY <1>5, <2>2, <2>3
<1>11. \A n \in built : n.uid = n.slave
  BY <1>4, <1>5, <1>7
<1>12. \A n, m \in built : n.slave = m.slave => n = m
  <2> SUFFICES ASSUME NEW p \in raw, NEW q \in raw, WithId(p).slave = WithId(q).slave
               PROVE  WithId(p) = WithId(q)
    BY <1>4
  <2>1. p = q
    BY <1>5, <1>7
  <2> QED
    BY <2>1
<1>13. \A n, m \in built : n.key = m.key => n = m
  <2> SUFFICES ASSUME NEW p \in raw, NEW q \in raw, WithId(p).key = WithId(q).key
               PROVE  WithId(p) = WithId(q)
    BY <1>4
  <2>1. p = q
    BY <1>5, <1>7
  <2> QED
    BY <2>1
<1>14. \A n \in built : (\E s \in subs : s.key = n.key /\ s.id = n.id) \/ n.id = changes
  <2> SUFFICES ASSUME NEW p \in raw, ~(\E s \in subs : s.key = WithId(p).key /\ s.id = WithId(p).id)
               PROVE  WithId(p).id = changes
    BY <1>4
  <2>1. WithId(p).key = p.key
    BY <1>7
  <2>2. WithId(p).id = p.id /\ \A s \in subs : s.key # p.key
    BY <1>7, <2>1
  <2>3. p.id = changes \/ \E b \in DOMAIN existing : p.key = existing[b].key
    BY <1>5
  <2> QED
    BY <1>6, <2>2, <2>3
<1>15. \A n \in built, a \in DOMAIN found :
           n.code # None /\ found[a] = n.code => found[n.slave] = n.code
  BY <1>4, <1>5, <1>7
<1> QED
  BY <1>8, <1>9, <1>10, <1>11, <1>12, <1>13, <1>14, <1>15 DEF built, found

\* A unit whose code is stored once and was found at one address is built
\* there with its key and its subentry.
LEMMA RescannedFollows ==
    ASSUME subs \subseteq Subentries, Distinct(subs), rescan \in Rescans, changes \in Nat,
           NEW profile \in Profiles, NEW a \in DOMAIN rescan.found, NEW s \in subs,
           s.code # None, rescan.found[a] = s.code,
           \A b \in DOMAIN rescan.found : rescan.found[b] = s.code => b = a,
           \A t \in subs : t.code = s.code => t = s,
           UnitRooms(subs)[s.slave] = s
    PROVE  \E n \in Rescanned(profile) : n.key = s.key /\ n.id = s.id /\ n.slave = a
<1> DEFINE found == rescan.found
           rooms == UnitRooms(subs)
           existing == MatchExistingRooms(found, rooms)
           profiles == [b \in Slaves |-> profile]
           raw == BuildRoomsFromProfiles(found, existing, profiles, changes)
<1>1. /\ DOMAIN rooms = {t.slave : t \in subs}
      /\ \A b \in DOMAIN rooms : rooms[b] \in subs /\ rooms[b].slave = b
  BY UnitRoomsFacts DEF Distinct
<1>2. /\ KeysOnce(existing)
      /\ \A b \in DOMAIN existing : existing[b] \in subs
  BY ExistingUnits
<1>3. a \in DOMAIN found /\ found[a] = s.code /\ \A c \in DOMAIN found : found[c] = found[a] => c = a
  OBVIOUS
<1>4. s.slave \in DOMAIN rooms /\ rooms[s.slave] = s
  BY <1>1
<1>5. \A c \in DOMAIN rooms : rooms[c].code = found[a] => c = s.slave
  BY <1>1, <1>3
<1> HIDE DEF rooms, found
<1>6. a \in DOMAIN existing /\ existing[a] = s
  BY <1>3, <1>4, <1>5, MatchByCode
<1>7. \A c \in DOMAIN existing : existing[c].code = found[a] => c = a
  BY <1>2, <1>3, <1>6 DEF KeysOnce
<1> HIDE DEF existing
<1>8. LET matched == MatchExistingRooms(found, existing)
      IN  a \in DOMAIN matched /\ matched[a] = existing[a]
  BY <1>3, <1>6, <1>7, MatchByCode
<1>9. PICK n \in raw : n.slave = a /\ n.key = s.key
  <2>1. a \in DOMAIN MatchExistingRooms(found, existing)
    BY <1>8
  <2>2. \E n \in raw : n.slave = a /\ n.key = MatchExistingRooms(found, existing)[a].key
    BY <1>3, <2>1, BuiltKey
  <2> QED
    BY <1>6, <1>8, <2>2
<1>10. raw \subseteq Subentries
  <2>1. found \in ProbeResults
    BY DEF Rescans, found
  <2>2. profiles \in [Slaves -> Profiles]
    OBVIOUS
  <2>3. \A b \in DOMAIN existing : existing[b] \in Subentries
    BY <1>2
  <2> HIDE DEF profiles
  <2> QED
    BY <1>2, <2>1, <2>2, <2>3, BuiltUnits
<1>11. WithId(n) \in Rescanned(profile)
  BY DEF Rescanned, WithId, found, rooms, existing
<1> HIDE DEF raw
<1>12. WithId(n).key = n.key /\ WithId(n).slave = n.slave
  BY <1>10, WithIdFacts
<1>13. WithId(n).id = s.id
  <2>1. \/ \E t \in subs : t.key = n.key /\ t.id = WithId(n).id
        \/ \A t \in subs : t.key # n.key
    BY <1>10, WithIdFacts
  <2> QED
    BY <1>9, <2>1 DEF Distinct
<1> QED
  BY <1>9, <1>11, <1>12, <1>13

\* Home Assistant never refuses what the flow stores: a unit that keeps its
\* unique ID keeps its address, and no other unit is built there.
LEMMA NeverRefused ==
    ASSUME subs \subseteq Subentries, Distinct(subs), rescan \in Rescans, changes \in Nat,
           NEW profile \in Profiles, SaveProfiles(profile)
    PROVE  StoreEntry(Rescanned(profile), Resolve(port))
<1> DEFINE built == Rescanned(profile)
           kept == {s \in subs : \E n \in built : n.key = s.key}
           of(s) == CHOOSE n \in built : n.key = s.key
<1>1. /\ built \subseteq Subentries
      /\ \A n, m \in built : n.slave = m.slave => n = m
  BY RescannedUnits
<1> HIDE DEF built
<1>2. ASSUME NEW s \in kept, NEW n \in built, ClearedUid(s, of(s)) = n.slave, n.key # s.key
      PROVE  FALSE
  <2>1. of(s) \in built /\ of(s).key = s.key
    OBVIOUS
  <2>2. n.slave # None
    BY <1>1, NoneAssumption DEF Subentries
  <2>3. of(s).slave = n.slave
    BY <1>2, <2>2 DEF ClearedUid
  <2> QED
    BY <1>1, <1>2, <2>1, <2>3
<1>3. IF \E s \in kept, n \in built : ClearedUid(s, of(s)) = n.slave /\ n.key # s.key
      THEN StoreEntry(kept, port) ELSE StoreEntry(built, Resolve(port))
  BY DEF SaveProfiles, built
<1>4. ~ \E s \in kept, n \in built : ClearedUid(s, of(s)) = n.slave /\ n.key # s.key
  BY <1>2
<1> HIDE DEF kept, of
<1>5. StoreEntry(built, Resolve(port))
  BY <1>3, <1>4
<1> QED
  BY <1>5 DEF built

-----------------------------------------------------------------------------
(* Distinct units, and nothing left behind                                 *)

\* The entry versions: the current one is none of the older ones.
LEMMA VersionFacts ==
    /\ Current \notin OldVersions /\ <<0, 0>> \notin OldVersions /\ Current # <<0, 0>>
    /\ \A v \in OldVersions : v = <<2, 1>> \/ v[1] = 1
  BY DEF Current, OldVersions

\* The absent value is no setup, runtime data, probe result, rescan or set.
LEMMA NoneFacts ==
    /\ \A x \in Setups : x # None
    /\ \A x \in RuntimeData : x # None
    /\ \A x \in ProbeResults : x # None
    /\ \A x \in Rescans : x # None
    /\ \A x \in SUBSET Slaves : x # None
    /\ None \notin Slaves /\ None \notin Codes
  BY NoneAssumption, NoLocalsAssumption

\* Rooms and snapshots made of stored units have their types.
LEMMA RoomsTyped ==
    ASSUME NEW units, units \subseteq Subentries
    PROVE  /\ RoomConfigs(units) \subseteq Rooms
           /\ SnapshotUnits(units) \subseteq
                 [id: Nat, key: Keys, slave: Slaves, profile: Profiles, code: Codes \union {None}]
<1>1. ASSUME NEW s \in units
      PROVE  /\ s.id \in Nat /\ s.key \in Keys /\ s.slave \in Slaves /\ s.profile \in Profiles
             /\ s.code \in Codes \union {None}
  BY DEF Subentries
<1>2. RoomConfigs(units) \subseteq Rooms
  BY <1>1 DEF RoomConfigs, Rooms
<1>3. SnapshotUnits(units) \subseteq
          [id: Nat, key: Keys, slave: Slaves, profile: Profiles, code: Codes \union {None}]
  BY <1>1 DEF SnapshotUnits
<1> QED
  BY <1>2, <1>3

\* A device is identified by keys and codes.
LEMMA IdentifiersTyped ==
    ASSUME NEW room \in Rooms
    PROVE  RoomIdentifiers(room) \in SUBSET (Keys \union Codes)
  BY DEF RoomIdentifiers, Rooms

\* A probe of the gateway returns a value of the type of probe results.
LEMMA ProbesTyped ==
    ASSUME NEW S, S \subseteq Slaves, NEW f \in Probes(S)
    PROVE  f \in ProbeResults
<1>1. f \in [S -> Codes \union {None}]
  BY DEF Probes
<1>2. S \in SUBSET Slaves
  OBVIOUS
<1> QED
  BY <1>1, <1>2 DEF ProbeResults

\* What the rest of the runtime data is when one field is set.
LEMMA RunningSet ==
    ASSUME running \in RuntimeData
    PROVE  /\ \A x \in (SUBSET Slaves) \union {None} :
                 /\ [running EXCEPT !.reported = x] \in RuntimeData
                 /\ [running EXCEPT !.reported = x].rooms = running.rooms
                 /\ [running EXCEPT !.reported = x].snapshot = running.snapshot
           /\ /\ [running EXCEPT !.scheduled = TRUE] \in RuntimeData
              /\ [running EXCEPT !.scheduled = TRUE].rooms = running.rooms
              /\ [running EXCEPT !.scheduled = TRUE].snapshot = running.snapshot
           /\ \A r \in Rates :
                 /\ [running EXCEPT !.rate = r] \in RuntimeData
                 /\ [running EXCEPT !.rate = r].rooms = running.rooms
                 /\ [running EXCEPT !.rate = r].snapshot = running.snapshot
  BY DEF RuntimeData

\* What the new-unit issue is after an update.
LEMMA IssueUpdated ==
    ASSUME RegistryTypes, NEW known, NEW reported, reported \subseteq Slaves, NEW configured
    PROVE  LET result == UpdateIssue(known, reported, configured)
           IN  /\ result.reported \in SUBSET Slaves
               /\ result.issue # None => result.issue \subseteq Slaves /\ result.issue # {}
  BY DEF RegistryTypes, UpdateIssue

\* The issue restored at setup names addresses, and at least one.
LEMMA IssueRestored ==
    ASSUME RegistryTypes, NEW configured
    PROVE  LET result == RestoreIssue(configured)
           IN  /\ result.reported \in (SUBSET Slaves) \union {None}
               /\ result.issue # None => result.issue \subseteq Slaves /\ result.issue # {}
<1>1. CASE issue = None
  <2>1. RestoreIssue(configured) = [reported |-> None, issue |-> None]
    BY <1>1 DEF RestoreIssue
  <2> QED
    BY <2>1
<1>2. CASE issue # None
  BY <1>2, IssueUpdated DEF RestoreIssue, RegistryTypes
<1> QED
  BY <1>1, <1>2

\* The devices that setup leaves have the keys and codes they had.
LEMMA SyncTyped ==
    ASSUME devices \subseteq SUBSET (Keys \union Codes), NEW rooms
    PROVE  SyncDevices(rooms) \subseteq SUBSET (Keys \union Codes)
<1>1. ASSUME NEW d \in devices
      PROVE  UNION {d \intersect (Keys \union RoomIdentifiers(room)) : room \in {r \in rooms : r.key \in d}}
                 \in SUBSET (Keys \union Codes)
  OBVIOUS
<1> QED
  BY <1>1 DEF SyncDevices, SyncDevicesKeepingCodes

\* What a stored change leaves typed.
LEMMA StoreEntryTyped ==
    ASSUME EntryInv, NEW newSubs, NEW newPort, StoreEntry(newSubs, newPort)
    PROVE  /\ devices' \subseteq SUBSET (Keys \union Codes)
           /\ queued' \in BOOLEAN /\ missed' \in BOOLEAN
           /\ subs' = newSubs /\ port' = newPort
<1>1. devices' \subseteq SUBSET (Keys \union Codes)
  BY DEF StoreEntry, EntryInv, Types, RegistryTypes
<1>2. queued' \in BOOLEAN /\ missed' \in BOOLEAN
  BY DEF StoreEntry, EntryInv, Types, Flags
<1> QED
  BY <1>1, <1>2 DEF StoreEntry

\* A saved rescan: the built units are stored.
LEMMA SaveProfilesEntry ==
    ASSUME EntryInv, rescan # None, NEW profile \in Profiles, SaveProfiles(profile)
    PROVE  EntryInv'
<1> DEFINE built == Rescanned(profile)
<1>1. subs \subseteq Subentries /\ Distinct(subs) /\ rescan \in Rescans /\ changes \in Nat
  BY DEF EntryInv, Types, StoredTypes, FlowTypes
<1>2. StoreEntry(built, Resolve(port))
  BY <1>1, NeverRefused
<1>3. /\ built \subseteq Subentries /\ IsFiniteSet(built)
      /\ \A n \in built : n.uid = n.slave
      /\ \A n, m \in built : n.slave = m.slave => n = m
      /\ \A n, m \in built : n.key = m.key => n = m
  BY <1>1, RescannedUnits
<1> HIDE DEF built
<1>4. /\ devices' \subseteq SUBSET (Keys \union Codes)
      /\ queued' \in BOOLEAN /\ missed' \in BOOLEAN
      /\ subs' = built /\ port' = Resolve(port)
  BY <1>2, StoreEntryTyped
<1>5. version = Current
  BY DEF EntryInv, Lives
<1>6. Types'
  <2>1. StoredTypes'
    BY <1>3, <1>4 DEF EntryInv, Types, StoredTypes, Resolve, Ports, SaveProfiles, world
  <2>2. RuntimeTypes' /\ RegistryTypes' /\ FlowTypes'
    BY <1>4 DEF EntryInv, Types, RuntimeTypes, RegistryTypes, FlowTypes, SaveProfiles
  <2>3. Flags'
    BY <1>4 DEF EntryInv, Types, Flags, SaveProfiles, world
  <2> QED
    BY <2>1, <2>2, <2>3 DEF Types
<1>7. Lives'
  BY DEF EntryInv, Lives, NothingLeftBehind, SaveProfiles
<1>8. IssueNamesNoUnit'
  BY DEF EntryInv, IssueNamesNoUnit, RunningSlaves, SaveProfiles
<1>9. Distinct(subs)' /\ (version \in OldVersions => Ordered(subs))'
  BY <1>3, <1>4, <1>5, VersionFacts DEF Distinct, SaveProfiles
<1> QED
  BY <1>6, <1>7, <1>8, <1>9 DEF EntryInv

\* new_unit: the unit that the subentry flow adds.
LEMMA NewUnitFacts ==
    ASSUME subs \subseteq Subentries, IsFiniteSet(subs), changes \in Nat, NEW a \in Slaves,
           NEW profile \in Profiles, adding \in ProbeResults \union {None}, adding # None,
           a \in DOMAIN adding
    PROVE  LET n == NewUnit(a, adding[a], profile, subs, changes)
           IN  /\ n \in Subentries /\ n.key \notin {s.key : s \in subs}
               /\ n.slave = a /\ n.uid = a /\ n.id = changes
<1> DEFINE taken == {s.key : s \in subs}
           f == [s \in subs |-> s.key]
           key == FreeKey(a, taken)
<1>1. DOMAIN f = subs /\ {f[s] : s \in subs} = taken
  OBVIOUS
<1> HIDE DEF f, taken
<1>2. IsFiniteSet(taken)
  BY <1>1, ImageFinite
<1>3. key \in Keys /\ key \notin taken
  BY <1>2, FreeKeyFree
<1>4. adding[a] \in Codes \union {None}
  BY ProbeResultFacts
<1>5. NewUnit(a, adding[a], profile, subs, changes) =
          [id |-> changes, key |-> key, slave |-> a, uid |-> a, code |-> adding[a],
           profile |-> profile]
  BY DEF NewUnit, Subentry, taken
<1> HIDE DEF key
<1> QED
  BY <1>3, <1>4, <1>5 DEF Subentries, taken

\* NewUnitCheck keeps the entry invariant.
LEMMA NewUnitCheckEntry ==
    ASSUME EntryInv, NewUnitCheck
    PROVE  EntryInv'
<1> DEFINE result == UpdateIssue(running.reported, Found, RunningSlaves)
<1>0. /\ running \in RuntimeData /\ running' = [running EXCEPT !.reported = result.reported]
      /\ issue' = result.issue /\ result.reported \in (SUBSET Slaves) \union {None}
      /\ result.issue # None => result.issue \subseteq Slaves /\ result.issue # {}
  <2>1. running \in RuntimeData
    BY DEF EntryInv, Types, RuntimeTypes, Lives, NothingLeftBehind, NewUnitCheck
  <2>2. Found \subseteq Slaves /\ RegistryTypes
    BY DEF Found, EntryInv, Types
  <2> QED
    BY <2>1, <2>2, IssueUpdated DEF NewUnitCheck
<1> HIDE DEF result
<1>1. Types'
  <2>1. StoredTypes'
    BY DEF EntryInv, Types, StoredTypes, Ports, NewUnitCheck, stored, runtime, registries,
       flows, world, UpdateIssue, RunningSlaves
  <2>2. RuntimeTypes'
    BY <1>0, RunningSet DEF EntryInv, Types, RuntimeTypes, NewUnitCheck, runtime, stored
  <2>3. RegistryTypes'
    BY <1>0 DEF EntryInv, Types, RegistryTypes, NewUnitCheck
  <2>4. FlowTypes'
    BY DEF EntryInv, Types, FlowTypes, NewUnitCheck, stored, runtime, registries, flows,
       world, UpdateIssue, RunningSlaves
  <2>5. Flags'
    BY DEF EntryInv, Types, Flags, NewUnitCheck, stored, runtime, registries, flows, world,
       UpdateIssue, RunningSlaves
  <2> QED
    BY <2>1, <2>2, <2>3, <2>4, <2>5 DEF Types
<1>2. Lives'
  <2>1. running # None /\ running' # None
    BY <1>0, RunningSet, NoneFacts
  <2> QED
    BY <2>1 DEF EntryInv, Lives, NothingLeftBehind, NewUnitCheck, stored, runtime, flows
<1>3. IssueNamesNoUnit'
  <2>1. RunningSlaves' = RunningSlaves
    BY <1>0, RunningSet DEF RunningSlaves
  <2>2. issue' # None => issue' \intersect RunningSlaves = {}
    <3>1. running # None
      BY <1>0, NoneFacts
    <3> QED
      BY <1>0, <3>1 DEF result, UpdateIssue, EntryInv, IssueNamesNoUnit
  <2> QED
    BY <2>1, <2>2 DEF IssueNamesNoUnit
<1>4. Distinct(subs)' /\ (version \in OldVersions => Ordered(subs))'
  BY DEF EntryInv, NewUnitCheck, stored, runtime, registries, flows, world, UpdateIssue,
     RunningSlaves
<1> QED
  BY <1>1, <1>2, <1>3, <1>4 DEF EntryInv

\* BeginSetup keeps the entry invariant.
LEMMA BeginSetupEntry ==
    ASSUME EntryInv, BeginSetup
    PROVE  EntryInv'
<1>0. setup' \in Setups /\ devices' \subseteq SUBSET (Keys \union Codes)
  <2>1. RoomConfigs(subs) \subseteq Rooms
    BY RoomsTyped DEF EntryInv, Types, StoredTypes
  <2>2. Resolve(port) \in {"tty", "by_id", "net"}
    BY DEF Resolve, EntryInv, Types, StoredTypes, Ports
  <2>3. setup' = [rooms |-> RoomConfigs(subs), port |-> Resolve(port), rate |-> rate]
    BY DEF BeginSetup
  <2>4. setup' \in Setups
    BY <2>1, <2>2, <2>3 DEF Setups, EntryInv, Types, StoredTypes
  <2> QED
    BY <2>4, SyncTyped DEF BeginSetup, EntryInv, Types, RegistryTypes
<1>1. Types'
  <2>1. StoredTypes'
    BY DEF EntryInv, Types, StoredTypes, Ports, BeginSetup, stored, runtime, registries,
       flows, world, Resolve
  <2>2. RuntimeTypes'
    BY <1>0 DEF EntryInv, Types, RuntimeTypes, Phases, BeginSetup
  <2>3. RegistryTypes'
    BY <1>0 DEF EntryInv, Types, RegistryTypes, BeginSetup
  <2>4. FlowTypes'
    BY DEF EntryInv, Types, FlowTypes, BeginSetup, stored, runtime, registries, flows,
       world, Resolve
  <2>5. Flags'
    BY DEF EntryInv, Types, Flags, BeginSetup, stored, runtime, registries, flows, world,
       Resolve
  <2> QED
    BY <2>1, <2>2, <2>3, <2>4, <2>5 DEF Types
<1>2. Lives'
  <2>1. setup' # None
    BY <1>0, NoneFacts
  <2> QED
    BY <2>1, VersionFacts DEF EntryInv, Types, StoredTypes, Lives, NothingLeftBehind,
       BeginSetup, flows
<1>3. IssueNamesNoUnit'
  BY NoneFacts DEF EntryInv, Types, RuntimeTypes, RegistryTypes, FlowTypes, Lives,
     NothingLeftBehind, IssueNamesNoUnit, RunningSlaves, BeginSetup, stored, runtime,
     registries, flows, world, Resolve
<1>4. Distinct(subs)' /\ (version \in OldVersions => Ordered(subs))'
  BY DEF EntryInv, BeginSetup, stored, runtime, registries, flows, world, Resolve
<1> QED
  BY <1>1, <1>2, <1>3, <1>4 DEF EntryInv

\* GatewayValid keeps the entry invariant.
LEMMA GatewayValidEntry ==
    ASSUME EntryInv, GatewayValid
    PROVE  EntryInv'
<1> DEFINE restored == RestoreIssue({room.slave : room \in setup.rooms})
<1>0. /\ running' \in RuntimeData /\ running'.rooms = setup.rooms
      /\ issue' = restored.issue
      /\ restored.issue # None => restored.issue \subseteq Slaves /\ restored.issue # {}
  <2>1. setup \in Setups
    BY DEF EntryInv, Types, RuntimeTypes, Lives, GatewayValid
  <2>2. /\ restored.reported \in (SUBSET Slaves) \union {None}
        /\ restored.issue # None => restored.issue \subseteq Slaves /\ restored.issue # {}
    BY IssueRestored DEF EntryInv, Types
  <2>3. Stored \in Snapshots
    BY RoomsTyped DEF Stored, Snapshots, EntryInv, Types, StoredTypes, Ports
  <2>4. /\ running' = [rooms |-> setup.rooms, port |-> setup.port, rate |-> setup.rate,
                       snapshot |-> Stored, scheduled |-> FALSE, reported |-> restored.reported]
        /\ issue' = restored.issue
    BY DEF GatewayValid
  <2> HIDE DEF restored
  <2>5. /\ setup.rooms \in SUBSET Rooms /\ setup.port \in {"tty", "by_id", "net"}
        /\ setup.rate \in Rates
    BY <2>1 DEF Setups
  <2>6. running' \in RuntimeData
    BY <2>2, <2>3, <2>4, <2>5 DEF RuntimeData
  <2> QED
    BY <2>2, <2>4, <2>6
<1>1. Types'
  <2>1. StoredTypes'
    BY DEF EntryInv, Types, StoredTypes, Ports, GatewayValid, stored, runtime, registries,
       flows, world, RestoreIssue, UpdateIssue, RunningSlaves
  <2>2. RuntimeTypes'
    BY <1>0 DEF EntryInv, Types, RuntimeTypes, Phases, GatewayValid
  <2>3. RegistryTypes'
    BY <1>0 DEF EntryInv, Types, RegistryTypes, GatewayValid
  <2>4. FlowTypes'
    BY DEF EntryInv, Types, FlowTypes, GatewayValid, stored, runtime, registries, flows,
       world, RestoreIssue, UpdateIssue, RunningSlaves
  <2>5. Flags'
    BY DEF EntryInv, Types, Flags, GatewayValid, stored, runtime, registries, flows, world,
       RestoreIssue, UpdateIssue, RunningSlaves
  <2> QED
    BY <2>1, <2>2, <2>3, <2>4, <2>5 DEF Types
<1>2. Lives'
  <2>1. running' # None
    BY <1>0, NoneFacts
  <2> QED
    BY <2>1, VersionFacts DEF EntryInv, Lives, NothingLeftBehind, GatewayValid, stored, flows
<1>3. IssueNamesNoUnit'
  <2>1. RunningSlaves' = {room.slave : room \in setup.rooms}
    BY <1>0 DEF RunningSlaves
  <2>2. restored.issue # None => restored.issue \intersect {room.slave : room \in setup.rooms} = {}
    BY DEF RestoreIssue, UpdateIssue
  <2> HIDE DEF restored
  <2> QED
    BY <1>0, <2>1, <2>2 DEF IssueNamesNoUnit
<1>4. Distinct(subs)' /\ (version \in OldVersions => Ordered(subs))'
  BY DEF EntryInv, GatewayValid, stored, runtime, registries, flows, world, RestoreIssue,
     UpdateIssue, RunningSlaves
<1> QED
  BY <1>1, <1>2, <1>3, <1>4 DEF EntryInv

\* GatewayInvalid keeps the entry invariant.
LEMMA GatewayInvalidEntry ==
    ASSUME EntryInv, GatewayInvalid
    PROVE  EntryInv'
<1>1. Types'
  <2>1. StoredTypes'
    BY DEF EntryInv, Types, StoredTypes, Ports, GatewayInvalid, stored, runtime, registries,
       flows, world, ClientAfterFailure
  <2>2. RuntimeTypes'
    BY DEF EntryInv, Types, StoredTypes, RuntimeTypes, Phases, GatewayInvalid, stored,
       runtime, registries, flows, world, ClientAfterFailure
  <2>3. RegistryTypes'
    BY DEF EntryInv, Types, RegistryTypes, GatewayInvalid, stored, runtime, registries,
       flows, world, ClientAfterFailure
  <2>4. FlowTypes'
    BY DEF EntryInv, Types, FlowTypes, GatewayInvalid, stored, runtime, registries, flows,
       world, ClientAfterFailure
  <2>5. Flags'
    BY DEF EntryInv, Types, Flags, GatewayInvalid, stored, runtime, registries, flows,
       world, ClientAfterFailure
  <2> QED
    BY <2>1, <2>2, <2>3, <2>4, <2>5 DEF Types
<1>2. Lives'
  BY NoneFacts, VersionFacts DEF EntryInv, Types, StoredTypes, RuntimeTypes, RegistryTypes,
     FlowTypes, Lives, NothingLeftBehind, GatewayInvalid, stored, runtime, registries,
     flows, world, ClientAfterFailure
<1>3. IssueNamesNoUnit'
  BY NoneFacts DEF EntryInv, Types, RuntimeTypes, RegistryTypes, FlowTypes, Lives,
     NothingLeftBehind, IssueNamesNoUnit, RunningSlaves, GatewayInvalid, stored, runtime,
     registries, flows, world, ClientAfterFailure
<1>4. Distinct(subs)' /\ (version \in OldVersions => Ordered(subs))'
  BY DEF EntryInv, GatewayInvalid, stored, runtime, registries, flows, world, ClientAfterFailure
<1> QED
  BY <1>1, <1>2, <1>3, <1>4 DEF EntryInv

\* PlatformsReady keeps the entry invariant.
LEMMA PlatformsReadyEntry ==
    ASSUME EntryInv, PlatformsReady
    PROVE  EntryInv'
<1>1. Types'
  <2>1. StoredTypes'
    BY DEF EntryInv, Types, StoredTypes, Ports, PlatformsReady, stored, runtime, registries,
       flows, world
  <2>2. RuntimeTypes'
    BY DEF EntryInv, Types, StoredTypes, RuntimeTypes, Phases, PlatformsReady, stored,
       runtime, registries, flows, world
  <2>3. RegistryTypes'
    <3>1. running \in RuntimeData
      BY DEF EntryInv, Types, RuntimeTypes, Lives, NothingLeftBehind, PlatformsReady
    <3>2. running.rooms \subseteq Rooms
      BY <3>1 DEF RuntimeData
    <3>3. \A room \in running.rooms : RoomIdentifiers(room) \in SUBSET (Keys \union Codes)
      BY <3>2, IdentifiersTyped
    <3>4. devices' \subseteq devices \union {RoomIdentifiers(room) : room \in running.rooms}
      BY DEF PlatformsReady
    <3> QED
      BY <3>3, <3>4 DEF EntryInv, Types, RegistryTypes, PlatformsReady
  <2>4. FlowTypes'
    BY DEF EntryInv, Types, FlowTypes, PlatformsReady, stored, runtime, registries, flows, world
  <2>5. Flags'
    BY DEF EntryInv, Types, Flags, PlatformsReady, stored, runtime, registries, flows, world
  <2> QED
    BY <2>1, <2>2, <2>3, <2>4, <2>5 DEF Types
<1>2. Lives'
  BY NoneFacts, VersionFacts DEF EntryInv, Types, StoredTypes, RuntimeTypes, RegistryTypes,
     FlowTypes, Lives, NothingLeftBehind, PlatformsReady, stored, runtime, registries,
     flows, world
<1>3. IssueNamesNoUnit'
  BY NoneFacts DEF EntryInv, Types, RuntimeTypes, RegistryTypes, FlowTypes, Lives,
     NothingLeftBehind, IssueNamesNoUnit, RunningSlaves, PlatformsReady, stored, runtime,
     registries, flows, world
<1>4. Distinct(subs)' /\ (version \in OldVersions => Ordered(subs))'
  BY DEF EntryInv, PlatformsReady, stored, runtime, registries, flows, world
<1> QED
  BY <1>1, <1>2, <1>3, <1>4 DEF EntryInv

\* PlatformsFail keeps the entry invariant.
LEMMA PlatformsFailEntry ==
    ASSUME EntryInv, PlatformsFail
    PROVE  EntryInv'
<1>1. Types'
  <2>1. StoredTypes'
    BY DEF EntryInv, Types, StoredTypes, Ports, PlatformsFail, stored, runtime, registries,
       flows, world, ClientAfterFailure
  <2>2. RuntimeTypes'
    BY DEF EntryInv, Types, StoredTypes, RuntimeTypes, Phases, PlatformsFail, stored,
       runtime, registries, flows, world, ClientAfterFailure
  <2>3. RegistryTypes'
    BY DEF EntryInv, Types, RegistryTypes, PlatformsFail, stored, runtime, registries,
       flows, world, ClientAfterFailure
  <2>4. FlowTypes'
    BY DEF EntryInv, Types, FlowTypes, PlatformsFail, stored, runtime, registries, flows,
       world, ClientAfterFailure
  <2>5. Flags'
    BY DEF EntryInv, Types, Flags, PlatformsFail, stored, runtime, registries, flows, world,
       ClientAfterFailure
  <2> QED
    BY <2>1, <2>2, <2>3, <2>4, <2>5 DEF Types
<1>2. Lives'
  BY NoneFacts, VersionFacts DEF EntryInv, Types, StoredTypes, RuntimeTypes, RegistryTypes,
     FlowTypes, Lives, NothingLeftBehind, PlatformsFail, stored, runtime, registries, flows,
     world, ClientAfterFailure
<1>3. IssueNamesNoUnit'
  BY NoneFacts DEF EntryInv, Types, RuntimeTypes, RegistryTypes, FlowTypes, Lives,
     NothingLeftBehind, IssueNamesNoUnit, RunningSlaves, PlatformsFail, stored, runtime,
     registries, flows, world, ClientAfterFailure
<1>4. Distinct(subs)' /\ (version \in OldVersions => Ordered(subs))'
  BY DEF EntryInv, PlatformsFail, stored, runtime, registries, flows, world, ClientAfterFailure
<1> QED
  BY <1>1, <1>2, <1>3, <1>4 DEF EntryInv

\* UpdateListener keeps the entry invariant.
LEMMA UpdateListenerEntry ==
    ASSUME EntryInv, UpdateListener
    PROVE  EntryInv'
<1>0. /\ running' \in RuntimeData \union {None} /\ (running' = None <=> running = None)
      /\ running # None => running'.rooms = running.rooms
  <2>1. CASE running = None
    BY <2>1 DEF UpdateListener, NeedsReload
  <2>2. CASE running # None
    <3>1. running \in RuntimeData
      BY <2>2 DEF EntryInv, Types, RuntimeTypes
    <3> QED
      BY <2>2, <3>1, RunningSet, NoneFacts DEF UpdateListener
  <2> QED
    BY <2>1, <2>2
<1>1. Types'
  <2>1. StoredTypes'
    BY DEF EntryInv, Types, StoredTypes, Ports, UpdateListener, stored, runtime, registries,
       flows, world, NeedsReload
  <2>2. RuntimeTypes'
    BY <1>0 DEF EntryInv, Types, RuntimeTypes, UpdateListener, stored
  <2>3. RegistryTypes'
    BY DEF EntryInv, Types, RegistryTypes, UpdateListener, stored, runtime, registries,
       flows, world, NeedsReload
  <2>4. FlowTypes'
    BY DEF EntryInv, Types, FlowTypes, UpdateListener, stored, runtime, registries, flows,
       world, NeedsReload
  <2>5. Flags'
    BY DEF EntryInv, Types, Flags, UpdateListener, stored, runtime, registries, flows,
       world, NeedsReload
  <2> QED
    BY <2>1, <2>2, <2>3, <2>4, <2>5 DEF Types
<1>2. Lives'
  BY <1>0 DEF EntryInv, Lives, NothingLeftBehind, UpdateListener, stored, flows
<1>3. IssueNamesNoUnit'
  BY <1>0 DEF EntryInv, IssueNamesNoUnit, RunningSlaves, UpdateListener, registries
<1>4. Distinct(subs)' /\ (version \in OldVersions => Ordered(subs))'
  BY DEF EntryInv, UpdateListener, stored, runtime, registries, flows, world, NeedsReload
<1> QED
  BY <1>1, <1>2, <1>3, <1>4 DEF EntryInv

\* BeginReload keeps the entry invariant.
LEMMA BeginReloadEntry ==
    ASSUME EntryInv, BeginReload
    PROVE  EntryInv'
<1>1. Types'
  <2>1. StoredTypes'
    BY DEF EntryInv, Types, StoredTypes, Ports, BeginReload, stored, runtime, registries,
       flows, world
  <2>2. RuntimeTypes'
    BY DEF EntryInv, Types, StoredTypes, RuntimeTypes, Phases, BeginReload, stored, runtime,
       registries, flows, world
  <2>3. RegistryTypes'
    BY DEF EntryInv, Types, RegistryTypes, BeginReload, stored, runtime, registries, flows,
       world
  <2>4. FlowTypes'
    BY DEF EntryInv, Types, FlowTypes, BeginReload, stored, runtime, registries, flows, world
  <2>5. Flags'
    BY DEF EntryInv, Types, Flags, BeginReload, stored, runtime, registries, flows, world
  <2> QED
    BY <2>1, <2>2, <2>3, <2>4, <2>5 DEF Types
<1>2. Lives'
  BY NoneFacts, VersionFacts DEF EntryInv, Types, StoredTypes, RuntimeTypes, RegistryTypes,
     FlowTypes, Lives, NothingLeftBehind, BeginReload, stored, runtime, registries, flows,
     world
<1>3. IssueNamesNoUnit'
  BY NoneFacts DEF EntryInv, Types, RuntimeTypes, RegistryTypes, FlowTypes, Lives,
     NothingLeftBehind, IssueNamesNoUnit, RunningSlaves, BeginReload, stored, runtime,
     registries, flows, world
<1>4. Distinct(subs)' /\ (version \in OldVersions => Ordered(subs))'
  BY DEF EntryInv, BeginReload, stored, runtime, registries, flows, world
<1> QED
  BY <1>1, <1>2, <1>3, <1>4 DEF EntryInv

\* Unloaded keeps the entry invariant.
LEMMA UnloadedEntry ==
    ASSUME EntryInv, Unloaded
    PROVE  EntryInv'
<1>1. Types'
  <2>1. StoredTypes'
    BY DEF EntryInv, Types, StoredTypes, Ports, Unloaded, stored, runtime, registries,
       flows, world
  <2>2. RuntimeTypes'
    BY DEF EntryInv, Types, StoredTypes, RuntimeTypes, Phases, Unloaded, stored, runtime,
       registries, flows, world
  <2>3. RegistryTypes'
    BY DEF EntryInv, Types, RegistryTypes, Unloaded, stored, runtime, registries, flows, world
  <2>4. FlowTypes'
    BY DEF EntryInv, Types, FlowTypes, Unloaded, stored, runtime, registries, flows, world
  <2>5. Flags'
    BY DEF EntryInv, Types, Flags, Unloaded, stored, runtime, registries, flows, world
  <2> QED
    BY <2>1, <2>2, <2>3, <2>4, <2>5 DEF Types
<1>2. Lives'
  BY NoneFacts, VersionFacts DEF EntryInv, Types, StoredTypes, RuntimeTypes, RegistryTypes,
     FlowTypes, Lives, NothingLeftBehind, Unloaded, stored, runtime, registries, flows,
     world
<1>3. IssueNamesNoUnit'
  BY NoneFacts DEF EntryInv, Types, RuntimeTypes, RegistryTypes, FlowTypes, Lives,
     NothingLeftBehind, IssueNamesNoUnit, RunningSlaves, Unloaded, stored, runtime,
     registries, flows, world
<1>4. Distinct(subs)' /\ (version \in OldVersions => Ordered(subs))'
  BY DEF EntryInv, Unloaded, stored, runtime, registries, flows, world
<1> QED
  BY <1>1, <1>2, <1>3, <1>4 DEF EntryInv

\* UnloadFails keeps the entry invariant.
LEMMA UnloadFailsEntry ==
    ASSUME EntryInv, UnloadFails
    PROVE  EntryInv'
<1>1. Types'
  <2>1. StoredTypes'
    BY DEF EntryInv, Types, StoredTypes, Ports, UnloadFails, stored, runtime, registries,
       flows, world
  <2>2. RuntimeTypes'
    BY DEF EntryInv, Types, StoredTypes, RuntimeTypes, Phases, UnloadFails, stored, runtime,
       registries, flows, world
  <2>3. RegistryTypes'
    BY DEF EntryInv, Types, RegistryTypes, UnloadFails, stored, runtime, registries, flows,
       world
  <2>4. FlowTypes'
    BY DEF EntryInv, Types, FlowTypes, UnloadFails, stored, runtime, registries, flows, world
  <2>5. Flags'
    BY DEF EntryInv, Types, Flags, UnloadFails, stored, runtime, registries, flows, world
  <2> QED
    BY <2>1, <2>2, <2>3, <2>4, <2>5 DEF Types
<1>2. Lives'
  BY NoneFacts, VersionFacts DEF EntryInv, Types, StoredTypes, RuntimeTypes, RegistryTypes,
     FlowTypes, Lives, NothingLeftBehind, UnloadFails, stored, runtime, registries, flows,
     world
<1>3. IssueNamesNoUnit'
  BY NoneFacts DEF EntryInv, Types, RuntimeTypes, RegistryTypes, FlowTypes, Lives,
     NothingLeftBehind, IssueNamesNoUnit, RunningSlaves, UnloadFails, stored, runtime,
     registries, flows, world
<1>4. Distinct(subs)' /\ (version \in OldVersions => Ordered(subs))'
  BY DEF EntryInv, UnloadFails, stored, runtime, registries, flows, world
<1> QED
  BY <1>1, <1>2, <1>3, <1>4 DEF EntryInv

\* Restart keeps the entry invariant.
LEMMA RestartEntry ==
    ASSUME EntryInv, Restart
    PROVE  EntryInv'
<1>1. Types'
  <2>1. StoredTypes'
    BY DEF EntryInv, Types, StoredTypes, Ports, Restart, stored, runtime, registries, flows,
       world, Act
  <2>2. RuntimeTypes'
    BY DEF EntryInv, Types, StoredTypes, RuntimeTypes, Phases, Restart, stored, runtime,
       registries, flows, world, Act
  <2>3. RegistryTypes'
    BY DEF EntryInv, Types, RegistryTypes, Restart, stored, runtime, registries, flows,
       world, Act
  <2>4. FlowTypes'
    BY DEF EntryInv, Types, FlowTypes, Restart, stored, runtime, registries, flows, world, Act
  <2>5. Flags'
    BY DEF EntryInv, Types, Flags, Restart, stored, runtime, registries, flows, world, Act
  <2> QED
    BY <2>1, <2>2, <2>3, <2>4, <2>5 DEF Types
<1>2. Lives'
  BY NoneFacts, VersionFacts DEF EntryInv, Types, StoredTypes, RuntimeTypes, RegistryTypes,
     FlowTypes, Lives, NothingLeftBehind, Restart, stored, runtime, registries, flows,
     world, Act
<1>3. IssueNamesNoUnit'
  BY NoneFacts DEF EntryInv, Types, RuntimeTypes, RegistryTypes, FlowTypes, Lives,
     NothingLeftBehind, IssueNamesNoUnit, RunningSlaves, Restart, stored, runtime,
     registries, flows, world, Act
<1>4. Distinct(subs)' /\ (version \in OldVersions => Ordered(subs))'
  BY DEF EntryInv, Restart, stored, runtime, registries, flows, world, Act
<1> QED
  BY <1>1, <1>2, <1>3, <1>4 DEF EntryInv

\* ScanGateway keeps the entry invariant.
LEMMA ScanGatewayEntry ==
    ASSUME EntryInv, ScanGateway
    PROVE  EntryInv'
<1>1. Types'
  <2>1. StoredTypes'
    BY DEF EntryInv, Types, StoredTypes, Ports, ScanGateway, stored, runtime, registries,
       flows, world
  <2>2. RuntimeTypes'
    BY DEF EntryInv, Types, StoredTypes, RuntimeTypes, Phases, ScanGateway, stored, runtime,
       registries, flows, world
  <2>3. RegistryTypes'
    BY DEF EntryInv, Types, RegistryTypes, ScanGateway, stored, runtime, registries, flows,
       world
  <2>4. FlowTypes'
    <3>1. Found \subseteq Slaves
      BY DEF Found
    <3>2. adding' \in ProbeResults
      BY <3>1, ProbesTyped DEF ScanGateway
    <3> QED
      BY <3>2 DEF EntryInv, Types, FlowTypes, ScanGateway
  <2>5. Flags'
    BY DEF EntryInv, Types, Flags, ScanGateway, stored, runtime, registries, flows, world
  <2> QED
    BY <2>1, <2>2, <2>3, <2>4, <2>5 DEF Types
<1>2. Lives'
  BY NoneFacts, VersionFacts DEF EntryInv, Types, StoredTypes, RuntimeTypes, RegistryTypes,
     FlowTypes, Lives, NothingLeftBehind, ScanGateway, stored, runtime, registries, flows,
     world
<1>3. IssueNamesNoUnit'
  BY NoneFacts DEF EntryInv, Types, RuntimeTypes, RegistryTypes, FlowTypes, Lives,
     NothingLeftBehind, IssueNamesNoUnit, RunningSlaves, ScanGateway, stored, runtime,
     registries, flows, world
<1>4. Distinct(subs)' /\ (version \in OldVersions => Ordered(subs))'
  BY DEF EntryInv, ScanGateway, stored, runtime, registries, flows, world
<1> QED
  BY <1>1, <1>2, <1>3, <1>4 DEF EntryInv

\* CreateEntry keeps the entry invariant.
LEMMA CreateEntryEntry ==
    ASSUME EntryInv, NEW profile \in Profiles, CreateEntry(profile)
    PROVE  EntryInv'
<1> DEFINE none == [a \in {} |-> None]
           profiles == [a \in Slaves |-> profile]
           built == BuildRoomsFromProfiles(adding, none, profiles, 0)
<1>0. /\ built \subseteq Subentries /\ IsFiniteSet(built)
      /\ \A n \in built : n.uid = n.slave
      /\ \A n, m \in built : n.slave = m.slave => n = m
      /\ \A n, m \in built : n.key = m.key => n = m
      /\ subs' = built
  <2>1. adding \in ProbeResults
    BY DEF EntryInv, Types, FlowTypes, CreateEntry
  <2>2. KeysOnce(none) /\ \A a \in DOMAIN none : none[a] \in Subentries
    BY DEF KeysOnce
  <2>3. profiles \in [Slaves -> Profiles] /\ 0 \in Nat
    OBVIOUS
  <2>4. subs' = built
    BY DEF CreateEntry
  <2> HIDE DEF none, profiles
  <2> QED
    BY <2>1, <2>2, <2>3, <2>4, BuiltUnits
<1> HIDE DEF built
<1>1. Types'
  <2>1. StoredTypes'
    BY <1>0 DEF EntryInv, Types, StoredTypes, Ports, CreateEntry, Resolve, world
  <2>2. RuntimeTypes'
    BY DEF EntryInv, Types, StoredTypes, RuntimeTypes, Phases, CreateEntry, stored, runtime,
       registries, flows, world, Resolve
  <2>3. RegistryTypes'
    BY DEF EntryInv, Types, RegistryTypes, CreateEntry, stored, runtime, registries, flows,
       world, Resolve
  <2>4. FlowTypes'
    BY DEF EntryInv, Types, FlowTypes, CreateEntry, stored, runtime, registries, flows,
       world, Resolve
  <2>5. Flags'
    BY DEF EntryInv, Types, Flags, CreateEntry, stored, runtime, registries, flows, world,
       Resolve
  <2> QED
    BY <2>1, <2>2, <2>3, <2>4, <2>5 DEF Types
<1>2. Lives'
  BY NoneFacts, VersionFacts DEF EntryInv, Types, StoredTypes, RuntimeTypes, RegistryTypes,
     FlowTypes, Lives, NothingLeftBehind, CreateEntry, stored, runtime, registries, flows,
     world, Resolve
<1>3. IssueNamesNoUnit'
  BY NoneFacts DEF EntryInv, Types, RuntimeTypes, RegistryTypes, FlowTypes, Lives,
     NothingLeftBehind, IssueNamesNoUnit, RunningSlaves, CreateEntry, stored, runtime,
     registries, flows, world, Resolve
<1>4. Distinct(subs)' /\ (version \in OldVersions => Ordered(subs))'
  BY <1>0, VersionFacts DEF Distinct, CreateEntry
<1> QED
  BY <1>1, <1>2, <1>3, <1>4 DEF EntryInv

\* MigrateEntry keeps the entry invariant.
LEMMA MigrateEntryEntry ==
    ASSUME EntryInv, MigrateEntry
    PROVE  EntryInv'
<1> DEFINE later(s) == \E t \in subs : t.slave = s.slave /\ t.key[2] < s.key[2]
           uid(s) == IF later(s) THEN None ELSE s.slave
           migrated(s) == [s EXCEPT !.uid = uid(s)]
<1>0. version \in OldVersions /\ subs \subseteq Subentries /\ Distinct(subs) /\ Ordered(subs)
  BY DEF EntryInv, Types, StoredTypes, MigrateEntry
<1>01. \A s \in subs : /\ migrated(s) \in Subentries
                      /\ migrated(s).key = s.key /\ migrated(s).slave = s.slave
                      /\ migrated(s).uid = uid(s)
  <2>1. \A s \in subs : uid(s) \in Slaves \union {None}
    BY <1>0 DEF Subentries
  <2> HIDE DEF uid
  <2> QED
    BY <1>0, <2>1 DEF Subentries
<1> HIDE DEF migrated
<1>02. \A s, t \in subs : s.slave = t.slave /\ ~later(s) /\ ~later(t) => s = t
  <2> TAKE s, t \in subs
  <2> HAVE s.slave = t.slave /\ ~later(s) /\ ~later(t)
  <2>1. s.key[2] \in Nat /\ t.key[2] \in Nat
    BY <1>0 DEF Subentries, Keys
  <2>2. ~(t.key[2] < s.key[2]) /\ ~(s.key[2] < t.key[2])
    OBVIOUS
  <2>3. s.key[2] = t.key[2]
    BY <2>1, <2>2
  <2> QED
    BY <1>0, <2>3 DEF Ordered
<1>03. version[1] # 2 => subs' = {migrated(s) : s \in subs}
  BY DEF MigrateEntry, migrated
<1>04. version[1] = 2 => subs' = subs
  BY DEF MigrateEntry
<1>05. subs' \subseteq Subentries /\ IsFiniteSet(subs')
  <2>1. CASE version[1] = 2
    BY <1>04, <2>1 DEF EntryInv, Types, StoredTypes
  <2>2. CASE version[1] # 2
    <3> DEFINE f == [s \in subs |-> migrated(s)]
    <3>1. DOMAIN f = subs /\ {f[s] : s \in subs} = subs'
      BY <1>03, <2>2
    <3>2. IsFiniteSet(subs)
      BY DEF EntryInv, Types, StoredTypes
    <3> HIDE DEF f
    <3>3. IsFiniteSet(subs')
      BY <3>1, <3>2, ImageFinite
    <3> QED
      BY <1>01, <1>03, <2>2, <3>3
  <2> QED
    BY <2>1, <2>2
<1>1. Types'
  <2>1. StoredTypes'
    BY <1>05 DEF EntryInv, Types, StoredTypes, MigrateEntry, world
  <2>2. RuntimeTypes'
    BY DEF EntryInv, Types, StoredTypes, RuntimeTypes, Phases, MigrateEntry, stored,
       runtime, registries, flows, world
  <2>3. RegistryTypes'
    BY DEF EntryInv, Types, RegistryTypes, MigrateEntry, stored, runtime, registries, flows,
       world
  <2>4. FlowTypes'
    BY DEF EntryInv, Types, FlowTypes, MigrateEntry, stored, runtime, registries, flows, world
  <2>5. Flags'
    BY DEF EntryInv, Types, Flags, MigrateEntry, stored, runtime, registries, flows, world
  <2> QED
    BY <2>1, <2>2, <2>3, <2>4, <2>5 DEF Types
<1>2. Lives'
  BY NoneFacts, VersionFacts DEF EntryInv, Types, StoredTypes, RuntimeTypes, RegistryTypes,
     FlowTypes, Lives, NothingLeftBehind, MigrateEntry, stored, runtime, registries, flows,
     world
<1>3. IssueNamesNoUnit'
  BY NoneFacts DEF EntryInv, Types, RuntimeTypes, RegistryTypes, FlowTypes, Lives,
     NothingLeftBehind, IssueNamesNoUnit, RunningSlaves, MigrateEntry, stored, runtime,
     registries, flows, world
<1>4. Distinct(subs)' /\ (version \in OldVersions => Ordered(subs))'
  <2>1. CASE version[1] = 2
    BY <1>0, <1>04, <2>1, VersionFacts DEF MigrateEntry, Distinct
  <2>2. CASE version[1] # 2
    <3>1. \A n \in subs' : \E s \in subs : n = migrated(s)
      BY <1>03, <2>2
    <3>2. \A n, m \in subs' : n.key = m.key => n = m
      BY <1>0, <1>01, <3>1 DEF Distinct
    <3>3. \A n \in subs' : n.uid \in {n.slave, None}
      BY <1>01, <3>1
    <3>4. \A n, m \in subs' : n.uid = m.uid /\ n.uid # None => n = m
      <4> SUFFICES ASSUME NEW s \in subs, NEW t \in subs,
                          migrated(s).uid = migrated(t).uid, migrated(s).uid # None
                   PROVE  migrated(s) = migrated(t)
        BY <3>1
      <4>1. ~later(s) /\ ~later(t) /\ s.slave = t.slave
        BY <1>01
      <4>2. s = t
        BY <1>02, <4>1
      <4> QED
        BY <4>2
    <3> QED
      BY <3>2, <3>3, <3>4, VersionFacts DEF MigrateEntry, Distinct
  <2> QED
    BY <2>1, <2>2
<1> QED
  BY <1>1, <1>2, <1>3, <1>4 DEF EntryInv

\* StartRescan keeps the entry invariant.
LEMMA StartRescanEntry ==
    ASSUME EntryInv, StartRescan
    PROVE  EntryInv'
<1>1. Types'
  <2>1. StoredTypes'
    BY DEF EntryInv, Types, StoredTypes, Ports, StartRescan, stored, runtime, registries,
       flows, world, Act
  <2>2. RuntimeTypes'
    BY DEF EntryInv, Types, StoredTypes, RuntimeTypes, Phases, StartRescan, stored, runtime,
       registries, flows, world, Act
  <2>3. RegistryTypes'
    BY DEF EntryInv, Types, RegistryTypes, StartRescan, stored, runtime, registries, flows,
       world, Act
  <2>4. FlowTypes'
    <3>1. Found \subseteq Slaves
      BY DEF Found
    <3>2. PICK found \in Probes(Found) :
              rescan' = [found |-> found, confirm |-> FALSE, named |-> {}, profile |-> None]
      BY DEF StartRescan
    <3>3. found \in ProbeResults
      BY <3>1, ProbesTyped
    <3>4. rescan' \in Rescans
      BY <3>2, <3>3 DEF Rescans
    <3> QED
      BY <3>4 DEF EntryInv, Types, FlowTypes, StartRescan
  <2>5. Flags'
    BY DEF EntryInv, Types, Flags, StartRescan, stored, runtime, registries, flows, world, Act
  <2> QED
    BY <2>1, <2>2, <2>3, <2>4, <2>5 DEF Types
<1>2. Lives'
  BY NoneFacts, VersionFacts DEF EntryInv, Types, StoredTypes, RuntimeTypes, RegistryTypes,
     FlowTypes, Lives, NothingLeftBehind, StartRescan, stored, runtime, registries, flows,
     world, Act
<1>3. IssueNamesNoUnit'
  BY NoneFacts DEF EntryInv, Types, RuntimeTypes, RegistryTypes, FlowTypes, Lives,
     NothingLeftBehind, IssueNamesNoUnit, RunningSlaves, StartRescan, stored, runtime,
     registries, flows, world, Act
<1>4. Distinct(subs)' /\ (version \in OldVersions => Ordered(subs))'
  BY DEF EntryInv, StartRescan, stored, runtime, registries, flows, world, Act
<1> QED
  BY <1>1, <1>2, <1>3, <1>4 DEF EntryInv

\* EditRequestRate keeps the entry invariant.
LEMMA EditRequestRateEntry ==
    ASSUME EntryInv, NEW r \in Rates, EditRequestRate(r)
    PROVE  EntryInv'
<1>0. /\ running' \in RuntimeData \union {None} /\ (running' = None <=> running = None)
      /\ running # None => running'.rooms = running.rooms
  <2>1. CASE running = None
    BY <2>1 DEF EditRequestRate
  <2>2. CASE running # None
    <3>1. running \in RuntimeData
      BY <2>2 DEF EntryInv, Types, RuntimeTypes
    <3> QED
      BY <2>2, <3>1, RunningSet, NoneFacts DEF EditRequestRate
  <2> QED
    BY <2>1, <2>2
<1>1. Types'
  <2>1. StoredTypes'
    BY DEF EntryInv, Types, StoredTypes, Ports, EditRequestRate, stored, runtime,
       registries, flows, world, Act
  <2>2. RuntimeTypes'
    BY <1>0 DEF EntryInv, Types, RuntimeTypes, EditRequestRate
  <2>3. RegistryTypes'
    BY DEF EntryInv, Types, RegistryTypes, EditRequestRate, stored, runtime, registries,
       flows, world, Act
  <2>4. FlowTypes'
    BY DEF EntryInv, Types, FlowTypes, EditRequestRate, stored, runtime, registries, flows,
       world, Act
  <2>5. Flags'
    BY DEF EntryInv, Types, Flags, EditRequestRate, stored, runtime, registries, flows,
       world, Act
  <2> QED
    BY <2>1, <2>2, <2>3, <2>4, <2>5 DEF Types
<1>2. Lives'
  BY <1>0 DEF EntryInv, Lives, NothingLeftBehind, EditRequestRate, stored, flows
<1>3. IssueNamesNoUnit'
  BY <1>0 DEF EntryInv, IssueNamesNoUnit, RunningSlaves, EditRequestRate, registries
<1>4. Distinct(subs)' /\ (version \in OldVersions => Ordered(subs))'
  BY DEF EntryInv, EditRequestRate, stored, runtime, registries, flows, world, Act
<1> QED
  BY <1>1, <1>2, <1>3, <1>4 DEF EntryInv

\* StartAdd keeps the entry invariant.
LEMMA StartAddEntry ==
    ASSUME EntryInv, StartAdd
    PROVE  EntryInv'
<1>1. Types'
  <2>1. StoredTypes'
    BY DEF EntryInv, Types, StoredTypes, Ports, StartAdd, stored, runtime, registries,
       flows, world, Act
  <2>2. RuntimeTypes'
    BY DEF EntryInv, Types, StoredTypes, RuntimeTypes, Phases, StartAdd, stored, runtime,
       registries, flows, world, Act
  <2>3. RegistryTypes'
    BY DEF EntryInv, Types, RegistryTypes, StartAdd, stored, runtime, registries, flows,
       world, Act
  <2>4. FlowTypes'
    <3>1. Found \ DOMAIN UnitRooms(subs) \subseteq Slaves
      BY DEF Found
    <3>2. adding' \in ProbeResults
      BY <3>1, ProbesTyped DEF StartAdd
    <3> QED
      BY <3>2 DEF EntryInv, Types, FlowTypes, StartAdd
  <2>5. Flags'
    BY DEF EntryInv, Types, Flags, StartAdd, stored, runtime, registries, flows, world, Act
  <2> QED
    BY <2>1, <2>2, <2>3, <2>4, <2>5 DEF Types
<1>2. Lives'
  BY NoneFacts, VersionFacts DEF EntryInv, Types, StoredTypes, RuntimeTypes, RegistryTypes,
     FlowTypes, Lives, NothingLeftBehind, StartAdd, stored, runtime, registries, flows,
     world, Act
<1>3. IssueNamesNoUnit'
  BY NoneFacts DEF EntryInv, Types, RuntimeTypes, RegistryTypes, FlowTypes, Lives,
     NothingLeftBehind, IssueNamesNoUnit, RunningSlaves, StartAdd, stored, runtime,
     registries, flows, world, Act
<1>4. Distinct(subs)' /\ (version \in OldVersions => Ordered(subs))'
  BY DEF EntryInv, StartAdd, stored, runtime, registries, flows, world, Act
<1> QED
  BY <1>1, <1>2, <1>3, <1>4 DEF EntryInv

\* CreateUnit keeps the entry invariant.
LEMMA CreateUnitEntry ==
    ASSUME EntryInv, NEW a \in Slaves, NEW profile \in Profiles, CreateUnit(a, profile)
    PROVE  EntryInv'
<1> DEFINE n == NewUnit(a, adding[a], profile, subs, changes)
           newSubs == IF FreeToAdd(a) THEN subs \union {n} ELSE subs
<1>0. subs \subseteq Subentries /\ IsFiniteSet(subs) /\ Distinct(subs) /\ changes \in Nat
  BY DEF EntryInv, Types, StoredTypes
<1>01. StoreEntry(newSubs, port)
  BY DEF CreateUnit
<1>02. n \in Subentries /\ n.key \notin {s.key : s \in subs} /\ n.slave = a /\ n.uid = a
  BY <1>0, NewUnitFacts DEF EntryInv, Types, FlowTypes, CreateUnit
<1> HIDE DEF n
<1>03. newSubs \subseteq Subentries /\ IsFiniteSet(newSubs)
  BY <1>0, <1>02, FS_AddElement
<1>04. Distinct(newSubs)
  <2>1. CASE ~FreeToAdd(a)
    BY <1>0, <2>1
  <2>2. CASE FreeToAdd(a)
    <3>1. \A s \in subs : s.slave # a
      <4>1. DOMAIN UnitRooms(subs) = {s.slave : s \in subs}
        BY DEF UnitRooms
      <4> QED
        BY <2>2, <4>1 DEF FreeToAdd
    <3>2. \A s \in subs : s.uid # a /\ s.key # n.key
      BY <1>0, <1>02, <3>1, NoneFacts DEF Distinct
    <3> QED
      BY <1>0, <1>02, <2>2, <3>2 DEF Distinct
  <2> QED
    BY <2>1, <2>2
<1> HIDE DEF newSubs
<1>05. /\ devices' \subseteq SUBSET (Keys \union Codes)
      /\ queued' \in BOOLEAN /\ missed' \in BOOLEAN
      /\ subs' = newSubs /\ port' = port
  BY <1>01, StoreEntryTyped
<1>06. version = Current
  BY VersionFacts DEF EntryInv, Types, StoredTypes, Lives, CreateUnit
<1>1. Types'
  <2>1. StoredTypes'
    BY <1>03, <1>05 DEF EntryInv, Types, StoredTypes, CreateUnit, world
  <2>2. RuntimeTypes'
    BY DEF EntryInv, Types, StoredTypes, RuntimeTypes, Phases, CreateUnit, stored, runtime,
       registries, flows, world
  <2>3. RegistryTypes'
    BY <1>05 DEF EntryInv, Types, RegistryTypes, CreateUnit
  <2>4. FlowTypes'
    BY DEF EntryInv, Types, FlowTypes, CreateUnit, stored, runtime, registries, flows, world
  <2>5. Flags'
    BY <1>05 DEF EntryInv, Types, Flags, CreateUnit, world
  <2> QED
    BY <2>1, <2>2, <2>3, <2>4, <2>5 DEF Types
<1>2. Lives'
  BY NoneFacts, VersionFacts DEF EntryInv, Types, StoredTypes, RuntimeTypes, RegistryTypes,
     FlowTypes, Lives, NothingLeftBehind, CreateUnit, stored, runtime, registries, flows,
     world
<1>3. IssueNamesNoUnit'
  BY NoneFacts DEF EntryInv, Types, RuntimeTypes, RegistryTypes, FlowTypes, Lives,
     NothingLeftBehind, IssueNamesNoUnit, RunningSlaves, CreateUnit, stored, runtime,
     registries, flows, world
<1>4. Distinct(subs)' /\ (version \in OldVersions => Ordered(subs))'
  BY <1>04, <1>05, <1>06, VersionFacts DEF CreateUnit
<1> QED
  BY <1>1, <1>2, <1>3, <1>4 DEF EntryInv

\* ReconfigureUnit keeps the entry invariant.
LEMMA ReconfigureUnitEntry ==
    ASSUME EntryInv, NEW s \in subs, NEW profile \in Profiles, ReconfigureUnit(s, profile)
    PROVE  EntryInv'
<1> DEFINE n == [s EXCEPT !.profile = profile]
<1>0. subs \subseteq Subentries /\ IsFiniteSet(subs) /\ Distinct(subs)
  BY DEF EntryInv, Types, StoredTypes
<1>01. n \in Subentries /\ n.key = s.key /\ n.uid = s.uid /\ n.slave = s.slave
  BY <1>0 DEF Subentries
<1>02. subs' = (subs \ {s}) \union {n}
  BY DEF ReconfigureUnit
<1> HIDE DEF n
<1>03. subs' \subseteq Subentries /\ IsFiniteSet(subs')
  <2>1. IsFiniteSet(subs \ {s})
    BY <1>0, FS_RemoveElement
  <2>2. IsFiniteSet((subs \ {s}) \union {n})
    BY <2>1, FS_AddElement
  <2> QED
    BY <1>0, <1>01, <1>02, <2>2
<1>1. Types'
  <2>1. StoredTypes'
    BY <1>03 DEF EntryInv, Types, StoredTypes, ReconfigureUnit, Act, world
  <2>2. RuntimeTypes'
    BY DEF EntryInv, Types, StoredTypes, RuntimeTypes, Phases, ReconfigureUnit, stored,
       runtime, registries, flows, world, Act, Listening
  <2>3. RegistryTypes'
    BY DEF EntryInv, Types, RegistryTypes, ReconfigureUnit, stored, runtime, registries,
       flows, world, Act, Listening
  <2>4. FlowTypes'
    BY DEF EntryInv, Types, FlowTypes, ReconfigureUnit, stored, runtime, registries, flows,
       world, Act, Listening
  <2>5. Flags'
    BY DEF EntryInv, Types, Flags, ReconfigureUnit, stored, runtime, registries, flows,
       world, Act, Listening
  <2> QED
    BY <2>1, <2>2, <2>3, <2>4, <2>5 DEF Types
<1>2. Lives'
  BY NoneFacts, VersionFacts DEF EntryInv, Types, StoredTypes, RuntimeTypes, RegistryTypes,
     FlowTypes, Lives, NothingLeftBehind, ReconfigureUnit, stored, runtime, registries,
     flows, world, Act, Listening
<1>3. IssueNamesNoUnit'
  BY NoneFacts DEF EntryInv, Types, RuntimeTypes, RegistryTypes, FlowTypes, Lives,
     NothingLeftBehind, IssueNamesNoUnit, RunningSlaves, ReconfigureUnit, stored, runtime,
     registries, flows, world, Act, Listening
<1>4. Distinct(subs)' /\ (version \in OldVersions => Ordered(subs))'
  <2>1. Distinct(subs')
    BY <1>0, <1>01, <1>02 DEF Distinct
  <2> QED
    BY <2>1, VersionFacts DEF ReconfigureUnit
<1> QED
  BY <1>1, <1>2, <1>3, <1>4 DEF EntryInv

\* ReconfigureConnection keeps the entry invariant.
LEMMA ReconfigureConnectionEntry ==
    ASSUME EntryInv, NEW p \in {"tty", "net"}, ReconfigureConnection(p)
    PROVE  EntryInv'
<1>1. Types'
  <2>1. StoredTypes'
    BY DEF EntryInv, Types, StoredTypes, Ports, ReconfigureConnection, stored, runtime,
       registries, flows, world, Act, Listening, Resolve
  <2>2. RuntimeTypes'
    BY DEF EntryInv, Types, StoredTypes, RuntimeTypes, Phases, ReconfigureConnection,
       stored, runtime, registries, flows, world, Act, Listening, Resolve
  <2>3. RegistryTypes'
    BY DEF EntryInv, Types, RegistryTypes, ReconfigureConnection, stored, runtime,
       registries, flows, world, Act, Listening, Resolve
  <2>4. FlowTypes'
    BY DEF EntryInv, Types, FlowTypes, ReconfigureConnection, stored, runtime, registries,
       flows, world, Act, Listening, Resolve
  <2>5. Flags'
    BY DEF EntryInv, Types, Flags, ReconfigureConnection, stored, runtime, registries,
       flows, world, Act, Listening, Resolve
  <2> QED
    BY <2>1, <2>2, <2>3, <2>4, <2>5 DEF Types
<1>2. Lives'
  BY NoneFacts, VersionFacts DEF EntryInv, Types, StoredTypes, RuntimeTypes, RegistryTypes,
     FlowTypes, Lives, NothingLeftBehind, ReconfigureConnection, stored, runtime,
     registries, flows, world, Act, Listening, Resolve
<1>3. IssueNamesNoUnit'
  BY NoneFacts DEF EntryInv, Types, RuntimeTypes, RegistryTypes, FlowTypes, Lives,
     NothingLeftBehind, IssueNamesNoUnit, RunningSlaves, ReconfigureConnection, stored,
     runtime, registries, flows, world, Act, Listening, Resolve
<1>4. Distinct(subs)' /\ (version \in OldVersions => Ordered(subs))'
  BY DEF EntryInv, ReconfigureConnection, stored, runtime, registries, flows, world, Act,
     Listening, Resolve
<1> QED
  BY <1>1, <1>2, <1>3, <1>4 DEF EntryInv

\* RemoveUnit keeps the entry invariant.
LEMMA RemoveUnitEntry ==
    ASSUME EntryInv, NEW s \in subs, RemoveUnit(s)
    PROVE  EntryInv'
<1>0. subs \subseteq Subentries /\ IsFiniteSet(subs) /\ Distinct(subs)
  BY DEF EntryInv, Types, StoredTypes
<1>01. IsFiniteSet(subs \ {s})
  BY <1>0, FS_RemoveElement
<1>02. /\ devices' \subseteq SUBSET (Keys \union Codes)
      /\ queued' \in BOOLEAN /\ missed' \in BOOLEAN
      /\ subs' = subs \ {s} /\ port' = port
  <2>1. StoreEntry(subs \ {s}, port)
    BY DEF RemoveUnit
  <2> QED
    BY <2>1, StoreEntryTyped
<1>1. Types'
  <2>1. StoredTypes'
    BY <1>01, <1>02 DEF EntryInv, Types, StoredTypes, RemoveUnit, Act, world
  <2>2. RuntimeTypes'
    BY DEF EntryInv, Types, StoredTypes, RuntimeTypes, Phases, RemoveUnit, stored, runtime,
       registries, flows, world, Act
  <2>3. RegistryTypes'
    BY <1>02 DEF EntryInv, Types, RegistryTypes, RemoveUnit
  <2>4. FlowTypes'
    BY DEF EntryInv, Types, FlowTypes, RemoveUnit, stored, runtime, registries, flows,
       world, Act
  <2>5. Flags'
    BY <1>02 DEF EntryInv, Types, Flags, RemoveUnit, Act, world
  <2> QED
    BY <2>1, <2>2, <2>3, <2>4, <2>5 DEF Types
<1>2. Lives'
  BY NoneFacts, VersionFacts DEF EntryInv, Types, StoredTypes, RuntimeTypes, RegistryTypes,
     FlowTypes, Lives, NothingLeftBehind, RemoveUnit, stored, runtime, registries, flows,
     world, Act
<1>3. IssueNamesNoUnit'
  BY NoneFacts DEF EntryInv, Types, RuntimeTypes, RegistryTypes, FlowTypes, Lives,
     NothingLeftBehind, IssueNamesNoUnit, RunningSlaves, RemoveUnit, stored, runtime,
     registries, flows, world, Act
<1>4. Distinct(subs)' /\ (version \in OldVersions => Ordered(subs))'
  BY <1>0, <1>02, VersionFacts DEF RemoveUnit, Distinct
<1> QED
  BY <1>1, <1>2, <1>3, <1>4 DEF EntryInv

\* PairAgain keeps the entry invariant.
LEMMA PairAgainEntry ==
    ASSUME EntryInv, PairAgain
    PROVE  EntryInv'
<1>1. Types'
  <2>1. StoredTypes'
    BY DEF EntryInv, Types, StoredTypes, Ports, PairAgain, stored, runtime, registries,
       flows, world, Act, Arrangements
  <2>2. RuntimeTypes'
    BY DEF EntryInv, Types, StoredTypes, RuntimeTypes, Phases, PairAgain, stored, runtime,
       registries, flows, world, Act, Arrangements
  <2>3. RegistryTypes'
    BY DEF EntryInv, Types, RegistryTypes, PairAgain, stored, runtime, registries, flows,
       world, Act, Arrangements
  <2>4. FlowTypes'
    BY DEF EntryInv, Types, FlowTypes, PairAgain, stored, runtime, registries, flows, world,
       Act, Arrangements
  <2>5. Flags'
    BY DEF EntryInv, Types, Flags, PairAgain, stored, runtime, registries, flows, world,
       Act, Arrangements
  <2> QED
    BY <2>1, <2>2, <2>3, <2>4, <2>5 DEF Types
<1>2. Lives'
  BY NoneFacts, VersionFacts DEF EntryInv, Types, StoredTypes, RuntimeTypes, RegistryTypes,
     FlowTypes, Lives, NothingLeftBehind, PairAgain, stored, runtime, registries, flows,
     world, Act, Arrangements
<1>3. IssueNamesNoUnit'
  BY NoneFacts DEF EntryInv, Types, RuntimeTypes, RegistryTypes, FlowTypes, Lives,
     NothingLeftBehind, IssueNamesNoUnit, RunningSlaves, PairAgain, stored, runtime,
     registries, flows, world, Act, Arrangements
<1>4. Distinct(subs)' /\ (version \in OldVersions => Ordered(subs))'
  BY DEF EntryInv, PairAgain, stored, runtime, registries, flows, world, Act, Arrangements
<1> QED
  BY <1>1, <1>2, <1>3, <1>4 DEF EntryInv

\* LinkAppears keeps the entry invariant.
LEMMA LinkAppearsEntry ==
    ASSUME EntryInv, LinkAppears
    PROVE  EntryInv'
<1>1. Types'
  <2>1. StoredTypes'
    BY DEF EntryInv, Types, StoredTypes, Ports, LinkAppears, stored, runtime, registries,
       flows, world, Act
  <2>2. RuntimeTypes'
    BY DEF EntryInv, Types, StoredTypes, RuntimeTypes, Phases, LinkAppears, stored, runtime,
       registries, flows, world, Act
  <2>3. RegistryTypes'
    BY DEF EntryInv, Types, RegistryTypes, LinkAppears, stored, runtime, registries, flows,
       world, Act
  <2>4. FlowTypes'
    BY DEF EntryInv, Types, FlowTypes, LinkAppears, stored, runtime, registries, flows,
       world, Act
  <2>5. Flags'
    BY DEF EntryInv, Types, Flags, LinkAppears, stored, runtime, registries, flows, world, Act
  <2> QED
    BY <2>1, <2>2, <2>3, <2>4, <2>5 DEF Types
<1>2. Lives'
  BY NoneFacts, VersionFacts DEF EntryInv, Types, StoredTypes, RuntimeTypes, RegistryTypes,
     FlowTypes, Lives, NothingLeftBehind, LinkAppears, stored, runtime, registries, flows,
     world, Act
<1>3. IssueNamesNoUnit'
  BY NoneFacts DEF EntryInv, Types, RuntimeTypes, RegistryTypes, FlowTypes, Lives,
     NothingLeftBehind, IssueNamesNoUnit, RunningSlaves, LinkAppears, stored, runtime,
     registries, flows, world, Act
<1>4. Distinct(subs)' /\ (version \in OldVersions => Ordered(subs))'
  BY DEF EntryInv, LinkAppears, stored, runtime, registries, flows, world, Act
<1> QED
  BY <1>1, <1>2, <1>3, <1>4 DEF EntryInv


\* SubmitProfiles keeps the entry invariant.
LEMMA SubmitProfilesEntry ==
    ASSUME EntryInv, NEW profile \in Profiles, SubmitProfiles(profile)
    PROVE  EntryInv'
<1> DEFINE stale == StaleKeys(Rescanned(profile))
<1>1. CASE SaveProfiles(profile)
  BY <1>1, SaveProfilesEntry DEF SubmitProfiles
<1>2. CASE /\ rescan' = [rescan EXCEPT !.confirm = TRUE, !.named = stale, !.profile = profile]
           /\ UNCHANGED <<stored, runtime, registries, adding, world, had, missed, changes>>
  <2>1. rescan \in Rescans
    BY DEF EntryInv, Types, FlowTypes, SubmitProfiles
  <2>2. stale \in SUBSET Keys
    <3>1. \A s \in subs : s.key \in Keys
      BY DEF EntryInv, Types, StoredTypes, Subentries
    <3> QED
      BY <3>1 DEF StaleKeys
  <2> HIDE DEF stale
  <2>3. rescan' \in Rescans
    BY <1>2, <2>1, <2>2 DEF Rescans
  <2>4. Types'
    <3>1. StoredTypes' /\ RuntimeTypes' /\ RegistryTypes'
      BY <1>2 DEF EntryInv, Types, StoredTypes, RuntimeTypes, RegistryTypes, stored, runtime,
                  registries, world
    <3>2. FlowTypes'
      BY <1>2, <2>3 DEF EntryInv, Types, FlowTypes
    <3>3. Flags'
      BY <1>2 DEF EntryInv, Types, Flags, runtime, world
    <3> QED
      BY <3>1, <3>2, <3>3 DEF Types
  <2>5. Lives'
    <3>1. rescan # None /\ rescan'.profile = profile
      BY <1>2, <2>1, NoneFacts DEF Rescans
    <3> QED
      BY <1>2, <3>1 DEF EntryInv, Lives, NothingLeftBehind, stored, runtime
  <2>6. IssueNamesNoUnit'
    BY <1>2 DEF EntryInv, IssueNamesNoUnit, RunningSlaves, runtime, registries
  <2>7. Distinct(subs)' /\ (version \in OldVersions => Ordered(subs))'
    BY <1>2 DEF EntryInv, stored
  <2> QED
    BY <2>4, <2>5, <2>6, <2>7 DEF EntryInv
<1> QED
  BY <1>1, <1>2 DEF SubmitProfiles

\* ConfirmRemove keeps the entry invariant.
LEMMA ConfirmRemoveEntry ==
    ASSUME EntryInv, ConfirmRemove
    PROVE  EntryInv'
<1>1. rescan.profile \in Profiles
  BY DEF EntryInv, Lives, ConfirmRemove
<1> QED
  BY <1>1, SaveProfilesEntry DEF ConfirmRemove

\* The entry that an earlier release left behind, or none.
LEMMA InitEntry == Init => EntryInv
<1> SUFFICES ASSUME Init PROVE EntryInv
  OBVIOUS
<1>1. PICK old \in OldEntries :
          /\ version = old.version /\ subs = old.subs
          /\ phase = IF old.version = <<0, 0>> THEN "absent" ELSE "idle"
          /\ devices = {{s.key} \union ({s.code} \ {None}) : s \in old.subs}
  BY DEF Init
<1>2. /\ old.version \in {<<0, 0>>} \union OldVersions
      /\ old.subs \subseteq Subentries /\ IsFiniteSet(old.subs)
      /\ Distinct(old.subs) /\ Ordered(old.subs)
  BY OldEntriesAssumption DEF OldVersions, Distinct, Ordered
<1>3. Types
  <2>1. StoredTypes
    <3>1. rate \in Rates
      BY RatesAssumption, MinChosen DEF Init
    <3> QED
      BY <1>1, <1>2, <3>1, PairedAssumption DEF Init, StoredTypes, Ports
  <2>2. RuntimeTypes /\ FlowTypes
    BY <1>1 DEF Init, RuntimeTypes, FlowTypes, Phases
  <2>3. RegistryTypes
    <3>1. \A s \in old.subs : s.key \in Keys /\ s.code \in Codes \union {None}
      BY <1>2 DEF Subentries
    <3> QED
      BY <1>1, <3>1 DEF Init, RegistryTypes
  <2>4. Flags
    BY DEF Init, Flags
  <2> QED
    BY <2>1, <2>2, <2>3, <2>4 DEF Types
<1>4. Lives
  BY <1>1, <1>2, VersionFacts DEF Init, Lives, NothingLeftBehind
<1>5. IssueNamesNoUnit
  BY DEF Init, IssueNamesNoUnit
<1> QED
  BY <1>1, <1>2, <1>3, <1>4, <1>5 DEF EntryInv

\* A step that changes nothing keeps the entry invariant.
LEMMA StutterEntry ==
    ASSUME EntryInv, UNCHANGED vars
    PROVE  EntryInv'
<1>1. Types'
  <2>1. StoredTypes' /\ RuntimeTypes' /\ RegistryTypes' /\ FlowTypes'
    BY DEF EntryInv, Types, StoredTypes, RuntimeTypes, RegistryTypes, FlowTypes, vars, stored,
           runtime, registries, flows, world
  <2>2. Flags'
    BY DEF EntryInv, Types, Flags, vars, runtime, world
  <2> QED
    BY <2>1, <2>2 DEF Types
<1>2. Lives' /\ IssueNamesNoUnit'
  BY DEF EntryInv, Lives, NothingLeftBehind, IssueNamesNoUnit, RunningSlaves, vars, stored,
     runtime,
         registries, flows
<1>3. Distinct(subs)' /\ (version \in OldVersions => Ordered(subs))'
  BY DEF EntryInv, vars, stored
<1> QED
  BY <1>1, <1>2, <1>3 DEF EntryInv

\* Every action of the flows, of setup and unload, and of Home Assistant
\* keeps the entry consistent.
LEMMA NextEntry ==
    ASSUME EntryInv, [Next]_vars
    PROVE  EntryInv'
<1>1. CASE Lifecycle
  BY <1>1, BeginSetupEntry, GatewayValidEntry, GatewayInvalidEntry, PlatformsReadyEntry,
     PlatformsFailEntry, BeginReloadEntry, UnloadedEntry, UnloadFailsEntry DEF Lifecycle
<1>2. CASE ScanGateway \/ MigrateEntry \/ UpdateListener \/ NewUnitCheck
  BY <1>2, ScanGatewayEntry, MigrateEntryEntry, UpdateListenerEntry, NewUnitCheckEntry
<1>3. ASSUME NEW p \in Profiles, CreateEntry(p) \/ SubmitProfiles(p)
      PROVE  EntryInv'
  BY <1>3, CreateEntryEntry, SubmitProfilesEntry
<1>4. ASSUME NEW a \in Slaves, NEW p \in Profiles, CreateUnit(a, p)
      PROVE  EntryInv'
  BY <1>4, CreateUnitEntry
<1>5. ASSUME NEW s \in subs, NEW p \in Profiles, ReconfigureUnit(s, p)
      PROVE  EntryInv'
  BY <1>5, ReconfigureUnitEntry
<1>6. ASSUME NEW s \in subs, RemoveUnit(s)
      PROVE  EntryInv'
  BY <1>6, RemoveUnitEntry
<1>7. ASSUME NEW p \in {"tty", "net"}, ReconfigureConnection(p)
      PROVE  EntryInv'
  BY <1>7, ReconfigureConnectionEntry
<1>8. ASSUME NEW r \in Rates, EditRequestRate(r)
      PROVE  EntryInv'
  BY <1>8, EditRequestRateEntry
<1>9. CASE StartRescan \/ ConfirmRemove \/ StartAdd \/ PairAgain \/ LinkAppears \/ Restart
  BY <1>9, StartRescanEntry, ConfirmRemoveEntry, StartAddEntry, PairAgainEntry,
     LinkAppearsEntry,
     RestartEntry
<1>10. CASE UNCHANGED vars
  BY <1>10, StutterEntry
<1> QED
  BY <1>1, <1>2, <1>3, <1>4, <1>5, <1>6, <1>7, <1>8, <1>9, <1>10 DEF Next

\* EntryInv says what the runs check.
LEMMA EntryInvConsistent == EntryInv => EntryConsistent
<1> SUFFICES ASSUME EntryInv PROVE EntryConsistent
  OBVIOUS
<1>1. {client, queued, reload, missed, byId} \subseteq BOOLEAN
  BY DEF EntryInv, Types, Flags
<1>2. (setup # None) = (phase = "validating")
  BY DEF EntryInv, Lives
<1>3. TypeOK
  BY <1>1, <1>2 DEF TypeOK, EntryInv, Types, StoredTypes, RuntimeTypes, RegistryTypes,
     Ports, Phases
<1>4. UnitsDistinct
  <2> SUFFICES ASSUME NEW s \in subs, NEW t \in subs, s # t
               PROVE  /\ s.key # t.key
                      /\ s.uid # t.uid \/ s.uid = None
                      /\ s.slave = t.slave => None \in {s.uid, t.uid}
    BY DEF UnitsDistinct
  <2>1. s.key # t.key /\ (s.uid # t.uid \/ s.uid = None)
    BY DEF EntryInv, Distinct
  <2>2. s.uid \in {s.slave, None} /\ t.uid \in {t.slave, None}
    BY DEF EntryInv, Distinct
  <2> QED
    BY <2>1, <2>2
<1> QED
  BY <1>3, <1>4 DEF EntryConsistent, EntryInv, Lives

\* However creation, migration, rescans, added, reconfigured and removed units,
\* setups, reloads and restarts interleave: stored units keep distinct keys and
\* unique IDs, one of them owns each address, an ended or failed setup leaves no
\* client and no runtime data, and the new-unit issue names no running unit.
THEOREM EntryConsistentHolds == Spec => []EntryConsistent
<1>1. Init => EntryInv
  BY InitEntry
<1>2. EntryInv /\ [Next]_vars => EntryInv'
  BY NextEntry
<1>3. EntryInv => EntryConsistent
  BY EntryInvConsistent
<1> QED
  BY <1>1, <1>2, <1>3, PTL DEF Spec

-----------------------------------------------------------------------------
(* A saved rescan                                                          *)

\* Only a save ends the rescan with other units, and it stores what it built.
LEMMA SavedUnits ==
    ASSUME EntryInv, [Next]_vars, rescan # None, rescan' = None, subs' # subs
    PROVE  \E profile \in Profiles : subs' = Rescanned(profile)
<1>0. subs \subseteq Subentries /\ Distinct(subs) /\ rescan \in Rescans /\ changes \in Nat
  BY DEF EntryInv, Types, StoredTypes, FlowTypes
<1>1. ASSUME NEW profile \in Profiles, SaveProfiles(profile)
      PROVE  subs' = Rescanned(profile)
  BY <1>0, <1>1, NeverRefused DEF StoreEntry
<1>2. CASE Lifecycle
  BY <1>2 DEF Lifecycle, BeginSetup, GatewayValid, GatewayInvalid, PlatformsReady,
     PlatformsFail,
              BeginReload, Unloaded, UnloadFails, flows
<1>3. CASE ScanGateway \/ MigrateEntry \/ UpdateListener \/ NewUnitCheck
  BY <1>3 DEF ScanGateway, MigrateEntry, UpdateListener, NewUnitCheck, flows
<1>4. ASSUME NEW p \in Profiles, CreateEntry(p)
      PROVE  FALSE
  BY <1>4 DEF CreateEntry
<1>5. ASSUME NEW p \in Profiles, SubmitProfiles(p)
      PROVE  SaveProfiles(p)
  <2>1. rescan' # [rescan EXCEPT !.confirm = TRUE, !.named = StaleKeys(Rescanned(p)), !.profile = p]
    <3>1. StaleKeys(Rescanned(p)) \in SUBSET Keys
      <4>1. \A s \in subs : s.key \in Keys
        BY <1>0 DEF Subentries
      <4> QED
        BY <4>1 DEF StaleKeys
    <3>2. [rescan EXCEPT !.confirm = TRUE, !.named = StaleKeys(Rescanned(p)), !.profile = p] \in Rescans
      BY <1>0, <3>1 DEF Rescans
    <3> QED
      BY <3>2, NoneFacts
  <2> QED
    BY <1>5, <2>1 DEF SubmitProfiles
<1>6. ASSUME NEW a \in Slaves, NEW p \in Profiles, CreateUnit(a, p)
      PROVE  FALSE
  BY <1>6 DEF CreateUnit
<1>7. ASSUME NEW s \in subs, NEW p \in Profiles, ReconfigureUnit(s, p)
      PROVE  FALSE
  BY <1>7 DEF ReconfigureUnit, flows
<1>8. ASSUME NEW s \in subs, RemoveUnit(s)
      PROVE  FALSE
  BY <1>8 DEF RemoveUnit, flows
<1>9. ASSUME NEW p \in {"tty", "net"}, ReconfigureConnection(p)
      PROVE  FALSE
  BY <1>9 DEF ReconfigureConnection
<1>10. ASSUME NEW r \in Rates, EditRequestRate(r)
       PROVE  FALSE
  BY <1>10 DEF EditRequestRate
<1>11. CASE StartRescan \/ StartAdd \/ PairAgain \/ LinkAppears \/ Restart
  BY <1>11 DEF StartRescan, StartAdd, PairAgain, LinkAppears, Restart, stored
<1>12. CASE ConfirmRemove
  <2>1. rescan.profile \in Profiles /\ SaveProfiles(rescan.profile)
    BY <1>12 DEF EntryInv, Lives, ConfirmRemove
  <2> QED
    BY <1>1, <2>1
<1>13. CASE UNCHANGED vars
  BY <1>13 DEF vars, flows
<1>14. CASE \E p \in Profiles : CreateEntry(p) \/ SubmitProfiles(p)
  BY <1>1, <1>4, <1>5, <1>14
<1> QED
  BY <1>2, <1>3, <1>6, <1>7, <1>8, <1>9, <1>10, <1>11, <1>12, <1>13, <1>14 DEF Next

\* A saved rescan stores exactly the addresses that were found, and no code
\* for a unit other than the one that reported it: Home Assistant refuses
\* none of its updates, however the units changed addresses.
THEOREM RescanCompleteHolds == Spec => RescanComplete
<1> DEFINE Saved ==
        rescan # None /\ rescan' = None /\ subs' # subs =>
            /\ {n.slave : n \in subs'} = DOMAIN rescan.found
            /\ \A n \in subs', a \in DOMAIN rescan.found :
                  n.code # None /\ rescan.found[a] = n.code => rescan.found[n.slave] = n.code
<1>1. EntryInv /\ [Next]_vars => Saved
  <2> SUFFICES ASSUME EntryInv, [Next]_vars, rescan # None, rescan' = None, subs' # subs
               PROVE  /\ {n.slave : n \in subs'} = DOMAIN rescan.found
                      /\ \A n \in subs', a \in DOMAIN rescan.found :
                            n.code # None /\ rescan.found[a] = n.code
                            => rescan.found[n.slave] = n.code
    OBVIOUS
  <2>1. PICK profile \in Profiles : subs' = Rescanned(profile)
    BY SavedUnits
  <2>2. subs \subseteq Subentries /\ Distinct(subs) /\ rescan \in Rescans /\ changes \in Nat
    BY DEF EntryInv, Types, StoredTypes, FlowTypes
  <2> QED
    BY <2>1, <2>2, RescannedUnits
<1>2. EntryInv /\ [Next]_vars => [Saved]_vars
  BY <1>1
<1>3. Init => EntryInv
  BY InitEntry
<1>4. EntryInv /\ [Next]_vars => EntryInv'
  BY NextEntry
<1> QED
  BY <1>2, <1>3, <1>4, PTL DEF Spec, RescanComplete

\* A saved rescan follows the units: one whose code is stored once and was
\* found at one address keeps its key and its subentry there, wherever its
\* old and its new address are taken by others.
THEOREM KeyFollowsUnitHolds == Spec => KeyFollowsUnit
<1> DEFINE Follows(units) ==
        \A a \in DOMAIN rescan.found, s \in subs :
            /\ s.code # None /\ rescan.found[a] = s.code
            /\ \A b \in DOMAIN rescan.found : rescan.found[b] = s.code => b = a
            /\ \A t \in subs : t.code = s.code => t = s
            /\ UnitRooms(subs)[s.slave] = s
            => \E n \in units : n.key = s.key /\ n.id = s.id /\ n.slave = a
<1>1. EntryInv /\ [Next]_vars => (rescan # None /\ rescan' = None /\ subs' # subs => Follows(subs'))
  <2> SUFFICES ASSUME EntryInv, [Next]_vars, rescan # None, rescan' = None, subs' # subs
               PROVE  Follows(subs')
    OBVIOUS
  <2>1. PICK profile \in Profiles : subs' = Rescanned(profile)
    BY SavedUnits
  <2>2. subs \subseteq Subentries /\ Distinct(subs) /\ rescan \in Rescans /\ changes \in Nat
    BY DEF EntryInv, Types, StoredTypes, FlowTypes
  <2>3. Follows(Rescanned(profile))
    BY <2>2, RescannedFollows
  <2> HIDE DEF Follows
  <2> QED
    BY <2>1, <2>3
<1>2. EntryInv /\ [Next]_vars =>
          [rescan # None /\ rescan' = None /\ subs' # subs => Follows(subs')]_vars
  BY <1>1
<1>3. Init => EntryInv
  BY InitEntry
<1>4. EntryInv /\ [Next]_vars => EntryInv'
  BY NextEntry
<1> QED
  BY <1>2, <1>3, <1>4, PTL DEF Spec, KeyFollowsUnit

-----------------------------------------------------------------------------
(* What the steps do to subentries, registries and runtime data            *)

\* The keys of the subentries that a step removes.
Dropped == {s.key : s \in {t \in subs : \A n \in subs' : <<n.key, n.id>> # <<t.key, t.id>>}}

\* A subentry that a step adds has the ID of the flow that the step ends, and
\* only the user and a saved rescan remove one.
FlowStep ==
    /\ changes' \in {changes, changes + 1}
    /\ \A n \in subs' :
          \/ \E s \in subs : s.key = n.key /\ s.id = n.id
          \/ /\ n.id = changes /\ changes' = changes
             /\ (adding # None /\ adding' = None) \/ (rescan # None /\ rescan' = None)
    /\ changes' = changes => /\ adding' = None \/ adding' = adding
                             /\ rescan' = None \/ rescan # None
                             /\ Dropped # {} => rescan # None /\ rescan' = None

\* With a subentry go the device and the entities of its unit.
KeepStep ==
    /\ devices' = {d \in devices : d \intersect Dropped = {}}
    /\ entities' = {e \in entities : e.key \notin Dropped}
    /\ had' = {h \in had : h[1] \notin Dropped}

\* What setup read and what it made of it stay until the entry is unloaded.
RuntimeStep ==
    /\ phase' = "validating" =>
          /\ phase = "validating" /\ setup' = setup
          /\ ~missed' => ~missed /\ \A s \in subs : \E n \in subs' : n.key = s.key
    /\ running' # None /\ ~missed' => ~missed
    /\ running' # None =>
          \/ /\ running # None /\ running'.rooms = running.rooms
             /\ running'.snapshot = running.snapshot
             /\ phase' \in {"forwarding", "loaded"} => phase' = phase
          \/ /\ phase = "validating" /\ phase' = "forwarding" /\ running'.rooms = setup.rooms
             /\ running'.snapshot.units = SnapshotUnits(subs) /\ subs' = subs

Steps == FlowStep /\ KeepStep /\ RuntimeStep /\ version' = version

\* A step that keeps every subentry drops none.
LEMMA DroppedNone == subs \subseteq subs' => Dropped = {}
  BY DEF Dropped

\* A step that keeps every subentry and the registries.
LEMMA NoneDropped ==
    ASSUME \A s \in subs : \E n \in subs' : n.key = s.key /\ n.id = s.id,
           UNCHANGED <<devices, entities, had>>
    PROVE  KeepStep
<1>1. Dropped = {}
  BY DEF Dropped
<1>2. \A h : h[1] \notin Dropped
  BY <1>1
<1> HIDE DEF Dropped
<1> QED
  BY <1>1, <1>2 DEF KeepStep

\* A save removes what belongs to the subentries it drops, and nothing else.
LEMMA StoreKeeps ==
    ASSUME NEW newSubs, NEW newPort, StoreEntry(newSubs, newPort)
    PROVE  KeepStep
<1>1. subs' = newSubs
  BY DEF StoreEntry
<1>2. Dropped = {s.key : s \in {t \in subs : \A n \in newSubs : <<n.key, n.id>> # <<t.key, t.id>>}}
  BY <1>1 DEF Dropped
<1> QED
  BY <1>2 DEF KeepStep, StoreEntry

\* A change that comes while setup is under way is noted.
LEMMA StoreNoted ==
    ASSUME EntryInv, NEW newSubs, NEW newPort, StoreEntry(newSubs, newPort)
    PROVE  /\ ~missed' => ~missed
           /\ phase = "validating" /\ ~missed' => subs' = subs
<1>1. missed' = (missed \/ ((newSubs # subs \/ newPort # port) /\ InSetup)) /\ subs' = newSubs
  BY DEF StoreEntry
<1>2. missed \in BOOLEAN
  BY DEF EntryInv, Types, Flags
<1> QED
  BY <1>1, <1>2 DEF InSetup

\* What NewUnitCheck does to subentries, registries and runtime data.
LEMMA NewUnitCheckSteps ==
    ASSUME EntryInv, version = Current, NewUnitCheck
    PROVE  Steps
<1>1. FlowStep
  BY DroppedNone DEF FlowStep, EntryInv, Types, StoredTypes, NewUnitCheck, stored, runtime,
     registries, flows
<1>2. KeepStep
  BY NoneDropped DEF NewUnitCheck, stored, registries
<1>3. RuntimeStep
  BY NoneFacts DEF RuntimeStep, EntryInv, Types, Flags, RuntimeTypes, Lives,
     NothingLeftBehind, NewUnitCheck, stored, runtime
<1>4. version' = version
  BY DEF NewUnitCheck, stored
<1> QED
  BY <1>1, <1>2, <1>3, <1>4 DEF Steps

\* What GatewayInvalid does to subentries, registries and runtime data.
LEMMA GatewayInvalidSteps ==
    ASSUME EntryInv, version = Current, GatewayInvalid
    PROVE  Steps
<1>1. FlowStep
  BY DroppedNone DEF FlowStep, EntryInv, Types, StoredTypes, GatewayInvalid, stored,
     runtime, registries, flows
<1>2. KeepStep
  BY NoneDropped DEF GatewayInvalid, stored, registries
<1>3. RuntimeStep
  BY NoneFacts DEF RuntimeStep, EntryInv, Types, Flags, RuntimeTypes, Lives,
     NothingLeftBehind, GatewayInvalid, stored, runtime
<1>4. version' = version
  BY DEF GatewayInvalid, stored
<1> QED
  BY <1>1, <1>2, <1>3, <1>4 DEF Steps

\* What PlatformsFail does to subentries, registries and runtime data.
LEMMA PlatformsFailSteps ==
    ASSUME EntryInv, version = Current, PlatformsFail
    PROVE  Steps
<1>1. FlowStep
  BY DroppedNone DEF FlowStep, EntryInv, Types, StoredTypes, PlatformsFail, stored, runtime,
     registries, flows
<1>2. KeepStep
  BY NoneDropped DEF PlatformsFail, stored, registries
<1>3. RuntimeStep
  BY NoneFacts DEF RuntimeStep, EntryInv, Types, Flags, RuntimeTypes, Lives,
     NothingLeftBehind, PlatformsFail, stored, runtime
<1>4. version' = version
  BY DEF PlatformsFail, stored
<1> QED
  BY <1>1, <1>2, <1>3, <1>4 DEF Steps

\* What UpdateListener does to subentries, registries and runtime data.
LEMMA UpdateListenerSteps ==
    ASSUME EntryInv, version = Current, UpdateListener
    PROVE  Steps
<1>1. FlowStep
  BY DroppedNone DEF FlowStep, EntryInv, Types, StoredTypes, UpdateListener, stored,
     runtime, registries, flows
<1>2. KeepStep
  BY NoneDropped DEF UpdateListener, stored, registries
<1>3. RuntimeStep
  <2>1. running # None => /\ running' # None /\ running'.rooms = running.rooms
                           /\ running'.snapshot = running.snapshot
    <3> SUFFICES ASSUME running # None
                 PROVE  /\ running' # None /\ running'.rooms = running.rooms
                        /\ running'.snapshot = running.snapshot
      OBVIOUS
    <3>1. running \in RuntimeData
      BY DEF EntryInv, Types, RuntimeTypes
    <3>2. running' = [running EXCEPT !.scheduled = TRUE] \/ running' = running
      BY DEF UpdateListener
    <3> QED
      BY <3>1, <3>2, RunningSet, NoneFacts
  <2>2. running = None => running' = None
    BY DEF UpdateListener, NeedsReload
  <2> QED
    BY <2>1, <2>2 DEF RuntimeStep, UpdateListener, stored
<1>4. version' = version
  BY DEF UpdateListener, stored
<1> QED
  BY <1>1, <1>2, <1>3, <1>4 DEF Steps

\* What BeginReload does to subentries, registries and runtime data.
LEMMA BeginReloadSteps ==
    ASSUME EntryInv, version = Current, BeginReload
    PROVE  Steps
<1>1. FlowStep
  BY DroppedNone DEF FlowStep, EntryInv, Types, StoredTypes, BeginReload, stored, runtime,
     registries, flows
<1>2. KeepStep
  BY NoneDropped DEF BeginReload, stored, registries
<1>3. RuntimeStep
  BY NoneFacts DEF RuntimeStep, EntryInv, Types, Flags, RuntimeTypes, Lives,
     NothingLeftBehind, BeginReload, stored, runtime
<1>4. version' = version
  BY DEF BeginReload, stored
<1> QED
  BY <1>1, <1>2, <1>3, <1>4 DEF Steps

\* What Unloaded does to subentries, registries and runtime data.
LEMMA UnloadedSteps ==
    ASSUME EntryInv, version = Current, Unloaded
    PROVE  Steps
<1>1. FlowStep
  BY DroppedNone DEF FlowStep, EntryInv, Types, StoredTypes, Unloaded, stored, runtime,
     registries, flows
<1>2. KeepStep
  BY NoneDropped DEF Unloaded, stored, registries
<1>3. RuntimeStep
  BY NoneFacts DEF RuntimeStep, EntryInv, Types, Flags, RuntimeTypes, Lives,
     NothingLeftBehind, Unloaded, stored, runtime
<1>4. version' = version
  BY DEF Unloaded, stored
<1> QED
  BY <1>1, <1>2, <1>3, <1>4 DEF Steps

\* What UnloadFails does to subentries, registries and runtime data.
LEMMA UnloadFailsSteps ==
    ASSUME EntryInv, version = Current, UnloadFails
    PROVE  Steps
<1>1. FlowStep
  BY DroppedNone DEF FlowStep, EntryInv, Types, StoredTypes, UnloadFails, stored, runtime,
     registries, flows
<1>2. KeepStep
  BY NoneDropped DEF UnloadFails, stored, registries
<1>3. RuntimeStep
  BY NoneFacts DEF RuntimeStep, EntryInv, Types, Flags, RuntimeTypes, Lives,
     NothingLeftBehind, UnloadFails, stored, runtime
<1>4. version' = version
  BY DEF UnloadFails, stored
<1> QED
  BY <1>1, <1>2, <1>3, <1>4 DEF Steps

\* What Restart does to subentries, registries and runtime data.
LEMMA RestartSteps ==
    ASSUME EntryInv, version = Current, Restart
    PROVE  Steps
<1>1. FlowStep
  BY DroppedNone DEF FlowStep, EntryInv, Types, StoredTypes, Restart, stored, runtime,
     registries, flows, Act
<1>2. KeepStep
  BY NoneDropped DEF Restart, stored, registries
<1>3. RuntimeStep
  BY NoneFacts DEF RuntimeStep, EntryInv, Types, Flags, RuntimeTypes, Lives,
     NothingLeftBehind, Restart, stored, runtime
<1>4. version' = version
  BY DEF Restart, stored
<1> QED
  BY <1>1, <1>2, <1>3, <1>4 DEF Steps

\* What StartRescan does to subentries, registries and runtime data.
LEMMA StartRescanSteps ==
    ASSUME EntryInv, version = Current, StartRescan
    PROVE  Steps
<1>1. FlowStep
  BY DroppedNone DEF FlowStep, EntryInv, Types, StoredTypes, StartRescan, stored, runtime,
     registries, flows, Act
<1>2. KeepStep
  BY NoneDropped DEF StartRescan, stored, registries
<1>3. RuntimeStep
  BY NoneFacts DEF RuntimeStep, EntryInv, Types, Flags, RuntimeTypes, Lives,
     NothingLeftBehind, StartRescan, stored, runtime
<1>4. version' = version
  BY DEF StartRescan, stored
<1> QED
  BY <1>1, <1>2, <1>3, <1>4 DEF Steps

\* What EditRequestRate does to subentries, registries and runtime data.
LEMMA EditRequestRateSteps ==
    ASSUME EntryInv, version = Current, NEW r \in Rates, EditRequestRate(r)
    PROVE  Steps
<1>1. FlowStep
  BY DroppedNone DEF FlowStep, EntryInv, Types, StoredTypes, EditRequestRate, stored,
     runtime, registries, flows, Act
<1>2. KeepStep
  BY NoneDropped DEF EditRequestRate, stored, registries
<1>3. RuntimeStep
  BY NoneFacts DEF RuntimeStep, EntryInv, Types, Flags, RuntimeTypes, Lives,
     NothingLeftBehind, EditRequestRate, stored, runtime
<1>4. version' = version
  BY DEF EditRequestRate, stored
<1> QED
  BY <1>1, <1>2, <1>3, <1>4 DEF Steps

\* What StartAdd does to subentries, registries and runtime data.
LEMMA StartAddSteps ==
    ASSUME EntryInv, version = Current, StartAdd
    PROVE  Steps
<1>1. FlowStep
  BY DroppedNone DEF FlowStep, EntryInv, Types, StoredTypes, StartAdd, stored, runtime,
     registries, flows, Act
<1>2. KeepStep
  BY NoneDropped DEF StartAdd, stored, registries
<1>3. RuntimeStep
  BY NoneFacts DEF RuntimeStep, EntryInv, Types, Flags, RuntimeTypes, Lives,
     NothingLeftBehind, StartAdd, stored, runtime
<1>4. version' = version
  BY DEF StartAdd, stored
<1> QED
  BY <1>1, <1>2, <1>3, <1>4 DEF Steps

\* What ReconfigureConnection does to subentries, registries and runtime data.
LEMMA ReconfigureConnectionSteps ==
    ASSUME EntryInv, version = Current, NEW p \in {"tty", "net"}, ReconfigureConnection(p)
    PROVE  Steps
<1>1. FlowStep
  BY DroppedNone DEF FlowStep, EntryInv, Types, StoredTypes, ReconfigureConnection, stored,
     runtime, registries, flows, Act
<1>2. KeepStep
  BY NoneDropped DEF ReconfigureConnection, stored, registries
<1>3. RuntimeStep
  BY NoneFacts DEF RuntimeStep, EntryInv, Types, Flags, RuntimeTypes, Lives,
     NothingLeftBehind, ReconfigureConnection, stored, runtime
<1>4. version' = version
  BY DEF ReconfigureConnection, stored
<1> QED
  BY <1>1, <1>2, <1>3, <1>4 DEF Steps

\* What PairAgain does to subentries, registries and runtime data.
LEMMA PairAgainSteps ==
    ASSUME EntryInv, version = Current, PairAgain
    PROVE  Steps
<1>1. FlowStep
  BY DroppedNone DEF FlowStep, EntryInv, Types, StoredTypes, PairAgain, stored, runtime,
     registries, flows, Act
<1>2. KeepStep
  BY NoneDropped DEF PairAgain, stored, registries
<1>3. RuntimeStep
  BY NoneFacts DEF RuntimeStep, EntryInv, Types, Flags, RuntimeTypes, Lives,
     NothingLeftBehind, PairAgain, stored, runtime
<1>4. version' = version
  BY DEF PairAgain, stored
<1> QED
  BY <1>1, <1>2, <1>3, <1>4 DEF Steps

\* What LinkAppears does to subentries, registries and runtime data.
LEMMA LinkAppearsSteps ==
    ASSUME EntryInv, version = Current, LinkAppears
    PROVE  Steps
<1>1. FlowStep
  BY DroppedNone DEF FlowStep, EntryInv, Types, StoredTypes, LinkAppears, stored, runtime,
     registries, flows, Act
<1>2. KeepStep
  BY NoneDropped DEF LinkAppears, stored, registries
<1>3. RuntimeStep
  BY NoneFacts DEF RuntimeStep, EntryInv, Types, Flags, RuntimeTypes, Lives,
     NothingLeftBehind, LinkAppears, stored, runtime
<1>4. version' = version
  BY DEF LinkAppears, stored
<1> QED
  BY <1>1, <1>2, <1>3, <1>4 DEF Steps

\* What GatewayValid does to subentries, registries and runtime data.
LEMMA GatewayValidSteps ==
    ASSUME EntryInv, version = Current, GatewayValid
    PROVE  Steps
<1>1. FlowStep
  BY DroppedNone DEF FlowStep, EntryInv, Types, StoredTypes, GatewayValid, stored, runtime,
     registries, flows
<1>2. KeepStep
  BY NoneDropped DEF GatewayValid, stored, registries
<1>3. RuntimeStep
  <2>1. /\ running' = [rooms |-> setup.rooms, port |-> setup.port, rate |-> setup.rate,
                       snapshot |-> Stored, scheduled |-> FALSE,
                       reported |-> RestoreIssue({room.slave : room \in setup.rooms}).reported]
        /\ phase = "validating" /\ phase' = "forwarding" /\ subs' = subs /\ missed' = missed
    BY DEF GatewayValid, stored
  <2>2. running'.rooms = setup.rooms /\ running'.snapshot.units = SnapshotUnits(subs)
    BY <2>1 DEF Stored
  <2> QED
    BY <2>1, <2>2 DEF RuntimeStep
<1>4. version' = version
  BY DEF GatewayValid, stored
<1> QED
  BY <1>1, <1>2, <1>3, <1>4 DEF Steps


\* What a saved rescan does to subentries, registries and runtime data.
LEMMA SaveProfilesSteps ==
    ASSUME EntryInv, rescan # None, NEW profile \in Profiles, SaveProfiles(profile)
    PROVE  Steps
<1> DEFINE built == Rescanned(profile)
<1>1. subs \subseteq Subentries /\ Distinct(subs) /\ rescan \in Rescans /\ changes \in Nat
  BY DEF EntryInv, Types, StoredTypes, FlowTypes
<1>2. StoreEntry(built, Resolve(port))
  BY <1>1, NeverRefused
<1>3. subs' = built
  BY <1>2 DEF StoreEntry
<1>4. \A n \in built : (\E s \in subs : s.key = n.key /\ s.id = n.id) \/ n.id = changes
  BY <1>1, RescannedUnits
<1> HIDE DEF built
<1>5. FlowStep
  BY <1>1, <1>3, <1>4 DEF FlowStep, SaveProfiles
<1>6. KeepStep
  BY <1>2, StoreKeeps
<1>7. RuntimeStep
  BY <1>2, StoreNoted DEF RuntimeStep, SaveProfiles
<1> QED
  BY <1>5, <1>6, <1>7 DEF Steps, SaveProfiles

\* What SubmitProfiles does to subentries, registries and runtime data.
LEMMA SubmitProfilesSteps ==
    ASSUME EntryInv, NEW profile \in Profiles, SubmitProfiles(profile)
    PROVE  Steps
<1>1. CASE SaveProfiles(profile)
  BY <1>1, SaveProfilesSteps DEF SubmitProfiles
<1>2. CASE UNCHANGED <<stored, runtime, registries, adding, world, had, missed, changes>>
  <2>1. FlowStep
    BY <1>2, DroppedNone DEF FlowStep, SubmitProfiles, stored
  <2>2. KeepStep
    BY <1>2, NoneDropped DEF stored, registries
  <2>3. RuntimeStep
    BY <1>2 DEF RuntimeStep, stored, runtime
  <2> QED
    BY <1>2, <2>1, <2>2, <2>3 DEF Steps, stored
<1> QED
  BY <1>1, <1>2 DEF SubmitProfiles

\* What ConfirmRemove does to subentries, registries and runtime data.
LEMMA ConfirmRemoveSteps ==
    ASSUME EntryInv, ConfirmRemove
    PROVE  Steps
<1>1. rescan.profile \in Profiles
  BY DEF EntryInv, Lives, ConfirmRemove
<1> QED
  BY <1>1, SaveProfilesSteps DEF ConfirmRemove

\* What CreateUnit does to subentries, registries and runtime data.
LEMMA CreateUnitSteps ==
    ASSUME EntryInv, NEW a \in Slaves, NEW profile \in Profiles, CreateUnit(a, profile)
    PROVE  Steps
<1> DEFINE n == NewUnit(a, adding[a], profile, subs, changes)
           newSubs == IF FreeToAdd(a) THEN subs \union {n} ELSE subs
<1>1. StoreEntry(newSubs, port)
  BY DEF CreateUnit
<1>2. n.id = changes
  BY DEF NewUnit, Subentry
<1> HIDE DEF n
<1>3. subs' = newSubs
  BY <1>1 DEF StoreEntry
<1>4. \A m \in newSubs : m \in subs \/ m.id = changes
  BY <1>2
<1>8. subs \subseteq newSubs
  OBVIOUS
<1> HIDE DEF newSubs
<1>5. FlowStep
  BY <1>3, <1>4, <1>8, DroppedNone DEF FlowStep, CreateUnit
<1>6. KeepStep
  BY <1>1, StoreKeeps
<1>7. RuntimeStep
  BY <1>1, StoreNoted DEF RuntimeStep, CreateUnit
<1> QED
  BY <1>5, <1>6, <1>7 DEF Steps, CreateUnit

\* What ReconfigureUnit does to subentries, registries and runtime data.
LEMMA ReconfigureUnitSteps ==
    ASSUME EntryInv, NEW s \in subs, NEW profile \in Profiles, ReconfigureUnit(s, profile)
    PROVE  Steps
<1> DEFINE n == [s EXCEPT !.profile = profile]
<1>1. n.key = s.key /\ n.id = s.id
  BY DEF EntryInv, Types, StoredTypes, Subentries
<1>2. subs' = (subs \ {s}) \union {n}
  BY DEF ReconfigureUnit
<1> HIDE DEF n
<1>3. FlowStep
  BY <1>1, <1>2 DEF FlowStep, ReconfigureUnit, Act, EntryInv, Types, StoredTypes
<1>4. \A t \in subs : \E m \in subs' : m.key = t.key /\ m.id = t.id
  BY <1>1, <1>2
<1>5. KeepStep
  BY <1>4, NoneDropped DEF ReconfigureUnit, registries
<1>6. RuntimeStep
  BY <1>4 DEF RuntimeStep, ReconfigureUnit
<1> QED
  BY <1>3, <1>5, <1>6 DEF Steps, ReconfigureUnit

\* What RemoveUnit does to subentries, registries and runtime data.
LEMMA RemoveUnitSteps ==
    ASSUME EntryInv, NEW s \in subs, RemoveUnit(s)
    PROVE  Steps
<1>1. StoreEntry(subs \ {s}, port)
  BY DEF RemoveUnit
<1>2. subs' = subs \ {s}
  BY <1>1 DEF StoreEntry
<1>3. FlowStep
  BY <1>2 DEF FlowStep, RemoveUnit, Act, EntryInv, Types, StoredTypes
<1>4. KeepStep
  BY <1>1, StoreKeeps
<1>5. RuntimeStep
  BY <1>1, StoreNoted DEF RuntimeStep, RemoveUnit
<1> QED
  BY <1>3, <1>4, <1>5 DEF Steps, RemoveUnit

\* A step that changes nothing.
LEMMA StutterSteps ==
    ASSUME UNCHANGED vars
    PROVE  Steps
<1>1. FlowStep
  BY DroppedNone DEF FlowStep, vars, stored, flows
<1>2. KeepStep
  BY NoneDropped DEF vars, stored, registries
<1>3. RuntimeStep
  BY DEF RuntimeStep, vars, stored, runtime
<1> QED
  BY <1>1, <1>2, <1>3 DEF Steps, vars, stored

\* All but the setup that reads the units and the platforms that add devices
\* and entities are such steps.
LEMMA NextSteps ==
    ASSUME EntryInv, version = Current, [Next]_vars, ~BeginSetup, ~PlatformsReady
    PROVE  Steps
<1>1. CASE Lifecycle
  BY <1>1, GatewayValidSteps, GatewayInvalidSteps, PlatformsFailSteps, BeginReloadSteps,
     UnloadedSteps, UnloadFailsSteps DEF Lifecycle
<1>2. CASE UpdateListener \/ NewUnitCheck
  BY <1>2, UpdateListenerSteps, NewUnitCheckSteps
<1>3. CASE MigrateEntry
  BY <1>3 DEF MigrateEntry
<1>4. phase # "absent"
  BY VersionFacts DEF EntryInv, Lives
<1>5. CASE ScanGateway
  BY <1>4, <1>5 DEF ScanGateway
<1>6. ASSUME NEW p \in Profiles, CreateEntry(p) \/ SubmitProfiles(p)
      PROVE  Steps
  BY <1>4, <1>6, SubmitProfilesSteps DEF CreateEntry
<1>7. ASSUME NEW a \in Slaves, NEW p \in Profiles, CreateUnit(a, p)
      PROVE  Steps
  BY <1>7, CreateUnitSteps
<1>8. ASSUME NEW s \in subs, NEW p \in Profiles, ReconfigureUnit(s, p)
      PROVE  Steps
  BY <1>8, ReconfigureUnitSteps
<1>9. ASSUME NEW s \in subs, RemoveUnit(s)
      PROVE  Steps
  BY <1>9, RemoveUnitSteps
<1>10. ASSUME NEW p \in {"tty", "net"}, ReconfigureConnection(p)
       PROVE  Steps
  BY <1>10, ReconfigureConnectionSteps
<1>11. ASSUME NEW r \in Rates, EditRequestRate(r)
       PROVE  Steps
  BY <1>11, EditRequestRateSteps
<1>12. CASE StartRescan \/ ConfirmRemove \/ StartAdd \/ PairAgain \/ LinkAppears \/ Restart
  BY <1>12, StartRescanSteps, ConfirmRemoveSteps, StartAddSteps, PairAgainSteps,
     LinkAppearsSteps,
     RestartSteps
<1>13. CASE UNCHANGED vars
  BY <1>13, StutterSteps
<1> QED
  BY <1>1, <1>2, <1>3, <1>5, <1>6, <1>7, <1>8, <1>9, <1>10, <1>11, <1>12, <1>13 DEF Next

-----------------------------------------------------------------------------
(* The registries belong to the units                                      *)

\* A subentry that is gone does not come back.
LEMMA GoneStays ==
    ASSUME FlowStep, NEW u, u.id \in Nat, u.id <= changes, changes \in Nat, Gone(u)
    PROVE  Gone(u)'
<1>1. changes' \in Nat /\ changes' >= changes
  BY DEF FlowStep
<1>2. ASSUME NEW n \in subs', n.key = u.key, n.id = u.id
      PROVE  FALSE
  <2>1. ~ \E s \in subs : s.key = n.key /\ s.id = n.id
    BY <1>2 DEF Gone
  <2>2. n.id = changes /\ (adding # None \/ rescan # None)
    BY <2>1 DEF FlowStep
  <2> QED
    BY <1>2, <2>2 DEF Gone
<1>3. u.id = changes' => adding' = None /\ rescan' = None
  <2> SUFFICES ASSUME u.id = changes' PROVE adding' = None /\ rescan' = None
    OBVIOUS
  <2>1. changes' = changes
    BY <1>1
  <2>2. adding = None /\ rescan = None
    BY <2>1 DEF Gone
  <2> QED
    BY <2>1, <2>2 DEF FlowStep
<1> QED
  BY <1>2, <1>3 DEF Gone

\* Subentry IDs stay behind the counter that names new ones.
LEMMA SubentryIdsKept ==
    ASSUME EntryInv, EntryInv', SubentryIds, FlowStep, RuntimeStep
    PROVE  SubentryIds'
<1>1. changes \in Nat /\ changes' \in Nat /\ (changes' = changes \/ changes' = changes + 1)
  BY DEF FlowStep, EntryInv, Types, StoredTypes
<1>2. \A s \in subs : s.id \in Nat /\ s.id <= changes
  BY DEF SubentryIds, EntryInv, Types, StoredTypes, Subentries
<1>3. ASSUME NEW n \in subs'
      PROVE  n.id <= changes' /\ (n.id = changes' => adding' = None \/ rescan' = None)
  <2>1. CASE \E s \in subs : s.key = n.key /\ s.id = n.id
    <3>1. PICK s \in subs : s.id = n.id
      BY <2>1
    <3>2. n.id \in Nat /\ n.id <= changes
      BY <1>2, <3>1
    <3>3. n.id <= changes'
      BY <1>1, <3>2
    <3>4. CASE n.id = changes'
      <4>1. changes' = changes
        BY <1>1, <3>2, <3>4
      <4>2. adding = None \/ rescan = None
        BY <3>1, <3>4, <4>1 DEF SubentryIds
      <4> QED
        BY <3>3, <4>1, <4>2 DEF FlowStep
    <3> QED
      BY <3>3, <3>4
  <2>2. CASE /\ n.id = changes /\ changes' = changes
             /\ (adding # None /\ adding' = None) \/ (rescan # None /\ rescan' = None)
    BY <1>1, <2>2
  <2> QED
    BY <2>1, <2>2 DEF FlowStep
<1>4. ASSUME running' # None, NEW u \in running'.snapshot.units
      PROVE  u.id <= changes'
  <2>1. CASE running # None /\ running'.snapshot = running.snapshot
    <3>1. u.id <= changes
      BY <1>4, <2>1 DEF SubentryIds
    <3>2. u.id \in Nat
      BY <1>4, <2>1 DEF EntryInv, Types, RuntimeTypes, RuntimeData, Snapshots
    <3> QED
      BY <1>1, <3>1, <3>2
  <2>2. CASE running'.snapshot.units = SnapshotUnits(subs)
    <3>1. PICK s \in subs : u.id = s.id
      BY <1>4, <2>2 DEF SnapshotUnits
    <3> QED
      BY <1>1, <1>2, <3>1
  <2> QED
    BY <1>4, <2>1, <2>2 DEF RuntimeStep
<1> QED
  BY <1>3, <1>4 DEF SubentryIds

\* A stored subentry stays stored or is gone for good.
LEMMA StaysOrGone ==
    ASSUME EntryInv, SubentryIds, FlowStep, NEW u, u.id \in Nat, u.id <= changes,
           Stays(u) \/ Gone(u)
    PROVE  /\ Stays(u)' \/ Gone(u)'
           /\ u.key \in Dropped => Gone(u)'
<1>1. changes \in Nat /\ changes' \in Nat /\ (changes' = changes \/ changes' = changes + 1)
  BY DEF FlowStep, EntryInv, Types, StoredTypes
<1>2. CASE Gone(u)
  BY <1>1, <1>2, GoneStays
<1>3. CASE Stays(u)
  <2>1. PICK s \in subs : s.key = u.key /\ s.id = u.id
    BY <1>3 DEF Stays
  <2>2. CASE Stays(u)' /\ u.key \notin Dropped
    BY <2>2
  <2>3. CASE Stays(u)' /\ u.key \in Dropped
    <3>1. PICK t \in subs : t.key = u.key /\ \A n \in subs' : <<n.key, n.id>> # <<t.key, t.id>>
      BY <2>3 DEF Dropped
    <3>2. t = s
      BY <2>1, <3>1 DEF EntryInv, Distinct
    <3> QED
      BY <2>1, <2>3, <3>1, <3>2 DEF Stays
  <2>4. CASE ~Stays(u)'
    <3>1. \A n \in subs' : n.key # u.key \/ n.id # u.id
      BY <2>4 DEF Stays
    <3>2. s.key \in Dropped
      BY <2>1, <3>1 DEF Dropped
    <3>3. ASSUME u.id = changes' PROVE adding' = None /\ rescan' = None
      <4>1. changes' = changes
        BY <1>1, <3>3
      <4>2. rescan # None /\ rescan' = None
        BY <3>2, <4>1 DEF FlowStep
      <4>3. adding = None
        BY <2>1, <3>3, <4>1, <4>2 DEF SubentryIds
      <4> QED
        BY <4>1, <4>2, <4>3 DEF FlowStep
    <3> QED
      BY <3>1, <3>3 DEF Gone
  <2> QED
    BY <2>2, <2>3, <2>4
<1> QED
  BY <1>2, <1>3

\* The subentries that setup read stay stored or gone.
LEMMA SnapshotFollowedKept ==
    ASSUME EntryInv, EntryInv', SubentryIds, SnapshotFollowed, FlowStep, RuntimeStep
    PROVE  SnapshotFollowed'
<1> SUFFICES ASSUME running' # None, NEW u \in running'.snapshot.units
             PROVE  Stays(u)' \/ Gone(u)'
  BY DEF SnapshotFollowed
<1>1. CASE running # None /\ running'.snapshot = running.snapshot
  <2>1. u.id \in Nat
    BY <1>1 DEF EntryInv, Types, RuntimeTypes, RuntimeData, Snapshots
  <2>2. u.id <= changes /\ (Stays(u) \/ Gone(u))
    BY <1>1 DEF SubentryIds, SnapshotFollowed
  <2> QED
    BY <2>1, <2>2, StaysOrGone
<1>2. CASE running'.snapshot.units = SnapshotUnits(subs) /\ subs' = subs
  BY <1>2 DEF SnapshotUnits, Stays
<1> QED
  BY <1>1, <1>2 DEF RuntimeStep

\* The registries of setup survive a step that may only remove from them.
LEMMA SyncedKept ==
    ASSUME NEW rooms, Synced(rooms), KeepStep
    PROVE  Synced(rooms)'
  BY DEF Synced, KeepStep

\* The device and the entities of a room stay unless its subentry goes.
LEMMA RegisteredKept ==
    ASSUME NEW room \in Rooms, Registered(room), KeepStep, Dropped \subseteq Keys,
           room.key \notin Dropped
    PROVE  Registered(room)'
<1>1. RoomIdentifiers(room) \intersect Dropped = {}
  <2>1. room.code # None => room.code \notin Keys
    BY CodesAssumption DEF Rooms
  <2> QED
    BY <2>1 DEF RoomIdentifiers
<1>2. RoomIdentifiers(room) \in devices'
  BY <1>1 DEF Registered, KeepStep
<1>3. \A e \in entities : e.key = room.key => e \in entities'
  BY DEF KeepStep
<1> QED
  BY <1>2, <1>3 DEF Registered

\* What setup left of the registries stays in step with the rooms it read.
LEMMA SetupFollowedKept ==
    ASSUME EntryInv, EntryInv', SubentryIds, SnapshotFollowed, SetupFollowed, FlowStep, KeepStep,
           RuntimeStep
    PROVE  SetupFollowed'
<1>1. ASSUME phase' = "validating"
      PROVE  /\ RoomsDistinct(setup'.rooms) /\ Synced(setup.rooms)'
             /\ ~missed' => \A room \in setup'.rooms : \E s \in subs' : s.key = room.key
  <2>1. phase = "validating" /\ setup' = setup
    BY <1>1 DEF RuntimeStep
  <2>2. Synced(setup.rooms)'
    BY <2>1, SyncedKept DEF SetupFollowed, Synced
  <2>3. ~missed' => \A room \in setup.rooms : \E s \in subs' : s.key = room.key
    BY <1>1, <2>1 DEF SetupFollowed, RuntimeStep
  <2> QED
    BY <2>1, <2>2, <2>3 DEF SetupFollowed
<1>2. ASSUME phase' = "forwarding"
      PROVE  RoomsDistinct(running'.rooms) /\ Synced(running.rooms)'
  <2>1. running' # None
    BY <1>2 DEF EntryInv, Lives, NothingLeftBehind
  <2>2. CASE phase = "forwarding" /\ running'.rooms = running.rooms
    <3>1. Synced(running.rooms)'
      BY <2>2, SyncedKept DEF SetupFollowed, Synced
    <3> QED
      BY <2>2, <3>1 DEF SetupFollowed
  <2>3. CASE phase = "validating" /\ running'.rooms = setup.rooms
    <3>1. Synced(running.rooms)'
      BY <2>3, SyncedKept DEF SetupFollowed, Synced
    <3> QED
      BY <2>3, <3>1 DEF SetupFollowed
  <2> QED
    BY <1>2, <2>1, <2>2, <2>3 DEF RuntimeStep
<1>3. ASSUME running' # None, ~missed', NEW room \in running'.rooms
      PROVE  \E u \in running'.snapshot.units : u.key = room.key
  <2>1. ~missed
    BY <1>3 DEF RuntimeStep
  <2>2. CASE /\ running # None /\ running'.rooms = running.rooms
             /\ running'.snapshot = running.snapshot
    BY <1>3, <2>1, <2>2 DEF SetupFollowed
  <2>3. CASE /\ phase = "validating" /\ running'.rooms = setup.rooms
             /\ running'.snapshot.units = SnapshotUnits(subs)
    <3>1. PICK s \in subs : s.key = room.key
      BY <1>3, <2>1, <2>3 DEF SetupFollowed
    <3> QED
      BY <2>3, <3>1 DEF SnapshotUnits
  <2> QED
    BY <1>3, <2>2, <2>3 DEF RuntimeStep
<1>4. ASSUME phase' = "loaded"
      PROVE  /\ \A e \in entities' : <<e.key, e.name>> \in RoomEntities(running'.rooms)
             /\ ~missed' => \A room \in running'.rooms :
                   \/ Registered(room)'
                   \/ \E u \in running'.snapshot.units : u.key = room.key /\ Gone(u)'
  <2>1. running' # None
    BY <1>4 DEF EntryInv, Lives, NothingLeftBehind
  <2>2. /\ phase = "loaded" /\ running # None
        /\ running'.rooms = running.rooms /\ running'.snapshot = running.snapshot
    BY <1>4, <2>1 DEF RuntimeStep
  <2>3. running \in RuntimeData
    BY <2>2 DEF EntryInv, Types, RuntimeTypes
  <2>4. \A e \in entities' : <<e.key, e.name>> \in RoomEntities(running.rooms)
    BY <2>2 DEF SetupFollowed, KeepStep
  <2>5. ASSUME ~missed', NEW room \in running.rooms
        PROVE  \/ Registered(room)'
               \/ \E u \in running.snapshot.units : u.key = room.key /\ Gone(u)'
    <3>1. ~missed
      BY <2>1, <2>5 DEF RuntimeStep
    <3>2. room \in Rooms /\ \A u \in running.snapshot.units : u.id \in Nat
      BY <2>3 DEF RuntimeData, Snapshots
    <3>3. \A u \in running.snapshot.units : u.id <= changes
      BY <2>2 DEF SubentryIds
    <3>4. changes \in Nat /\ changes' \in Nat
      BY DEF EntryInv, Types, StoredTypes
    <3>5. \A u \in running.snapshot.units : Stays(u) \/ Gone(u)
      BY <2>2 DEF SnapshotFollowed
    <3>6. CASE \E u \in running.snapshot.units : u.key = room.key /\ Gone(u)
      <4>1. PICK u \in running.snapshot.units : u.key = room.key /\ Gone(u)
        BY <3>6
      <4>2. Gone(u)'
        BY <3>2, <3>3, <3>4, <4>1, GoneStays
      <4> QED
        BY <4>1, <4>2
    <3>7. CASE Registered(room) /\ room.key \notin Dropped
      <4>1. Dropped \subseteq Keys
        BY DEF Dropped, EntryInv, Types, StoredTypes, Subentries
      <4> QED
        BY <3>2, <3>7, <4>1, RegisteredKept
    <3>8. CASE room.key \in Dropped
      <4>1. PICK u \in running.snapshot.units : u.key = room.key
        BY <2>2, <2>5, <3>1 DEF SetupFollowed
      <4>2. Gone(u)'
        BY <3>2, <3>3, <3>5, <3>8, <4>1, StaysOrGone
      <4> QED
        BY <4>1, <4>2
    <3> QED
      BY <2>2, <2>5, <3>1, <3>6, <3>7, <3>8 DEF SetupFollowed
  <2> QED
    BY <2>2, <2>4, <2>5
<1> QED
  BY <1>1, <1>2, <1>3, <1>4 DEF SetupFollowed

\* No entity that the user had is replaced once the entry is current.
LEMMA UserEntitiesKept ==
    ASSUME UserEntities, version = Current, version' = Current, KeepStep
    PROVE  UserEntities'
<1>1. entities' \subseteq entities /\ had' \subseteq had
  BY DEF KeepStep
<1>2. entities' \subseteq Entities /\ \A e \in entities' : e.scoped /\ (e.fresh => <<e.key, e.name>> \notin had')
  BY <1>1 DEF UserEntities
<1>3. ASSUME NEW h \in had' PROVE \E e \in entities' : h = <<e.key, e.name>>
  <2>1. h \in had /\ h[1] \notin Dropped
    BY DEF KeepStep
  <2>2. PICK e \in entities : h = <<e.key, e.name>>
    BY <2>1 DEF UserEntities
  <2>3. h[1] = e.key
    BY <2>2
  <2>4. e \in entities'
    BY <2>1, <2>3 DEF KeepStep
  <2> QED
    BY <2>2, <2>4
<1> QED
  BY <1>2, <1>3, VersionFacts DEF UserEntities

\* _room_configs: keys and codes identify the rooms of a setup.
LEMMA RoomConfigsDistinct ==
    ASSUME Distinct(subs)
    PROVE  /\ RoomsDistinct(RoomConfigs(subs))
           /\ \A room \in RoomConfigs(subs) : \E s \in subs : s.key = room.key
<1> DEFINE code(s) == IF \E t \in subs \ {s} : t.code = s.code THEN None ELSE s.code
           room(s) == [key |-> s.key, slave |-> s.slave, profile |-> s.profile, code |-> code(s)]
<1>1. RoomConfigs(subs) = {room(s) : s \in subs}
  BY DEF RoomConfigs
<1>2. \A s \in subs : room(s).key = s.key /\ room(s).code = code(s)
  OBVIOUS
<1>3. \A s, t \in subs : code(s) = code(t) /\ code(s) # None => s = t
  OBVIOUS
<1> HIDE DEF room, code
<1>4. \A s, t \in subs : room(s).key = room(t).key => room(s) = room(t)
  <2> TAKE s, t \in subs
  <2> HAVE room(s).key = room(t).key
  <2>1. s = t
    BY <1>2 DEF Distinct
  <2> QED
    BY <2>1
<1>5. \A s, t \in subs : room(s).code = room(t).code /\ room(s).code # None => room(s) = room(t)
  <2> TAKE s, t \in subs
  <2> HAVE room(s).code = room(t).code /\ room(s).code # None
  <2>1. s = t
    BY <1>2, <1>3
  <2> QED
    BY <2>1
<1> QED
  BY <1>1, <1>2, <1>4, <1>5 DEF RoomsDistinct

\* _async_sync_devices: a code is left only on the device of the room that has it.
LEMMA SyncDevicesCodes ==
    ASSUME NEW rooms, rooms \subseteq Rooms, RoomsDistinct(rooms), NEW room \in rooms,
           NEW d \in SyncDevices(rooms), room.code # None, room.code \in d
    PROVE  room.key \in d
<1>1. PICK c \in devices :
          d = UNION {c \intersect (Keys \union RoomIdentifiers(r)) : r \in {q \in rooms : q.key \in c}}
  BY DEF SyncDevices, SyncDevicesKeepingCodes
<1>2. PICK r \in rooms : r.key \in c /\ room.code \in c \intersect (Keys \union RoomIdentifiers(r))
  BY <1>1
<1>3. room.code \notin Keys
  BY CodesAssumption DEF Rooms
<1>4. room.code \in RoomIdentifiers(r)
  BY <1>2, <1>3
<1>5. r.key \in Keys
  BY DEF Rooms
<1>6. room.code = r.code
  BY <1>3, <1>4, <1>5 DEF RoomIdentifiers
<1>7. r = room
  BY <1>6 DEF RoomsDistinct
<1>8. r.key \in c \intersect (Keys \union RoomIdentifiers(r))
  BY <1>2, <1>5
<1> QED
  BY <1>1, <1>2, <1>7, <1>8

\* async_setup_entry: the registries are brought in step with the rooms it reads.
LEMMA BeginSetupRegistry ==
    ASSUME EntryInv, RegistryInv, BeginSetup
    PROVE  RegistryInv'
<1> DEFINE rooms == RoomConfigs(subs)
<1>1. /\ setup' = [rooms |-> rooms, port |-> Resolve(port), rate |-> rate]
      /\ devices' = SyncDevices(rooms) /\ entities' = SupportedEntities(rooms)
      /\ had' = had \intersect RoomEntities(rooms)
  BY DEF BeginSetup
<1>2. running = None /\ running' = None
  BY DEF EntryInv, Lives, NothingLeftBehind, BeginSetup
<1>3. /\ RoomsDistinct(rooms)
      /\ \A room \in rooms : \E s \in subs : s.key = room.key
  BY RoomConfigsDistinct DEF EntryInv
<1>4. rooms \subseteq Rooms
  BY RoomsTyped DEF EntryInv, Types, StoredTypes
<1> HIDE DEF rooms
<1>5. setup'.rooms = rooms /\ phase' = "validating" /\ subs' = subs
  BY <1>1 DEF BeginSetup
<1>6. SubentryIds' /\ SnapshotFollowed'
  BY <1>2 DEF RegistryInv, SubentryIds, SnapshotFollowed, BeginSetup, flows
<1>7. SetupFollowed'
  <2>1. \A room \in rooms, d \in devices' : room.code # None /\ room.code \in d => room.key \in d
    BY <1>1, <1>3, <1>4, SyncDevicesCodes
  <2>2. \A e \in entities' : <<e.key, e.name>> \in RoomEntities(rooms)
    BY <1>1 DEF SupportedEntities
  <2>3. Synced(setup.rooms)'
    BY <1>5, <2>1, <2>2 DEF Synced
  <2> QED
    BY <1>2, <1>3, <1>5, <2>3 DEF SetupFollowed
<1>8. UserEntities'
  <2>1. version = Current /\ version' = Current
    BY DEF BeginSetup
  <2>2. entities' \subseteq entities /\ had' \subseteq had
    BY <1>1 DEF SupportedEntities
  <2>3. ASSUME NEW h \in had' PROVE \E e \in entities' : h = <<e.key, e.name>>
    <3>1. PICK e \in entities : h = <<e.key, e.name>> /\ e.scoped
      BY <2>1, <2>2 DEF RegistryInv, UserEntities
    <3>2. e \in entities'
      BY <1>1, <3>1 DEF SupportedEntities
    <3> QED
      BY <3>1, <3>2
  <2> QED
    BY <2>1, <2>2, <2>3, VersionFacts DEF RegistryInv, UserEntities
<1> QED
  BY <1>6, <1>7, <1>8 DEF RegistryInv

\* The platforms: Home Assistant accepts every room, and each gets its device
\* and the entities it has not.
LEMMA PlatformsReadyRegistry ==
    ASSUME EntryInv, RegistryInv, PlatformsReady
    PROVE  RegistryInv'
<1> DEFINE rooms == running.rooms
           new == RoomEntities(rooms) \ {<<e.key, e.name>> : e \in entities}
           entity(p) == [key |-> p[1], name |-> p[2], scoped |-> TRUE, fresh |-> TRUE]
<1>1. /\ phase = "forwarding" /\ running # None /\ running \in RuntimeData
      /\ RoomsDistinct(rooms) /\ Synced(rooms)
  BY DEF EntryInv, Types, RuntimeTypes, Lives, NothingLeftBehind, PlatformsReady, RegistryInv,
         SetupFollowed
<1>2. rooms \subseteq Rooms
  BY <1>1 DEF RuntimeData
<1>3. \A room \in rooms : ~Rejected(room)
  <2> TAKE room \in rooms
  <2>1. ASSUME NEW d \in devices, room.key \notin d, d \intersect RoomIdentifiers(room) # {}
        PROVE  FALSE
    <3>1. room.code # None /\ room.code \in d
      BY <2>1 DEF RoomIdentifiers
    <3> QED
      BY <1>1, <2>1, <3>1 DEF Synced
  <2>2. ASSUME NEW r \in rooms, r.slave < room.slave, r.code # None, r.code = room.code
        PROVE  FALSE
    <3>1. r = room
      BY <1>1, <2>2 DEF RoomsDistinct
    <3>2. room.slave \in Nat
      BY <1>2, SlavesAssumption DEF Rooms
    <3> QED
      BY <2>2, <3>1, <3>2
  <2> QED
    BY <2>1, <2>2 DEF Rejected
<1>4. {room \in running.rooms : ~Rejected(room)} = rooms
  BY <1>3
<1>5. /\ devices' = {d \in devices : \A room \in rooms : room.key \notin d}
                        \union {RoomIdentifiers(room) : room \in rooms}
      /\ entities' = entities \union {entity(p) : p \in new}
      /\ phase' = "loaded" /\ UNCHANGED <<stored, running, missed, flows, changes, had>>
  BY <1>4 DEF PlatformsReady
<1> HIDE DEF rooms
<1>6. \A p \in new : /\ p = <<p[1], p[2]>> /\ entity(p) \in Entities
                     /\ entity(p).key = p[1] /\ entity(p).name = p[2] /\ entity(p).scoped
  <2> TAKE p \in new
  <2>1. PICK room \in rooms : \E name \in Names[room.profile] : p = <<room.key, name>>
    BY DEF RoomEntities
  <2>2. PICK name \in Names[room.profile] : p = <<room.key, name>>
    BY <2>1
  <2>3. room.key \in Keys /\ room.profile \in Profiles
    BY <1>2 DEF Rooms
  <2>4. name \in EntityNames
    BY <2>3 DEF EntityNames, NewNames
  <2>5. p[1] = room.key /\ p[2] = name
    BY <2>2
  <2> QED
    BY <2>2, <2>3, <2>4, <2>5 DEF Entities
<1> HIDE DEF entity, new
<1>7. SubentryIds' /\ SnapshotFollowed'
  BY <1>5 DEF RegistryInv, SubentryIds, SnapshotFollowed, Stays, Gone, stored, flows
<1>8. SetupFollowed'
  <2>1. \A e \in entities' : <<e.key, e.name>> \in RoomEntities(rooms)
    <3>1. \A e \in entities : <<e.key, e.name>> \in RoomEntities(rooms)
      BY <1>1 DEF Synced
    <3>2. \A p \in new : <<entity(p).key, entity(p).name>> \in RoomEntities(rooms)
      BY <1>6 DEF new
    <3> QED
      BY <1>5, <3>1, <3>2
  <2>2. ASSUME NEW room \in rooms, NEW name \in Names[room.profile]
        PROVE  \E e \in entities' : e.key = room.key /\ e.name = name
    <3> DEFINE p == <<room.key, name>>
    <3>1. p \in RoomEntities(rooms)
      BY DEF RoomEntities
    <3>2. CASE p \in new
      BY <1>5, <1>6, <3>2
    <3>3. CASE p \notin new
      <4>1. PICK e \in entities : p = <<e.key, e.name>>
        BY <3>1, <3>3 DEF new
      <4> QED
        BY <1>5, <4>1
    <3> QED
      BY <3>2, <3>3
  <2>3. \A room \in rooms : RoomIdentifiers(room) \in devices'
    BY <1>5
  <2>4. \A room \in rooms : Registered(room)'
    BY <2>2, <2>3 DEF Registered
  <2>5. running' = running /\ missed' = missed
    BY <1>5
  <2>6. ~missed => \A room \in rooms : \E u \in running.snapshot.units : u.key = room.key
    BY <1>1 DEF RegistryInv, SetupFollowed, rooms
  <2> QED
    BY <1>5, <2>1, <2>4, <2>5, <2>6 DEF SetupFollowed, rooms
<1>9. UserEntities'
  <2>1. version = Current /\ version' = Current /\ had' = had
    BY <1>1, <1>5, VersionFacts DEF EntryInv, Types, StoredTypes, Lives, stored
  <2>2. \A h \in had : h \notin new
    BY <2>1 DEF RegistryInv, UserEntities, new
  <2>3. \A p \in new : <<entity(p).key, entity(p).name>> = p
    BY <1>6
  <2>4. \A e \in entities' : e \in Entities /\ e.scoped /\ (e.fresh => <<e.key, e.name>> \notin had)
    <3>1. \A e \in entities : e \in Entities /\ e.scoped /\ (e.fresh => <<e.key, e.name>> \notin had)
      BY <2>1 DEF RegistryInv, UserEntities
    <3>2. \A p \in new : /\ entity(p) \in Entities /\ entity(p).scoped
                         /\ <<entity(p).key, entity(p).name>> \notin had
      BY <1>6, <2>2, <2>3
    <3> QED
      BY <1>5, <3>1, <3>2
  <2>5. \A h \in had : \E e \in entities' : h = <<e.key, e.name>>
    BY <1>5, <2>1 DEF RegistryInv, UserEntities
  <2> QED
    BY <2>1, <2>4, <2>5, VersionFacts DEF UserEntities
<1> QED
  BY <1>7, <1>8, <1>9 DEF RegistryInv

-----------------------------------------------------------------------------
(* The entities of earlier releases (migration.py)                         *)

\* Renaming entities leaves each under its old or its new name, and none is
\* without one when it ends.
LEMMA RenameFacts ==
    ASSUME NEW E, E \subseteq Entities, NEW from, NEW to \in EntityNames, from # to
    PROVE  LET R == Rename(E, from, to)
           IN  /\ R \subseteq Entities
               /\ \A r \in R : \E e \in E : /\ r.key = e.key /\ r.scoped = e.scoped /\ r.fresh = e.fresh
                                            /\ r.name = e.name \/ r.name = to
               /\ \A e \in E : e.name # from => e \in R
               /\ \A e \in E : e.name = from => \E r \in R : r.key = e.key /\ r.name = to
<1> DEFINE free(e) == \A f \in E : f.key = e.key /\ f.scoped = e.scoped => f.name # to
           new(e) == IF e.name = from /\ free(e) THEN [e EXCEPT !.name = to] ELSE e
           R == Rename(E, from, to)
<1>1. R = {new(e) : e \in E}
  BY DEF Rename
<1>2. \A e \in E : /\ [e EXCEPT !.name = to] \in Entities
                   /\ [e EXCEPT !.name = to].key = e.key /\ [e EXCEPT !.name = to].name = to
                   /\ [e EXCEPT !.name = to].scoped = e.scoped
                   /\ [e EXCEPT !.name = to].fresh = e.fresh
  BY DEF Entities
<1>3. \A e \in E : /\ new(e) \in Entities /\ new(e).key = e.key
                   /\ new(e).scoped = e.scoped /\ new(e).fresh = e.fresh
                   /\ new(e).name = e.name \/ new(e).name = to
                   /\ e.name # from => new(e) = e
                   /\ e.name = from /\ free(e) => new(e).name = to
  BY <1>2
<1> HIDE DEF new
<1>4. ASSUME NEW e \in E, e.name = from PROVE \E r \in R : r.key = e.key /\ r.name = to
  <2>1. CASE free(e)
    BY <1>1, <1>3, <1>4, <2>1
  <2>2. CASE ~free(e)
    <3>1. PICK f \in E : f.key = e.key /\ f.name = to
      BY <2>2
    <3>2. new(f) = f
      BY <1>3, <3>1
    <3> QED
      BY <1>1, <3>1, <3>2
  <2> QED
    BY <2>1, <2>2
<1>5. /\ R \subseteq Entities
      /\ \A r \in R : \E e \in E : /\ r.key = e.key /\ r.scoped = e.scoped /\ r.fresh = e.fresh
                                   /\ r.name = e.name \/ r.name = to
      /\ \A e \in E : e.name # from => e \in R
  BY <1>1, <1>3
<1> HIDE DEF R
<1>6. \A e \in E : e.name = from => \E r \in R : r.key = e.key /\ r.name = to
  BY <1>4
<1> QED
  BY <1>5, <1>6 DEF R

\* async_migrate_entry: every entity the user had is there under its name of
\* today, scoped by the entry.
LEMMA MigrateEntities ==
    ASSUME EntryInv, UserEntities, MigrateEntry
    PROVE  UserEntities'
<1> DEFINE health == IF version[1] = 1 /\ version[2] < 2
                     THEN Rename(entities, "airflow_data_stale", "data_health") ELSE entities
           scope(e) == [e EXCEPT !.scoped = TRUE]
           scoped == IF version[1] = 1 THEN {scope(e) : e \in health} ELSE health
<1>1. version \in OldVersions /\ version # Current /\ version # <<0, 0>>
  BY VersionFacts DEF EntryInv, Types, StoredTypes, MigrateEntry
<1>2. /\ entities \subseteq Entities /\ \A e \in entities : ~e.fresh
      /\ \A h \in had : \E e \in entities : h = <<e.key, NameNow(e.name)>>
      /\ \A e \in entities : e.name = "airflow_data_stale" => version = <<1, 1>>
      /\ \A e \in entities : version = <<2, 1>> => e.scoped
  BY <1>1 DEF UserEntities
<1>3. {"airflow_data_stale", "rf_fault_status", "data_health", "device_fault"} \subseteq EntityNames
  BY DEF EntityNames
<1>4. /\ health \subseteq Entities /\ \A e \in health : ~e.fresh
      /\ \A e \in health : version = <<2, 1>> => e.scoped
      /\ \A e \in entities : e.name # "airflow_data_stale" => e \in health
      /\ \A e \in entities : e.name = "airflow_data_stale" =>
            \E r \in health : r.key = e.key /\ r.name = "data_health"
  <2>1. CASE version[1] = 1 /\ version[2] < 2
    <3> DEFINE R == Rename(entities, "airflow_data_stale", "data_health")
    <3>1. health = R /\ version # <<2, 1>>
      BY <2>1
    <3>2. /\ R \subseteq Entities
          /\ \A r \in R : \E e \in entities : r.fresh = e.fresh
          /\ \A e \in entities : e.name # "airflow_data_stale" => e \in R
          /\ \A e \in entities : e.name = "airflow_data_stale" =>
                \E r \in R : r.key = e.key /\ r.name = "data_health"
      BY <1>2, <1>3, RenameFacts
    <3> HIDE DEF R, health
    <3> QED
      BY <1>2, <3>1, <3>2
  <2>2. CASE ~(version[1] = 1 /\ version[2] < 2)
    <3>1. version # <<1, 1>>
      BY <2>2
    <3>2. health = entities
      BY <2>2
    <3> HIDE DEF health
    <3> QED
      BY <1>2, <3>1, <3>2
  <2> QED
    BY <2>1, <2>2
<1> HIDE DEF health
<1>5. /\ scoped \subseteq Entities /\ \A e \in scoped : ~e.fresh /\ e.scoped
      /\ \A e \in health : \E r \in scoped : r.key = e.key /\ r.name = e.name
  <2>1. \A e \in health : /\ scope(e) \in Entities /\ scope(e).key = e.key /\ scope(e).name = e.name
                          /\ scope(e).scoped = TRUE /\ scope(e).fresh = e.fresh
    BY <1>4 DEF Entities
  <2> HIDE DEF scope
  <2>2. CASE version[1] = 1
    <3>1. scoped = {scope(e) : e \in health}
      BY <2>2
    <3> HIDE DEF scoped
    <3> QED
      BY <1>4, <2>1, <3>1
  <2>3. CASE version[1] # 1
    <3>1. version = <<2, 1>>
      BY <1>1, <2>3, VersionFacts
    <3>2. scoped = health
      BY <2>3
    <3> HIDE DEF scoped
    <3> QED
      BY <1>4, <3>1, <3>2
  <2> QED
    BY <2>2, <2>3
<1>6. entities' = Rename(scoped, "rf_fault_status", "device_fault")
  BY DEF MigrateEntry, RenamedEntities, health
<1> HIDE DEF scoped
<1>7. /\ entities' \subseteq Entities
      /\ \A r \in entities' : \E e \in scoped : r.scoped = e.scoped /\ r.fresh = e.fresh
      /\ \A e \in scoped : e.name # "rf_fault_status" => e \in entities'
      /\ \A e \in scoped : e.name = "rf_fault_status" =>
            \E r \in entities' : r.key = e.key /\ r.name = "device_fault"
  <2>1. LET R == Rename(scoped, "rf_fault_status", "device_fault")
        IN  /\ R \subseteq Entities
            /\ \A r \in R : \E e \in scoped : r.scoped = e.scoped /\ r.fresh = e.fresh
            /\ \A e \in scoped : e.name # "rf_fault_status" => e \in R
            /\ \A e \in scoped : e.name = "rf_fault_status" =>
                  \E r \in R : r.key = e.key /\ r.name = "device_fault"
    BY <1>3, <1>5, RenameFacts
  <2> QED
    BY <1>6, <2>1
<1>8. \A r \in entities' : r.scoped /\ ~r.fresh
  BY <1>5, <1>7
<1>9. ASSUME NEW h \in had PROVE \E r \in entities' : h = <<r.key, r.name>>
  <2>1. PICK e \in entities : h = <<e.key, NameNow(e.name)>>
    BY <1>2
  <2>2. CASE e.name = "airflow_data_stale"
    <3>1. PICK f \in health : f.key = e.key /\ f.name = "data_health"
      BY <1>4, <2>2
    <3>2. PICK g \in scoped : g.key = e.key /\ g.name = "data_health"
      BY <1>5, <3>1
    <3>3. g \in entities'
      BY <1>7, <3>2
    <3>4. NameNow(e.name) = "data_health"
      BY <2>2 DEF NameNow
    <3> QED
      BY <2>1, <3>2, <3>3, <3>4
  <2>3. CASE e.name = "rf_fault_status"
    <3>1. e \in health
      BY <1>4, <2>3
    <3>2. PICK g \in scoped : g.key = e.key /\ g.name = e.name
      BY <1>5, <3>1
    <3>3. PICK r \in entities' : r.key = g.key /\ r.name = "device_fault"
      BY <1>7, <2>3, <3>2
    <3>4. NameNow(e.name) = "device_fault"
      BY <2>3 DEF NameNow
    <3> QED
      BY <2>1, <3>2, <3>3, <3>4
  <2>4. CASE e.name # "airflow_data_stale" /\ e.name # "rf_fault_status"
    <3>1. e \in health
      BY <1>4, <2>4
    <3>2. PICK g \in scoped : g.key = e.key /\ g.name = e.name
      BY <1>5, <3>1
    <3>3. g \in entities'
      BY <1>7, <2>4, <3>2
    <3>4. NameNow(e.name) = e.name
      BY <2>4 DEF NameNow
    <3> QED
      BY <2>1, <3>2, <3>3, <3>4
  <2> QED
    BY <2>2, <2>3, <2>4
<1>10. version' = Current /\ had' = had
  BY DEF MigrateEntry
<1> QED
  BY <1>7, <1>8, <1>9, <1>10, VersionFacts DEF UserEntities

\* Before the entry has its current version no setup runs.
LEMMA OldSteps ==
    ASSUME EntryInv, RegistryInv, version # Current, [Next]_vars
    PROVE  RegistryInv'
<1>1. /\ running = None /\ setup = None /\ rescan = None /\ phase \in {"absent", "idle"}
      /\ adding # None => phase = "absent"
  BY VersionFacts DEF EntryInv, Types, StoredTypes, RuntimeTypes, Lives, NothingLeftBehind
<1>2. SUFFICES /\ running' = None /\ phase' \in {"absent", "idle"} /\ rescan' = None
               /\ \A n \in subs' : n.id <= changes'
               /\ UserEntities'
  BY <1>2 DEF RegistryInv, SubentryIds, SnapshotFollowed, SetupFollowed
<1>3. changes \in Nat /\ \A s \in subs : s.id \in Nat /\ s.id <= changes
  BY DEF RegistryInv, SubentryIds, EntryInv, Types, StoredTypes, Subentries
<1>4. CASE MigrateEntry
  <2>1. \A n \in subs' : n.id <= changes'
    <3> DEFINE uid(s) == IF \E t \in subs : t.slave = s.slave /\ t.key[2] < s.key[2]
                         THEN None ELSE s.slave
    <3>1. \A s \in subs : [s EXCEPT !.uid = uid(s)].id = s.id
      BY DEF EntryInv, Types, StoredTypes, Subentries
    <3>2. subs' = subs \/ subs' = {[s EXCEPT !.uid = uid(s)] : s \in subs}
      BY <1>4 DEF MigrateEntry
    <3> HIDE DEF uid
    <3> DEFINE new(s) == [s EXCEPT !.uid = uid(s)]
    <3>5. \A s \in subs : new(s).id = s.id
      BY <3>1
    <3>6. subs' = subs \/ subs' = {new(s) : s \in subs}
      BY <3>2
    <3> HIDE DEF new
    <3>3. \A n \in subs' : \E s \in subs : n.id = s.id
      <4>1. CASE subs' = subs
        BY <4>1
      <4>2. CASE subs' = {new(s) : s \in subs}
        BY <3>5, <4>2
      <4> QED
        BY <3>6, <4>1, <4>2
    <3>4. changes' = changes
      BY <1>4 DEF MigrateEntry
    <3> QED
      BY <1>3, <3>3, <3>4
  <2>2. UserEntities'
    BY <1>4, MigrateEntities DEF RegistryInv
  <2> QED
    BY <1>1, <1>4, <2>1, <2>2 DEF MigrateEntry, runtime, flows
<1>5. ASSUME NEW p \in Profiles, CreateEntry(p) PROVE
          /\ running' = None /\ phase' \in {"absent", "idle"} /\ rescan' = None
          /\ \A n \in subs' : n.id <= changes'
          /\ UserEntities'
  <2> DEFINE none == [a \in {} |-> None]
             profiles == [a \in Slaves |-> p]
             built == BuildRoomsFromProfiles(adding, none, profiles, 0)
  <2>1. \A n \in built : n.id = 0
    <3>1. adding \in ProbeResults
      BY <1>5 DEF EntryInv, Types, FlowTypes, CreateEntry
    <3>2. KeysOnce(none) /\ \A a \in DOMAIN none : none[a] \in Subentries
      BY DEF KeysOnce
    <3>3. profiles \in [Slaves -> Profiles] /\ 0 \in Nat /\ DOMAIN none = {}
      OBVIOUS
    <3> HIDE DEF none, profiles
    <3>4. \A n \in built : n.id = 0 \/ \E b \in DOMAIN none : n.key = none[b].key
      BY <3>1, <3>2, <3>3, BuiltUnits
    <3> QED
      BY <3>3, <3>4
  <2>2. subs' = built /\ changes' = changes
    BY <1>5 DEF CreateEntry
  <2> HIDE DEF built
  <2>3. \A n \in subs' : n.id <= changes'
    BY <1>3, <2>1, <2>2
  <2>4. version = <<0, 0>> /\ version' = Current
    BY <1>5 DEF EntryInv, Lives, CreateEntry
  <2>5. entities = {} /\ had = {}
    BY <2>4, VersionFacts DEF RegistryInv, UserEntities
  <2>6. entities' = {} /\ had' = {}
    BY <1>5, <2>5 DEF CreateEntry, registries
  <2>7. UserEntities'
    BY <2>4, <2>6, VersionFacts DEF UserEntities
  <2> QED
    BY <1>1, <1>5, <2>3, <2>7 DEF CreateEntry
<1>6. ASSUME UNCHANGED <<version, subs, entities, had>>, running' = None, rescan' = None,
             phase' \in {"absent", "idle"}, changes' = changes \/ changes' = changes + 1
      PROVE  /\ running' = None /\ phase' \in {"absent", "idle"} /\ rescan' = None
             /\ \A n \in subs' : n.id <= changes'
             /\ UserEntities'
  <2>1. \A n \in subs' : n.id <= changes'
    BY <1>3, <1>6
  <2>2. UserEntities'
    BY <1>6 DEF RegistryInv, UserEntities
  <2> QED
    BY <1>6, <2>1, <2>2
<1>7. CASE Lifecycle
  BY <1>1, <1>7 DEF Lifecycle, BeginSetup, GatewayValid, GatewayInvalid, PlatformsReady,
              PlatformsFail, BeginReload, Unloaded, UnloadFails
<1>8. CASE ScanGateway \/ UpdateListener \/ NewUnitCheck
  <2>1. /\ UNCHANGED <<version, subs, entities, had>> /\ running' = None /\ rescan' = None
        /\ phase' \in {"absent", "idle"} /\ changes' = changes
    BY <1>1, <1>8 DEF ScanGateway, UpdateListener, NeedsReload, NewUnitCheck, stored, runtime,
                      registries, flows
  <2> QED
    BY <1>6, <2>1
<1>9. ASSUME NEW p \in Profiles, SubmitProfiles(p) PROVE FALSE
  BY <1>1, <1>9 DEF SubmitProfiles
<1>10. ASSUME NEW a \in Slaves, NEW p \in Profiles, CreateUnit(a, p) PROVE FALSE
  BY <1>1, <1>10 DEF CreateUnit
<1>11. ASSUME NEW s \in subs, NEW p \in Profiles, ReconfigureUnit(s, p) PROVE FALSE
  BY <1>11 DEF ReconfigureUnit
<1>12. ASSUME NEW s \in subs, RemoveUnit(s) PROVE FALSE
  BY <1>12 DEF RemoveUnit
<1>13. ASSUME NEW p \in {"tty", "net"}, ReconfigureConnection(p) PROVE FALSE
  BY <1>13 DEF ReconfigureConnection
<1>14. ASSUME NEW r \in Rates, EditRequestRate(r) PROVE FALSE
  BY <1>14 DEF EditRequestRate
<1>15. CASE StartRescan \/ ConfirmRemove \/ StartAdd
  BY <1>1, <1>15 DEF StartRescan, ConfirmRemove, StartAdd
<1>16. CASE PairAgain \/ LinkAppears \/ Restart
  <2>1. /\ UNCHANGED <<version, subs, entities, had>> /\ running' = None /\ rescan' = None
        /\ phase' \in {"absent", "idle"} /\ changes' = changes + 1
    BY <1>1, <1>16 DEF PairAgain, LinkAppears, Restart, Act, stored, runtime, registries, flows
  <2> QED
    BY <1>6, <2>1
<1>17. CASE UNCHANGED vars
  <2>1. /\ UNCHANGED <<version, subs, entities, had>> /\ running' = None /\ rescan' = None
        /\ phase' \in {"absent", "idle"} /\ changes' = changes
    BY <1>1, <1>17 DEF vars, stored, runtime, registries, flows
  <2> QED
    BY <1>6, <2>1
<1>18. CASE \E p \in Profiles : CreateEntry(p) \/ SubmitProfiles(p)
  BY <1>5, <1>9, <1>18
<1> QED
  BY <1>4, <1>7, <1>8, <1>10, <1>11, <1>12, <1>13, <1>14, <1>15, <1>16, <1>17, <1>18 DEF Next

\* The entries of every earlier release satisfy the registry invariant.
LEMMA InitRegistry == Init => RegistryInv
<1> SUFFICES ASSUME Init PROVE RegistryInv
  OBVIOUS
<1>1. PICK old \in OldEntries :
          /\ version = old.version /\ subs = old.subs /\ entities = old.entities
          /\ phase = IF old.version = <<0, 0>> THEN "absent" ELSE "idle"
          /\ had = {<<e.key, CASE e.name = "airflow_data_stale" -> "data_health"
                               [] e.name = "rf_fault_status" -> "device_fault"
                               [] OTHER -> e.name>> : e \in old.entities}
  BY DEF Init
<1>2. SubentryIds /\ SnapshotFollowed /\ SetupFollowed
  <2>1. running = None /\ adding = None /\ changes = 0 /\ phase \in {"absent", "idle"}
    BY <1>1 DEF Init
  <2>2. \A s \in subs : s.id = 0
    BY <1>1, OldEntriesAssumption
  <2>3. SubentryIds
    BY <2>1, <2>2 DEF SubentryIds
  <2> QED
    BY <2>1, <2>3 DEF SnapshotFollowed, SetupFollowed
<1>3. had = {<<e.key, NameNow(e.name)>> : e \in entities}
  <2>1. \A e \in entities : NameNow(e.name) =
            CASE e.name = "airflow_data_stale" -> "data_health"
              [] e.name = "rf_fault_status" -> "device_fault"
              [] OTHER -> e.name
    BY DEF NameNow
  <2> QED
    BY <1>1, <2>1
<1>4. \A e \in entities : /\ e \in [key: Keys, name: {e.name}, scoped: BOOLEAN, fresh: {FALSE}]
                          /\ version = <<2, 1>> => e.scoped
                          /\ e.name = "airflow_data_stale" => version = <<1, 1>>
  BY <1>1, OldEntriesAssumption
<1>5. ASSUME NEW e \in entities PROVE e.name \in EntityNames
  <2>1. old.entities \in {o.entities : o \in OldEntries}
    OBVIOUS
  <2>2. e \in UNION {o.entities : o \in OldEntries}
    BY <1>1, <2>1, Zenon
  <2>3. e.name \in OldNames
    BY <2>2, Zenon DEF OldNames
  <2> QED
    BY <2>3 DEF EntityNames
<1>6. \A e \in entities : e \in Entities /\ e.fresh = FALSE
  BY <1>4, <1>5 DEF Entities
<1>7. version # Current /\ (version = <<0, 0>> => entities = {})
  <2>1. version \in {<<0, 0>>} \union OldVersions
    BY <1>1, OldEntriesAssumption DEF OldVersions
  <2>2. version # Current
    BY <2>1, VersionFacts
  <2>3. old.version = <<0, 0>> => old.entities = {}
    BY OldEntriesAssumption
  <2> QED
    BY <1>1, <2>2, <2>3
<1>8. UserEntities
  BY <1>3, <1>4, <1>6, <1>7 DEF UserEntities
<1> QED
  BY <1>2, <1>8 DEF RegistryInv

\* Every step keeps the registry invariant.
LEMMA NextRegistry ==
    ASSUME EntryInv, EntryInv', RegistryInv, [Next]_vars
    PROVE  RegistryInv'
<1>1. CASE version # Current
  BY <1>1, OldSteps
<1>2. CASE BeginSetup
  BY <1>2, BeginSetupRegistry
<1>3. CASE PlatformsReady
  BY <1>3, PlatformsReadyRegistry
<1>4. CASE version = Current /\ ~BeginSetup /\ ~PlatformsReady
  <2>1. FlowStep /\ KeepStep /\ RuntimeStep /\ version' = Current
    BY <1>4, NextSteps DEF Steps
  <2> QED
    BY <1>4, <2>1, SubentryIdsKept, SnapshotFollowedKept, SetupFollowedKept, UserEntitiesKept
       DEF RegistryInv
<1> QED
  BY <1>1, <1>2, <1>3, <1>4

\* The invariants say what the runs check: while what setup read is stored, no
\* subentry of it is gone.
LEMMA RegistryInvKept == EntryInv /\ RegistryInv => RegistriesKept
<1> SUFFICES ASSUME EntryInv, RegistryInv PROVE RegistriesKept
  OBVIOUS
<1>1. ASSUME phase = "loaded", ~missed, running.snapshot = Stored
      PROVE  /\ \A room \in running.rooms : Registered(room)
             /\ \A e \in entities : <<e.key, e.name>> \in RoomEntities(running.rooms)
  <2>1. running.snapshot.units = SnapshotUnits(subs)
    BY <1>1 DEF Stored
  <2>2. \A u \in running.snapshot.units : ~Gone(u)
    BY <2>1 DEF SnapshotUnits, Gone
  <2> QED
    BY <1>1, <2>2 DEF RegistryInv, SetupFollowed
<1>2. UnitsHaveDevices
  BY <1>1 DEF UnitsHaveDevices, Registered
<1>3. EntitiesMatch
  <2> SUFFICES ASSUME phase = "loaded", ~missed, running.snapshot = Stored
               PROVE  {<<e.key, e.name>> : e \in entities} = RoomEntities(running.rooms)
    BY DEF EntitiesMatch
  <2>1. {<<e.key, e.name>> : e \in entities} \subseteq RoomEntities(running.rooms)
    BY <1>1
  <2>2. ASSUME NEW p \in RoomEntities(running.rooms)
        PROVE  p \in {<<e.key, e.name>> : e \in entities}
    <3>1. PICK room \in running.rooms : \E name \in Names[room.profile] : p = <<room.key, name>>
      BY DEF RoomEntities
    <3>2. PICK name \in Names[room.profile] : p = <<room.key, name>>
      BY <3>1
    <3>3. PICK e \in entities : e.key = room.key /\ e.name = name
      BY <1>1 DEF Registered
    <3> QED
      BY <3>2, <3>3
  <2> QED
    BY <2>1, <2>2
<1>4. EntitiesSurvive
  BY DEF RegistryInv, UserEntities, EntitiesSurvive
<1> QED
  BY <1>2, <1>3, <1>4 DEF RegistriesKept

\* The registries belong to the units: while the entry runs what is stored and
\* nothing changed during setup, every unit has a device of its own with
\* exactly its identifiers and exactly the entities of its profile, and an
\* entity the user had before an upgrade is never replaced by a new one.
THEOREM RegistriesKeptHolds == Spec => []RegistriesKept
<1>1. Init => EntryInv /\ RegistryInv
  BY InitEntry, InitRegistry
<1>2. EntryInv /\ RegistryInv /\ [Next]_vars => (EntryInv /\ RegistryInv)'
  BY NextEntry, NextRegistry
<1>3. EntryInv /\ RegistryInv => RegistriesKept
  BY RegistryInvKept
<1> QED
  BY <1>1, <1>2, <1>3, PTL DEF Spec

====
