----------------------------- MODULE ConfigEntry -----------------------------
(***************************************************************************)
(* The config entry of one gateway: its creation and migration, the rescan *)
(* of the options flow, the subentry flow, the reconfigure flow, setup,    *)
(* unload and reload, the device and entity registries they keep in order, *)
(* and the repair issue for new units.                                     *)
(*                                                                         *)
(* Flows run while a setup awaits the gateway or the platforms, and two    *)
(* flows may be open at once: a step of a flow is one action, and setup    *)
(* and unload are split at their awaits.  A profile mismatch form only     *)
(* delays the submit that follows it.                                      *)
(***************************************************************************)
EXTENDS Units, TLC

CONSTANTS
    Rates,      \* the request rates
    OldEntries, \* external: the entries earlier releases may have left behind
    Paired,     \* external: the units of the gateway at first
    MaxChanges  \* bound on user actions and moved units

ASSUME RatesAssumption == Rates \subseteq Nat /\ Rates # {} /\ MaxChanges \in Nat
ASSUME PairedAssumption == Paired \in [Slaves -> Codes \union {None}]

\* What the migrations up to release 2.1 and the flows of those releases
\* leave behind: distinct keys, from 2.1 on distinct unique IDs and scoped
\* entities, and no entity under a name that an earlier migration replaced.
ASSUME OldEntriesAssumption ==
    \A old \in OldEntries :
        /\ old.version \in {<<0, 0>>, <<2, 1>>} \union ({1} \X (1..4))
        /\ old.subs \subseteq Subentries /\ IsFiniteSet(old.subs)
        /\ old.version = <<0, 0>> => old.subs = {} /\ old.entities = {}
        /\ \A s, t \in old.subs :
              /\ s.key = t.key => s = t
              /\ s.slave = t.slave /\ s.key[2] = t.key[2] => s = t
              /\ s.uid = t.uid /\ s.uid # None => s = t
        /\ \A s \in old.subs : s.id = 0 /\ s.uid \in {s.slave, None}
        /\ \A e \in old.entities :
              /\ e \in [key: Keys, name: {e.name}, scoped: BOOLEAN, fresh: {FALSE}]
              /\ old.version = <<2, 1>> => e.scoped
              /\ e.name = "airflow_data_stale" => old.version = <<1, 1>>

\* The values that setup and the flows keep while they wait.
Setups == [rooms: SUBSET Rooms, port: {"tty", "by_id", "net"}, rate: Rates]
Snapshots ==
    [port: {"tty", "by_id", "net"},
     units: SUBSET [id: Nat, key: Keys, slave: Slaves, profile: Profiles, code: Codes \union {None}]]
RuntimeData ==
    [rooms: SUBSET Rooms, port: {"tty", "by_id", "net"}, rate: Rates, snapshot: Snapshots,
     scheduled: BOOLEAN, reported: (SUBSET Slaves) \union {None}]
ProbeResults == UNION {[S -> Codes \union {None}] : S \in SUBSET Slaves}
Rescans ==
    [found: ProbeResults, confirm: BOOLEAN, named: SUBSET Keys, profile: Profiles \union {None}]

ASSUME NoLocalsAssumption ==
    None \notin Setups /\ None \notin RuntimeData /\ None \notin ProbeResults /\ None \notin Rescans

VARIABLES
    version,    \* the entry's version, <<0, 0>> before it exists
    subs,       \* the unit subentries
    port,       \* the gateway connection
    rate,       \* options: the request rate
    phase,      \* the state of the entry
    setup,      \* the locals of async_setup_entry while it awaits
    running,    \* runtime_data
    client,     \* a client may send on the link
    queued,     \* an update listener call waits to run
    reload,     \* a reload is scheduled
    devices,    \* the unit devices, each the set of its identifiers
    entities,   \* the unit entities of the registry
    issue,      \* the new-unit issue: the addresses it names, or None
    rescan,     \* the options flow
    adding,     \* the subentry flow: the probed codes of the new addresses
    at,         \* external: the unit at each address the gateway lists
    byId,       \* external: the by-id link of the serial port exists
    had,        \* history: entities the user had before the upgrade
    missed,     \* history: a change came while setup was under way
    changes     \* user actions and moves so far

stored == <<version, subs, port, rate>>
runtime == <<phase, setup, running, client, queued, reload>>
registries == <<devices, entities, issue>>
flows == <<rescan, adding>>
world == <<at, byId>>
vars == <<stored, runtime, registries, flows, world, had, missed, changes>>

Current == <<2, 2>>
Found == {a \in Slaves : at[a] # None}
Stored == [port |-> port, units |-> SnapshotUnits(subs)]

\* Setup has read the units and the update listener is not registered yet.
InSetup == phase \in {"validating", "forwarding"}
Listening == phase \in {"loaded", "unloading"}

Act ==
    /\ changes < MaxChanges
    /\ changes' = changes + 1

\* discover_gateway_nodes and async_probe_units: a failed probe reports no code.
Probes(slaves) == {f \in [slaves -> Codes \union {None}] : \A a \in slaves : f[a] \in {at[a], None}}

\* External: Home Assistant stores the entry and calls the update listeners.
StoreEntry(newSubs, newPort) ==
    LET gone == {s.key : s \in {t \in subs : \A n \in newSubs : <<n.key, n.id>> # <<t.key, t.id>>}}
        changed == newSubs # subs \/ newPort # port
    IN  /\ subs' = newSubs /\ port' = newPort
        /\ devices' = {d \in devices : d \intersect gone = {}}
        /\ entities' = {e \in entities : e.key \notin gone}
        /\ had' = {h \in had : h[1] \notin gone}
        /\ queued' = (queued \/ (changed /\ Listening))
        /\ missed' = (missed \/ (changed /\ InSetup))

-----------------------------------------------------------------------------
(* The new-unit issue (new_units.py)                                       *)

\* NewUnitIssue.update: what is reported and what the issue names afterwards.
UpdateIssue(known, reported, configured) ==
    LET new == reported \ configured
    IN  [reported |-> new,
         issue |-> IF new = known THEN issue ELSE IF new = {} THEN None ELSE new]

\* NewUnitIssue.restore
RestoreIssue(configured) ==
    IF issue = None THEN [reported |-> None, issue |-> None]
    ELSE UpdateIssue(issue, issue, configured)

RunningSlaves == {room.slave : room \in running.rooms}

\* The hourly check; a failed one raises and changes nothing.
NewUnitCheck ==
    /\ phase = "loaded"
    /\ LET result == UpdateIssue(running.reported, Found, RunningSlaves)
       IN  /\ running' = [running EXCEPT !.reported = result.reported]
           /\ issue' = result.issue
    /\ UNCHANGED <<stored, phase, setup, client, queued, reload, devices, entities, flows, world,
                   had, missed, changes>>

-----------------------------------------------------------------------------
(* Setup (__init__.py)                                                     *)

\* resolve_preferred_port_path
Resolve(p) == IF p = "tty" /\ byId THEN "by_id" ELSE p

\* Mutant: a device keeps the codes its unit no longer reports.
SyncDevicesKeepingCodes(rooms) ==
    {d \in devices : \E room \in rooms : room.key \in d}

\* _async_sync_devices
SyncDevices(rooms) ==
    {UNION {d \intersect (Keys \union RoomIdentifiers(room)) : room \in {r \in rooms : r.key \in d}}
        : d \in SyncDevicesKeepingCodes(rooms)}

\* _async_remove_unsupported_entities
SupportedEntities(rooms) ==
    {e \in entities : e.scoped /\ <<e.key, e.name>> \in RoomEntities(rooms)}

\* async_setup_entry up to the validation of the gateway.
BeginSetup ==
    /\ phase \in {"idle", "retry"} /\ version = Current
    /\ LET rooms == RoomConfigs(subs)
       IN  /\ setup' = [rooms |-> rooms, port |-> Resolve(port), rate |-> rate]
           /\ devices' = SyncDevices(rooms)
           /\ entities' = SupportedEntities(rooms)
           /\ had' = had \intersect RoomEntities(rooms)
    /\ port' = Resolve(port)
    /\ client' = TRUE /\ phase' = "validating" /\ reload' = FALSE /\ missed' = FALSE
    /\ UNCHANGED <<version, subs, rate, running, queued, issue, flows, world, changes>>

\* The gateway answers: the coordinator is created, the platforms start.
GatewayValid ==
    /\ phase = "validating"
    /\ LET restored == RestoreIssue({room.slave : room \in setup.rooms})
       IN  /\ running' = [rooms |-> setup.rooms, port |-> setup.port, rate |-> setup.rate,
                          snapshot |-> Stored, scheduled |-> FALSE, reported |-> restored.reported]
           /\ issue' = restored.issue
    /\ setup' = None /\ phase' = "forwarding"
    /\ UNCHANGED <<stored, client, queued, reload, devices, entities, flows, world, had, missed,
                   changes>>

\* client.shutdown on every failed setup.
ClientAfterFailure == FALSE

\* ConfigEntryNotReady or ConfigEntryError
GatewayInvalid ==
    /\ phase = "validating"
    /\ phase' \in {"retry", "error"}
    /\ setup' = None /\ client' = ClientAfterFailure
    /\ UNCHANGED <<stored, running, queued, reload, registries, flows, world, had, missed, changes>>

\* External: Home Assistant rejects the device of a unit when one of its
\* identifiers belongs to another device.
Rejected(room) ==
    \/ \E d \in devices : room.key \notin d /\ d \intersect RoomIdentifiers(room) # {}
    \/ \E r \in running.rooms :
          r.slave < room.slave /\ r.code # None /\ r.code = room.code

PlatformsReady ==
    LET accepted == {room \in running.rooms : ~Rejected(room)}
        present == {<<e.key, e.name>> : e \in entities}
    IN  /\ phase = "forwarding"
        /\ devices' =
              {d \in devices : \A room \in accepted : room.key \notin d}
              \union {RoomIdentifiers(room) : room \in accepted}
        /\ entities' = entities \union
              {[key |-> e[1], name |-> e[2], scoped |-> TRUE, fresh |-> TRUE]
                  : e \in RoomEntities(accepted) \ present}
        /\ phase' = "loaded"
        /\ UNCHANGED <<stored, setup, running, client, queued, reload, issue, flows, world,
                       had, missed, changes>>

PlatformsFail ==
    /\ phase = "forwarding"
    /\ phase' = "error" /\ running' = None /\ client' = ClientAfterFailure
    /\ UNCHANGED <<stored, setup, queued, reload, registries, flows, world, had, missed, changes>>

-----------------------------------------------------------------------------
(* Reload and unload                                                       *)

\* Mutant: only the connection is compared.
NeedsReloadPort == running # None /\ ~running.scheduled /\ running.snapshot.port # port

\* _async_reload_on_change: a call queued before an unload may come after it.
NeedsReload == running # None /\ ~running.scheduled /\ running.snapshot # Stored

UpdateListener ==
    /\ queued
    /\ queued' = FALSE
    /\ reload' = (reload \/ NeedsReload)
    /\ running' = IF NeedsReload THEN [running EXCEPT !.scheduled = TRUE] ELSE running
    /\ UNCHANGED <<stored, phase, setup, client, registries, flows, world, had, missed, changes>>

\* External: a scheduled reload waits for a setup that is under way.
BeginReload ==
    /\ reload /\ phase \in {"loaded", "error"}
    /\ phase' = IF phase = "loaded" THEN "unloading" ELSE "idle"
    /\ UNCHANGED <<stored, setup, running, client, queued, reload, registries, flows, world, had,
                   missed, changes>>

\* async_unload_entry
Unloaded ==
    /\ phase = "unloading"
    /\ phase' = "idle" /\ running' = None /\ client' = FALSE
    /\ UNCHANGED <<stored, setup, queued, reload, registries, flows, world, had, missed, changes>>

\* The platforms could not be unloaded: everything stays until a restart.
UnloadFails ==
    /\ phase = "unloading"
    /\ phase' = "stuck" /\ reload' = FALSE
    /\ UNCHANGED <<stored, setup, running, client, queued, registries, flows, world, had, missed,
                   changes>>

\* External: Home Assistant restarts; its issues are not persistent.
Restart ==
    /\ Act
    /\ phase # "absent"
    /\ phase' = "idle" /\ setup' = None /\ running' = None /\ client' = FALSE
    /\ queued' = FALSE /\ reload' = FALSE /\ issue' = None /\ rescan' = None /\ adding' = None
    /\ missed' = FALSE
    /\ UNCHANGED <<stored, devices, entities, world, had>>

-----------------------------------------------------------------------------
(* Creation and migration (config_flow.py, migration.py)                   *)

\* async_step_user or async_step_usb, and _async_scan
ScanGateway ==
    /\ phase = "absent" /\ adding = None /\ Found # {}
    /\ adding' \in Probes(Found)
    /\ UNCHANGED <<stored, runtime, registries, rescan, world, had, missed, changes>>

\* _create_profiles
CreateEntry(profile) ==
    /\ phase = "absent" /\ adding # None
    /\ subs' = BuildRoomsFromProfiles(adding, [a \in {} |-> None], [a \in Slaves |-> profile], 0)
    /\ version' = Current /\ port' = Resolve(port) /\ phase' = "idle" /\ adding' = None
    /\ UNCHANGED <<rate, setup, running, client, queued, reload, registries, rescan, world, had,
                   missed, changes>>

\* Renames one entity key unless the new one exists for the unit.
Rename(E, old, new) ==
    {IF e.name = old /\ \A f \in E : f.key = e.key /\ f.scoped = e.scoped => f.name # new
     THEN [e EXCEPT !.name = new] ELSE e : e \in E}

\* _async_migrate_renamed_entity_keys
RenamedEntities(E) == Rename(E, "rf_fault_status", "device_fault")

\* async_migrate_entry: of two units at one address the first keeps the unique ID.
MigrateEntry ==
    /\ phase = "idle" /\ version \notin {Current, <<0, 0>>}
    /\ LET health == IF version[1] = 1 /\ version[2] < 2
                     THEN Rename(entities, "airflow_data_stale", "data_health") ELSE entities
           scoped == IF version[1] = 1 THEN {[e EXCEPT !.scoped = TRUE] : e \in health} ELSE health
       IN  entities' = RenamedEntities(scoped)
    /\ subs' = IF version[1] = 2 THEN subs
               ELSE {[s EXCEPT !.uid = IF \E t \in subs : t.slave = s.slave /\ t.key[2] < s.key[2]
                                       THEN None ELSE s.slave] : s \in subs}
    /\ version' = Current
    /\ UNCHANGED <<port, rate, runtime, devices, issue, flows, world, had, missed, changes>>

-----------------------------------------------------------------------------
(* The rescan of the options flow (options_flow.py)                        *)

\* async_step_rescan_units: the scan goes through the running coordinator.
StartRescan ==
    /\ Act
    /\ running # None /\ rescan = None /\ Found # {}
    /\ \E found \in Probes(Found) :
          rescan' = [found |-> found, confirm |-> FALSE, named |-> {}, profile |-> None]
    /\ UNCHANGED <<stored, runtime, registries, adding, world, had, missed>>

\* The units a save would store: matched once by the step, once more when built.
Rescanned(profile) ==
    LET existing == MatchExistingRooms(rescan.found, UnitRooms(subs))
        built == BuildRoomsFromProfiles(rescan.found, existing, [a \in Slaves |-> profile], changes)
    IN  {IF \E s \in subs : s.key = n.key
         THEN [n EXCEPT !.id = (CHOOSE s \in subs : s.key = n.key).id] ELSE n : n \in built}

\* _stale_subentries
StaleKeys(built) == {s.key : s \in subs} \ {n.key : n \in built}

\* Mutant: a unit that changes its address keeps its unique ID meanwhile.
ClearedUidKept(s, n) == s.uid

\* The unique ID of a kept unit before the updates: a moved one has none.
ClearedUid(s, n) == IF s.uid = n.slave THEN s.uid ELSE None

\* _async_save_profiles.  Home Assistant refuses a unique ID that another
\* subentry has; the flow then ends with the stale units already removed.
SaveProfiles(profile) ==
    LET built == Rescanned(profile)
        kept == {s \in subs : \E n \in built : n.key = s.key}
        of(s) == CHOOSE n \in built : n.key = s.key
        refused == \E s \in kept, n \in built :
                      ClearedUid(s, of(s)) = n.slave /\ n.key # s.key
    IN  /\ IF refused THEN StoreEntry(kept, port) ELSE StoreEntry(built, Resolve(port))
        /\ rescan' = None
        /\ UNCHANGED <<version, rate, phase, setup, running, client, reload, issue, adding, world,
                       changes>>

\* async_step_profiles: units that would go are named first.
SubmitProfiles(profile) ==
    /\ rescan # None /\ ~rescan.confirm
    /\ LET stale == StaleKeys(Rescanned(profile))
       IN  \/ stale = {} /\ SaveProfiles(profile)
           \/ /\ stale # {}
              /\ rescan' = [rescan EXCEPT !.confirm = TRUE, !.named = stale, !.profile = profile]
              /\ UNCHANGED <<stored, runtime, registries, adding, world, had, missed, changes>>

\* async_step_confirm_remove
ConfirmRemove ==
    /\ rescan # None /\ rescan.confirm
    /\ SaveProfiles(rescan.profile)

\* async_step_edit_request_rate
EditRequestRate(r) ==
    /\ Act /\ phase # "absent" /\ version = Current
    /\ rate' = r
    /\ running' = IF running = None THEN None ELSE [running EXCEPT !.rate = r]
    /\ reload' = (reload \/ running = None)
    /\ UNCHANGED <<version, subs, port, phase, setup, client, queued, registries, flows, world,
                   had, missed>>

-----------------------------------------------------------------------------
(* The subentry and the reconfigure flow                                   *)

\* MeltemUnitSubentryFlow.async_step_user: scan for units that are not set up.
StartAdd ==
    /\ Act
    /\ phase = "loaded" /\ adding = None
    /\ Found \ DOMAIN UnitRooms(subs) # {}
    /\ adding' \in Probes(Found \ DOMAIN UnitRooms(subs))
    /\ UNCHANGED <<stored, runtime, registries, rescan, world, had, missed>>

\* Mutant: the address is not checked again when the unit is created.
FreeToAddAlways(a) == TRUE

FreeToAdd(a) == a \notin DOMAIN UnitRooms(subs)

\* _create_unit
CreateUnit(a, profile) ==
    /\ phase # "absent" /\ adding # None /\ a \in DOMAIN adding
    /\ StoreEntry(IF FreeToAdd(a)
                  THEN subs \union {NewUnit(a, adding[a], profile, subs, changes)} ELSE subs, port)
    /\ adding' = None
    /\ UNCHANGED <<version, rate, phase, setup, running, client, reload, issue, rescan, world,
                   changes>>

\* async_step_reconfigure: with a listener it decides about the reload.
ReconfigureUnit(s, profile) ==
    /\ Act /\ phase # "absent" /\ version = Current /\ profile # s.profile
    /\ subs' = (subs \ {s}) \union {[s EXCEPT !.profile = profile]}
    /\ queued' = (queued \/ Listening)
    /\ reload' = (reload \/ ~Listening)
    /\ UNCHANGED <<version, port, rate, phase, setup, running, client, registries, flows, world,
                   had, missed>>

\* The same for the connection of the gateway, once its new endpoint answered.
ReconfigureConnection(p) ==
    /\ Act /\ phase # "absent" /\ version = Current /\ Resolve(p) # port
    /\ port' = Resolve(p)
    /\ queued' = (queued \/ Listening)
    /\ reload' = (reload \/ ~Listening)
    /\ UNCHANGED <<version, subs, rate, phase, setup, running, client, registries, flows, world,
                   had, missed>>

\* External: the user deletes a unit.
RemoveUnit(s) ==
    /\ Act /\ phase # "absent" /\ version = Current
    /\ StoreEntry(subs \ {s}, port)
    /\ UNCHANGED <<version, rate, phase, setup, running, client, reload, issue, flows, world>>

-----------------------------------------------------------------------------

Arrangements ==
    {f \in [Slaves -> Codes \union {None}] :
        \A a, b \in Slaves : f[a] = f[b] /\ f[a] # None => a = b}

\* External: units are paired with the gateway again.
PairAgain ==
    /\ Act
    /\ at' \in Arrangements \ {at}
    /\ UNCHANGED <<stored, runtime, registries, flows, byId, had, missed>>

\* External: the by-id link of the port appears.
LinkAppears ==
    /\ Act /\ ~byId
    /\ byId' = TRUE
    /\ UNCHANGED <<stored, runtime, registries, flows, at, had, missed>>

Init ==
    /\ \E old \in OldEntries :
          /\ version = old.version /\ subs = old.subs
          /\ phase = IF old.version = <<0, 0>> THEN "absent" ELSE "idle"
          /\ entities = old.entities
          /\ had = {<<e.key, CASE e.name = "airflow_data_stale" -> "data_health"
                               [] e.name = "rf_fault_status" -> "device_fault"
                               [] OTHER -> e.name>> : e \in old.entities}
          /\ devices = {{s.key} \union ({s.code} \ {None}) : s \in old.subs}
    /\ port = "tty" /\ rate = Min(Rates)
    /\ setup = None /\ running = None /\ client = FALSE /\ queued = FALSE /\ reload = FALSE
    /\ issue = None /\ rescan = None /\ adding = None
    /\ at = Paired /\ byId = FALSE /\ missed = FALSE /\ changes = 0

Lifecycle ==
    \/ BeginSetup \/ GatewayValid \/ GatewayInvalid \/ PlatformsReady \/ PlatformsFail
    \/ BeginReload \/ Unloaded \/ UnloadFails

Next ==
    \/ ScanGateway \/ MigrateEntry \/ Lifecycle \/ UpdateListener \/ NewUnitCheck
    \/ \E p \in Profiles : CreateEntry(p) \/ SubmitProfiles(p)
    \/ \E a \in Slaves, p \in Profiles : CreateUnit(a, p)
    \/ \E s \in subs, p \in Profiles : ReconfigureUnit(s, p)
    \/ \E s \in subs : RemoveUnit(s)
    \/ \E p \in {"tty", "net"} : ReconfigureConnection(p)
    \/ \E r \in Rates : EditRequestRate(r)
    \/ StartRescan \/ ConfirmRemove \/ StartAdd
    \/ PairAgain \/ LinkAppears \/ Restart

\* Home Assistant runs scheduled tasks and setups; the unit list is read every hour.
Fairness == WF_vars(Lifecycle) /\ WF_vars(UpdateListener) /\ WF_vars(NewUnitCheck)

Spec == Init /\ [][Next]_vars /\ Fairness

-----------------------------------------------------------------------------
(* Properties                                                              *)

TypeOK ==
    /\ subs \subseteq Subentries /\ rate \in Rates /\ port \in {"tty", "by_id", "net"}
    /\ phase \in {"absent", "idle", "validating", "forwarding", "loaded", "unloading", "retry",
                  "error", "stuck"}
    /\ (setup # None) = (phase = "validating")
    /\ issue # None => issue \subseteq Slaves /\ issue # {}
    /\ devices \subseteq SUBSET (Keys \union Codes)
    /\ {client, queued, reload, missed, byId} \subseteq BOOLEAN

\* Keys and unique IDs stay distinct over rescans, added and moved units, and
\* no two units get one address: the key decides whose history a unit has.
UnitsDistinct ==
    version = Current =>
        \A s, t \in subs : s # t =>
            /\ s.key # t.key
            /\ s.uid # t.uid \/ s.uid = None
            /\ s.slave = t.slave => None \in {s.uid, t.uid}

\* While the entry is what setup read, every running unit has a device of
\* its own with exactly its identifiers, also after units changed addresses
\* or a code is stored twice: no unit is dropped by a refused device.
UnitsHaveDevices ==
    phase = "loaded" /\ ~missed /\ running.snapshot = Stored =>
        \A room \in running.rooms : RoomIdentifiers(room) \in devices

\* The registry then holds exactly the entities the profiles imply.
EntitiesMatch ==
    phase = "loaded" /\ ~missed /\ running.snapshot = Stored =>
        {<<e.key, e.name>> : e \in entities} = RoomEntities(running.rooms)

\* An entity the user had before an upgrade is never replaced by a new one.
EntitiesSurvive ==
    \A e \in entities : e.fresh => <<e.key, e.name>> \notin had

\* A failed or ended setup leaves no client on the link and no runtime data.
NothingLeftBehind ==
    /\ client <=> phase \in {"validating", "forwarding", "loaded", "unloading", "stuck"}
    /\ running # None <=> phase \in {"forwarding", "loaded", "unloading", "stuck"}

\* The issue for new units never names a unit that is running.
IssueNamesNoUnit ==
    running # None /\ issue # None => issue \intersect RunningSlaves = {}

\* However flows, setups and restarts interleave, stored units stay distinct, no
\* setup leaves anything behind and the issue names no running unit.
EntryConsistent == TypeOK /\ UnitsDistinct /\ NothingLeftBehind /\ IssueNamesNoUnit

\* The registries belong to the units: devices and entities are those of the
\* stored units, and the user's entities survive an upgrade.
RegistriesKept == UnitsHaveDevices /\ EntitiesMatch /\ EntitiesSurvive

\* A saved rescan follows the units: one whose code is stored once and was
\* found at one address keeps its key and subentry there.
KeyFollowsUnit ==
    [][rescan # None /\ rescan' = None /\ subs' # subs =>
        \A a \in DOMAIN rescan.found, s \in subs :
            /\ s.code # None /\ rescan.found[a] = s.code
            /\ \A b \in DOMAIN rescan.found : rescan.found[b] = s.code => b = a
            /\ \A t \in subs : t.code = s.code => t = s
            /\ UnitRooms(subs)[s.slave] = s
            => \E n \in subs' : n.key = s.key /\ n.id = s.id /\ n.slave = a]_vars

\* A saved rescan stores exactly the addresses that were found, and no code
\* for a unit other than the one that reported it.
RescanComplete ==
    [][rescan # None /\ rescan' = None /\ subs' # subs =>
        /\ {n.slave : n \in subs'} = DOMAIN rescan.found
        /\ \A n \in subs', a \in DOMAIN rescan.found :
              n.code # None /\ rescan.found[a] = n.code => rescan.found[n.slave] = n.code]_vars

\* Once the user is done, the running units, connection and rate are the
\* stored ones, unless a change came while a setup was under way.
RunsWhatIsStored ==
    <>[](phase = "loaded" /\ ~missed =>
            /\ running.rooms = RoomConfigs(subs)
            /\ running.port = port /\ running.rate = rate)

\* The issue for new units ends up naming exactly the units that are not set up.
NewUnitsNamed ==
    <>[](phase = "loaded" => IF Found \subseteq RunningSlaves THEN issue = None
                             ELSE issue = Found \ RunningSlaves)

\* The entry settles: once the user is done, what runs is what is stored, and
\* the issue names the units that are left.
EntrySettles == RunsWhatIsStored /\ NewUnitsNamed

\* docs/dev/DEVELOPER.md: "An update listener reloads the entry when the
\* gateway connection or unit subentries differ from what setup used".
ReloadsWhenDifferent ==
    <>[](phase = "loaded" => running.rooms = RoomConfigs(subs) /\ running.port = port)

\* async_step_confirm_remove: "Name the units the rescan no longer found
\* before removing them."
\* The code does not have it: README, "Observations".
RemovesOnlyNamed ==
    [][rescan # None /\ rescan' = None =>
        \A s \in subs : (\A n \in subs' : n.key # s.key) => s.key \in rescan.named]_vars
=============================================================================
