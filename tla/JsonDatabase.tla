---------------------------- MODULE JsonDatabase ----------------------------
(***************************************************************************)
(* The device database of the device service: an in-memory cache of the    *)
(* devices and of the system properties over one namespace of Storage.     *)
(* Every public function holds the database's mutex from beginning to end, *)
(* so one is under way at a time; each of its storage calls takes the      *)
(* steps of the Storage module, and the process may die at any of them.    *)
(*                                                                         *)
(* A device, with its endpoints, resources and metadata, is one value.     *)
(***************************************************************************)
EXTENDS Storage

CONSTANTS Sys,          \* the key of the system properties
          MaxCrash      \* how often the process dies

ASSUME SysAssumption == Sys \in Key /\ Parsed = Key \ {Sys}

Device == Key \ {Sys}

VARIABLES phase,        \* "down", "sys" and "devices" (initializing), "up", "closing", "restore"
          op,           \* the public function under way, when phase is "up"
          todo,         \* the devices initialize has to load, or cleanup to flush
          cache,        \* cache[d]: the device, or "none"
          uri,          \* uri[d]: its entries are in resourcesByUri
          dirty,        \* dirty[d]: changed since it was saved
          props,        \* the system properties in memory
          opened,       \* initialize loaded every device there is in storage
          \* history
          unsaved,      \* devices whose last addEndpoint was not saved
          may,          \* may[k]: what a restart may find for k
          before,       \* may[key] when the save under way began
          crashes

dvars == <<phase, op, todo, cache, uri, dirty, props, opened>>
hvars == <<unsaved, may, before, crashes>>
vars == <<svars, dvars, hvars>>

Init ==
    /\ StorageInit /\ key = Sys
    /\ phase = "down" /\ op = "none" /\ todo = {}
    /\ cache = [d \in Device |-> "none"]
    /\ uri = [d \in Device |-> FALSE]
    /\ dirty = [d \in Device |-> FALSE]
    /\ props = "none" /\ opened = FALSE
    /\ unsaved = {} /\ may = [k \in Key |-> {"none"}] /\ before = {"none"} /\ crashes = 0

-----------------------------------------------------------------------------
\* What a save, when it begins and when it ends, and a load make a restart find.
SaveBegins(k, v) ==
    /\ Save(k, v)
    /\ before' = may[k]
    /\ may' = [may EXCEPT ![k] = @ \cup {v}]
    /\ UNCHANGED crashes

SaveEnds ==
    /\ may' = [may EXCEPT ![key] = IF ok THEN {arg} ELSE before]
    /\ before' = {"none"}
    /\ UNCHANGED crashes

\* The mutex is free and the database open; the caller may begin.
Ready == phase = "up" /\ op = "none" /\ at = "idle"

\* The storage call of the function under way returns.
Returned(o) == at = "done" /\ op = o

Idle == at' = "idle" /\ key' = Sys /\ arg' = "absent" /\ ok' = FALSE /\ UNCHANGED disk

\* A storage call under way takes a step.
Storing == StorageStep /\ UNCHANGED <<dvars, hvars>>

-----------------------------------------------------------------------------
\* jsonDatabaseInitialize: loadSystemProperties.
Initialize ==
    /\ phase = "down"
    /\ Load(Sys)
    /\ phase' = "sys"
    /\ UNCHANGED <<op, todo, cache, uri, dirty, props, opened, hvars>>

\* The properties were read and parsed: loadDevices.
OpenExisting ==
    /\ phase = "sys" /\ op = "none" /\ at = "done"
    /\ ok /\ arg \in Value
    /\ Idle
    /\ phase' = "devices"
    /\ props' = arg
    /\ opened' = TRUE
    /\ todo' = GetKeys \ {Sys}
    /\ may' = [may EXCEPT ![Sys] = {arg}]
    /\ UNCHANGED <<op, cache, uri, dirty, unsaved, before, crashes>>

\* They were not: an empty database, and its first property saved.  Devices that are in
\* storage are not loaded, and nothing is promised about them from now on.
OpenEmpty ==
    /\ phase = "sys" /\ op = "none" /\ at = "done"
    /\ ~(ok /\ arg \in Value)
    /\ Idle
    /\ op' = "create"
    /\ opened' = (GetKeys \ {Sys} = {})
    /\ may' = [k \in Key |-> IF k = Sys THEN {"none"} ELSE may[k] \cup {"none"}]
    /\ UNCHANGED <<phase, todo, cache, uri, dirty, props, unsaved, before, crashes>>

CreateProperties(v) ==
    /\ phase = "sys" /\ op = "create"
    /\ SaveBegins(Sys, v)
    /\ props' = v
    /\ op' = "set" /\ phase' = "up"
    /\ UNCHANGED <<todo, cache, uri, dirty, opened, unsaved>>

\* loadDevices: storageParse of the next key ...
LoadNext(d) ==
    /\ phase = "devices"
    /\ d \in todo
    /\ Load(d)
    /\ UNCHANGED <<dvars, hvars>>

\* ... whose parser, loadDevice, puts the device in the cache.
LoadedDevice ==
    /\ phase = "devices" /\ at = "done"
    /\ Idle
    /\ todo' = todo \ {key}
    /\ cache' = [cache EXCEPT ![key] = IF ok THEN arg ELSE "none"]
    /\ uri' = [uri EXCEPT ![key] = ok]
    /\ may' = [may EXCEPT ![key] = IF ok THEN {arg} ELSE {"none"}]
    /\ UNCHANGED <<phase, op, dirty, props, opened, unsaved, before, crashes>>

Initialized ==
    /\ phase = "devices" /\ todo = {} /\ at = "idle"
    /\ phase' = "up"
    /\ UNCHANGED <<svars, op, todo, cache, uri, dirty, props, opened, hvars>>

-----------------------------------------------------------------------------
\* jsonDatabaseAddDevice of a device in the cache: the new entry is destroyed, and with
\* it the locators of the old one, which have the same URIs.
AddKnown(d) ==
    /\ Ready
    /\ cache[d] # "none"
    /\ uri' = [uri EXCEPT ![d] = FALSE]
    /\ UNCHANGED <<svars, phase, op, todo, cache, dirty, props, opened, hvars>>

AddDevice(d, v) ==
    /\ Ready
    /\ cache[d] = "none"
    /\ SaveBegins(d, v)
    /\ cache' = [cache EXCEPT ![d] = v]
    /\ uri' = [uri EXCEPT ![d] = TRUE]
    /\ dirty' = [dirty EXCEPT ![d] = FALSE]
    /\ op' = "add"
    /\ UNCHANGED <<phase, todo, props, opened, unsaved>>

\* The device that could not be saved leaves the cache.
Forget(d, gone) ==
    /\ cache' = IF gone THEN [cache EXCEPT ![d] = "none"] ELSE cache
    /\ uri' = IF gone THEN [uri EXCEPT ![d] = FALSE] ELSE uri
    /\ dirty' = IF gone THEN [dirty EXCEPT ![d] = FALSE] ELSE dirty
    /\ unsaved' = unsaved \ {d}

AddedKeeping ==
    /\ Returned("add") /\ Idle /\ op' = "none"
    /\ SaveEnds /\ Forget(key, FALSE)
    /\ UNCHANGED <<phase, todo, props, opened>>

AddedDevice ==
    /\ Returned("add") /\ Idle /\ op' = "none"
    /\ SaveEnds /\ Forget(key, ~ok)
    /\ UNCHANGED <<phase, todo, props, opened>>

\* jsonDatabaseSaveEndpoint, jsonDatabaseSaveMetadata and, when it is not lazy,
\* jsonDatabaseSaveResource.
SaveDevice(d, v) ==
    /\ Ready
    /\ uri[d]
    /\ SaveBegins(d, v)
    /\ cache' = [cache EXCEPT ![d] = v]
    /\ dirty' = [dirty EXCEPT ![d] = TRUE]
    /\ op' = "save"
    /\ UNCHANGED <<phase, todo, uri, props, opened, unsaved>>

\* The entry is clean only when the save went well.
Cleaned(clean) ==
    /\ Returned("save") /\ Idle /\ op' = "none"
    /\ SaveEnds
    /\ dirty' = [dirty EXCEPT ![key] = ~clean]
    /\ unsaved' = IF ok THEN unsaved \ {key} ELSE unsaved
    /\ UNCHANGED <<phase, todo, cache, uri, props, opened>>

SavedDeviceAlways == Cleaned(TRUE)
SavedDevice == Cleaned(ok)

\* jsonDatabaseAddEndpoint: the entry is not marked dirty.
AddEndpoint(d, v) ==
    /\ Ready
    /\ cache[d] # "none"
    /\ SaveBegins(d, v)
    /\ cache' = [cache EXCEPT ![d] = v]
    /\ op' = "endpoint"
    /\ UNCHANGED <<phase, todo, uri, dirty, props, opened, unsaved>>

AddedEndpoint ==
    /\ Returned("endpoint") /\ Idle /\ op' = "none"
    /\ SaveEnds
    /\ unsaved' = IF ok THEN unsaved \ {key} ELSE unsaved \cup {key}
    /\ UNCHANGED <<phase, todo, cache, uri, dirty, props, opened>>

\* A lazy jsonDatabaseSaveResource, jsonDatabaseUpdateDateOfLastSyncMillis.
SaveLazily(d, v) ==
    /\ Ready
    /\ uri[d]
    /\ cache' = [cache EXCEPT ![d] = v]
    /\ dirty' = [dirty EXCEPT ![d] = TRUE]
    /\ UNCHANGED <<svars, phase, op, todo, uri, props, opened, hvars>>

\* jsonDatabaseSetSystemProperty.
SetSystemProperty(v) ==
    /\ Ready
    /\ SaveBegins(Sys, v)
    /\ props' = v
    /\ op' = "set"
    /\ UNCHANGED <<phase, todo, cache, uri, dirty, opened, unsaved>>

SavedProperties ==
    /\ Returned("set") /\ Idle /\ op' = "none"
    /\ SaveEnds
    /\ UNCHANGED <<phase, todo, cache, uri, dirty, props, opened, unsaved>>

\* jsonDatabaseRemoveDeviceById.  Until storageDelete returns, a restart may find the
\* device, nothing, or the version before it: the regular file goes first.
RemoveDevice(d) ==
    /\ Ready
    /\ cache[d] # "none"
    /\ Delete(d)
    /\ op' = "remove"
    /\ before' = may[d]
    /\ may' = [may EXCEPT ![d] = @ \cup {"none", disk[d]["bak"]}]
    /\ UNCHANGED <<phase, todo, cache, uri, dirty, props, opened, unsaved, crashes>>

RemovedDevice ==
    /\ Returned("remove") /\ Idle /\ op' = "none"
    /\ Forget(key, ok)
    /\ may' = [may EXCEPT ![key] = IF ok THEN {"none"} ELSE before]
    /\ before' = {"none"}
    /\ UNCHANGED <<phase, todo, props, opened, crashes>>

-----------------------------------------------------------------------------
Clear ==
    /\ cache' = [d \in Device |-> "none"]
    /\ uri' = [d \in Device |-> FALSE]
    /\ dirty' = [d \in Device |-> FALSE]
    /\ props' = "none" /\ opened' = FALSE /\ unsaved' = {}

\* jsonDatabaseCleanup(true): the properties are saved, then every dirty device.
CleanupBegin ==
    /\ Ready
    /\ SaveBegins(Sys, props)
    /\ phase' = "closing" /\ op' = "flush"
    /\ todo' = {d \in Device : dirty[d]}
    /\ UNCHANGED <<cache, uri, dirty, props, opened, unsaved>>

CleanupSaved ==
    /\ phase = "closing" /\ Returned("flush") /\ Idle
    /\ SaveEnds
    /\ UNCHANGED <<dvars, unsaved>>

CleanupNext(d) ==
    /\ phase = "closing" /\ d \in todo
    /\ SaveBegins(d, cache[d])
    /\ todo' = todo \ {d}
    /\ UNCHANGED <<phase, op, cache, uri, dirty, props, opened, unsaved>>

CleanupEnd ==
    /\ phase = "closing" /\ todo = {} /\ at = "idle"
    /\ phase' = "down" /\ op' = "none"
    /\ Clear
    /\ UNCHANGED <<svars, todo, may, before, crashes>>

\* jsonDatabaseCleanup(false), alone or in jsonDatabaseReload.
CleanupDiscard ==
    /\ Ready
    /\ phase' = "down"
    /\ Clear
    /\ UNCHANGED <<svars, op, todo, may, before, crashes>>

\* jsonDatabaseRestore: the cache is dropped, the namespace replaced, and the database
\* initialized from it.  What a restart finds meanwhile is anybody's guess.
RestoreBegin ==
    /\ Ready
    /\ Restore(Sys)
    /\ phase' = "restore"
    /\ Clear
    /\ may' = [k \in Key |-> Value \cup {"none", "torn"}]
    /\ UNCHANGED <<op, todo, before, crashes>>

RestoreEnd ==
    /\ phase = "restore" /\ at = "done"
    /\ Idle
    /\ phase' = "down"
    /\ may' = [k \in Key |-> {IF Archive[k] = "absent" THEN "none" ELSE Archive[k]}]
    /\ UNCHANGED <<op, todo, cache, uri, dirty, props, opened, unsaved, before, crashes>>

\* The process dies: the files stay.
Crash ==
    /\ phase # "down"
    /\ crashes < MaxCrash
    /\ crashes' = crashes + 1
    /\ phase' = "down" /\ op' = "none" /\ todo' = {}
    /\ Clear
    /\ Idle
    /\ before' = {"none"}
    /\ UNCHANGED may

Next ==
    \/ Storing \/ Crash
    \/ Initialize \/ OpenExisting \/ OpenEmpty \/ LoadedDevice \/ Initialized
    \/ AddedDevice \/ SavedDevice \/ AddedEndpoint \/ SavedProperties \/ RemovedDevice
    \/ CleanupBegin \/ CleanupSaved \/ CleanupEnd \/ CleanupDiscard \/ RestoreBegin \/ RestoreEnd
    \/ \E v \in Value : CreateProperties(v) \/ SetSystemProperty(v)
    \/ \E d \in Device : LoadNext(d) \/ AddKnown(d) \/ RemoveDevice(d) \/ CleanupNext(d)
    \/ \E d \in Device, v \in Value :
          AddDevice(d, v) \/ SaveDevice(d, v) \/ AddEndpoint(d, v) \/ SaveLazily(d, v)

Spec == Init /\ [][Next]_vars

-----------------------------------------------------------------------------
TypeOK ==
    /\ disk \in [Key -> [File -> Content]]
    /\ at \in Step /\ key \in Key /\ arg \in Content /\ ok \in BOOLEAN
    /\ phase \in {"down", "sys", "devices", "up", "closing", "restore"}
    /\ op \in {"none", "create", "add", "save", "endpoint", "set", "remove", "flush"}
    /\ todo \subseteq Device
    /\ cache \in [Device -> Value \cup {"none"}]
    /\ uri \in [Device -> BOOLEAN] /\ dirty \in [Device -> BOOLEAN]
    /\ props \in Value \cup {"none"} /\ opened \in BOOLEAN
    /\ unsaved \subseteq Device
    /\ may \in [Key -> SUBSET (Content \cup {"none"})]
    /\ before \subseteq Content \cup {"none"}
    /\ crashes \in Nat

\* Whenever the process dies (between any two of the system calls of storageSave,
\* storageDelete or a load that repairs a file), the next load of a device finds the last
\* value saved, or one whose save or delete was under way, never less.  The system
\* properties, which storageLoad does not parse, may also come back torn.
Durable ==
    /\ \A d \in Device : Loadable(d) \in may[d]
    /\ Loadable(Sys) \in may[Sys] \cup {"torn"}

\* Between two calls an open database and its files agree on every device that is not
\* marked dirty, failed saves, removals and repairs included.  jsonDatabaseAddEndpoint is
\* the exception: it does not mark the device it could not save.
CacheAgrees ==
    Ready /\ opened =>
        \A d \in Device : ~dirty[d] /\ d \notin unsaved => cache[d] = Loadable(d)

\* Every device in the cache can be found by its URIs (jsonDatabaseGetDeviceByUri and the
\* saves look it up there).
LocatorsComplete == Ready => \A d \in Device : cache[d] # "none" => uri[d]
=============================================================================
