------------------------- MODULE JsonDatabaseProofs -------------------------
(***************************************************************************)
(* What the device database promises across crashes, for every set of keys *)
(* and values and any number of crashes, when a write may fail and a       *)
(* rename or the copy of a backup may not.                                 *)
(***************************************************************************)
EXTENDS JsonDatabase, TLAPS

Readable(k, c) == Present(c) /\ Accepts(k, c)

Main(k) == disk[k]["main"]
Bak(k)  == disk[k]["bak"]

\* Nothing that a load would find is only in the backup: a save may begin.
Settled(k) == Readable(k, Main(k)) \/ ~Readable(k, Bak(k))

\* What may be found: the system properties also torn.
Or(k, S) == IF k = Sys THEN S \cup {"torn"} ELSE S

Saving   == {"open", "write", "swap", "put"}
Loading  == {"read", "bad", "backup", "truncate", "copy"}
Deleting == {"unmain", "unbak", "untmp", "unbad"}
SaveOp   == {"add", "save", "endpoint", "set", "flush"}

\* The storage call that each phase and function makes.
Protocol ==
    /\ phase = "down" => at = "idle" /\ op = "none"
    /\ phase = "sys" => \/ op = "none" /\ at \in Loading \cup {"done"} /\ key = Sys
                        \/ op = "create" /\ at = "idle"
    /\ phase = "devices" => /\ op = "none"
                            /\ at \in Loading \cup {"idle", "done"}
                            /\ at # "idle" => key \in todo
    /\ phase = "up" => \/ op = "none" /\ at = "idle"
                       \/ op = "set" /\ at \in Saving \cup {"done"} /\ key = Sys
                       \/ op \in {"add", "save", "endpoint"} /\ at \in Saving \cup {"done"} /\ key # Sys
                       \/ op = "remove" /\ at \in Deleting \cup {"done"} /\ key # Sys
    /\ phase = "closing" => op = "flush" /\ at \in Saving \cup {"idle", "done"}
    /\ phase = "restore" => op = "none" /\ at \in {"wipe", "fill", "done"}

\* The save under way has not touched the files a load reads, or has replaced them.
SaveInv ==
    op \in SaveOp =>
        /\ at \in Saving =>
              /\ arg \in Value /\ arg \in may[key]
              /\ Loadable(key) \in Or(key, may[key])
        /\ at \in {"swap", "put"} => disk[key]["tmp"] = arg
        /\ at \in {"open", "write", "swap"} \/ (at = "done" /\ ~ok) =>
              /\ Loadable(key) \in Or(key, before)
              /\ Settled(key) \/ "none" \in before
              /\ before \subseteq may[key]
        /\ at = "done" /\ ok => arg \in Value /\ Main(key) = arg

LoadInv ==
    phase \in {"sys", "devices"} /\ op = "none" =>
        /\ at = "bad" => Present(Main(key)) /\ ~Accepts(key, Main(key))
        /\ at \in {"backup", "truncate"} => ~Readable(key, Main(key))
        /\ at \in {"truncate", "copy"} => Readable(key, Bak(key)) /\ arg = Bak(key)
        /\ at = "copy" => Main(key) \in {"empty", "torn"} /\ arg \in Or(key, may[key])
        /\ at = "done" /\ ok => Readable(key, Main(key)) /\ arg = Main(key)
        /\ at = "done" /\ ~ok => ~Readable(key, Main(key)) /\ ~Readable(key, Bak(key))

DeleteInv ==
    op = "remove" =>
        /\ at \in Deleting => "none" \in may[key] /\ Bak(key) \in may[key] \cup {"absent"}
        /\ at = "unmain" => Readable(key, Main(key))
        /\ at # "unmain" => Main(key) = "absent" /\ ok
        /\ at \in {"untmp", "unbad", "done"} => Bak(key) = "absent"

RestoreInv ==
    phase = "restore" =>
        /\ at # "done" => \A k \in Key : may[k] = Value \cup {"none", "torn"}
        /\ at \in {"fill", "done"} => \A k \in Key : Bak(k) = "absent"
        /\ at = "done" => \A k \in Key : Main(k) = Archive[k]

\* Keys that the call under way does not concern are ready for a save.
Untouched(k) ==
    \/ phase \in {"up", "closing"} /\ (at # "idle" => k # key)
    \/ phase = "devices" /\ k \notin todo
    \/ phase = "sys" /\ op = "create"

SettledInv == \A k \in Key : Untouched(k) => Settled(k) \/ "none" \in may[k]

\* A device in the cache has a regular file; one that is not leaves no trace in memory.
CachedInv ==
    \A d \in Device :
        /\ cache[d] = "none" => ~uri[d] /\ ~dirty[d] /\ d \notin unsaved
        /\ phase \in {"down", "sys", "restore"} \/ (phase = "devices" /\ d \in todo) => cache[d] = "none"
        /\ phase = "devices" => ~dirty[d] /\ d \notin unsaved
        /\ cache[d] # "none" /\ Untouched(d) => Readable(d, Main(d))

\* The call that changes a device keeps its file until the new one is in place.
KeepsInv ==
    /\ op \in {"add", "save", "endpoint"} => cache[key] # "none"
    /\ op \in {"add", "save", "endpoint"} /\ (at \in Saving \/ ok) => arg = cache[key]
    /\ (op \in {"save", "endpoint"} \/ (op = "flush" /\ key # Sys)) =>
          (at \in {"open", "write", "swap"} \/ (at = "done" /\ ~ok) => Readable(key, Main(key)))
    /\ op = "add" /\ opened /\ (at \in {"open", "write", "swap"} \/ (at = "done" /\ ~ok)) =>
          Loadable(key) = "none"
    /\ op = "add" => ~dirty[key] /\ key \notin unsaved
    /\ op = "save" => dirty[key]
    /\ phase \in {"devices", "up"} => props \in Value
    /\ phase = "closing" => todo \subseteq {d \in Device : cache[d] # "none"}

AgreeInv ==
    opened /\ (phase \in {"up", "devices"} \/ op = "create") =>
        \A d \in Device : Untouched(d) /\ ~dirty[d] /\ d \notin unsaved => cache[d] = Loadable(d)

IInv ==
    /\ TypeOK /\ Durable /\ Protocol /\ SaveInv /\ LoadInv /\ DeleteInv /\ RestoreInv
    /\ SettledInv /\ CachedInv /\ KeepsInv /\ AgreeInv

-----------------------------------------------------------------------------
\* First-order reasoning throughout; the few leaves with arithmetic or nested functions ask
\* for SMT.
USE Zenon

\* While the files stay as they are, so does all that is said about them.
LEMMA SameFiles ==
    ASSUME disk' = disk
    PROVE  /\ GetKeys' = GetKeys
           /\ \A k : /\ Loadable(k)' = Loadable(k)
                    /\ Settled(k)' = Settled(k)
                    /\ Main(k)' = Main(k)
                    /\ Bak(k)' = Bak(k)
  BY DEF GetKeys, Loadable, Settled, Main, Bak, Readable, Present, Accepts

\* What the parser of a key accepts ...
LEMMA Reading ==
    ASSUME NEW k \in Key, NEW c
    PROVE  /\ c \in Value => Readable(k, c)
           /\ Readable(k, c) => c \in Value \cup {"torn"}
           /\ Readable(k, c) /\ k # Sys => c \in Value
           /\ ~Readable(k, "absent") /\ ~Readable(k, "empty")
  BY ValueAssumption, SysAssumption DEF Readable, Present, Accepts

\* ... and which of its files a load takes.
LEMMA Loads ==
    ASSUME NEW k \in Key
    PROVE  /\ Readable(k, Main(k)) => Loadable(k) = Main(k)
           /\ ~Readable(k, Main(k)) /\ Readable(k, Bak(k)) => Loadable(k) = Bak(k)
           /\ ~Readable(k, Main(k)) /\ ~Readable(k, Bak(k)) => Loadable(k) = "none"
  BY DEF Loadable, Readable, Main, Bak

\* A step that touches no file and takes no possibility away keeps the promise.
LEMMA MoreMayBeFound ==
    ASSUME IInv, disk' = disk, \A k \in Key : may[k] \subseteq may'[k]
    PROVE  Durable'
  BY SameFiles, SysAssumption DEF IInv, Durable, Device

\* How the save under way leaves its key.
LEMMA SaveLeaves ==
    ASSUME IInv, op \in SaveOp, at = "done", Idle, SaveEnds
    PROVE  /\ Durable'
           /\ Settled(key) \/ "none" \in may'[key]
           /\ ok => Readable(key, Main(key)) /\ Loadable(key) = arg
           /\ \A k \in Key \ {key} : may'[k] = may[k]
  <1> USE DEF SaveEnds, Idle
  <1>1. key \in Key /\ ok \in BOOLEAN /\ may \in [Key -> SUBSET (Content \cup {"none"})] /\ disk' = disk
    BY DEF IInv, TypeOK
  <1>2. \A k \in Key \ {key} : may'[k] = may[k]
    BY <1>1
  <1>3. may'[key] = IF ok THEN {arg} ELSE before
    BY <1>1
  <1>4. ok => arg \in Value /\ Main(key) = arg
    BY DEF IInv, SaveInv
  <1>5. ok => Readable(key, Main(key)) /\ Loadable(key) = arg /\ Settled(key)
    BY <1>1, <1>4, Reading, Loads DEF Settled
  <1>6. ~ok => Loadable(key) \in Or(key, before) /\ (Settled(key) \/ "none" \in before)
    BY DEF IInv, SaveInv
  <1>7. \A k \in Key : Loadable(k) \in Or(k, may[k])
    BY SysAssumption DEF IInv, Durable, Device, Or
  <1>8. \A k \in Key : Loadable(k) \in Or(k, may'[k])
    BY <1>1, <1>2, <1>3, <1>5, <1>6, <1>7 DEF Or
  <1>9. Durable'
    BY <1>1, <1>8, SameFiles, SysAssumption, SMT DEF Durable, Device, Or
  <1> QED
    BY <1>1, <1>2, <1>3, <1>5, <1>6, <1>9

\* How the load of a device leaves its key.
LEMMA LoadLeaves ==
    ASSUME IInv, phase = "devices", at = "done"
    PROVE  /\ key \in Device /\ Settled(key)
           /\ ok => arg \in Value /\ Readable(key, Main(key)) /\ Loadable(key) = arg
           /\ ~ok => ~Readable(key, Main(key)) /\ Loadable(key) = "none"
  <1>1. op = "none" /\ key \in todo /\ key \in Device /\ key \in Key /\ key # Sys
    BY DEF IInv, TypeOK, Protocol, Device
  <1>2. ok => Readable(key, Main(key)) /\ arg = Main(key)
    BY <1>1 DEF IInv, LoadInv
  <1>3. ~ok => ~Readable(key, Main(key)) /\ ~Readable(key, Bak(key))
    BY <1>1 DEF IInv, LoadInv
  <1> QED
    BY <1>1, <1>2, <1>3, Reading, Loads DEF IInv, TypeOK, Settled

\* initialize begins with the load of the system properties: no file changes.
LEMMA InitializeKeeps ==
    ASSUME IInv, Initialize
    PROVE  IInv'
  <1> USE SysAssumption DEF Initialize, Load, Begin, hvars
  <1>0. disk' = disk
    OBVIOUS
  <1>1. TypeOK'
    BY DEF IInv, TypeOK, Content, Step, Device
  <1>2. Durable'
    BY <1>0, SameFiles DEF IInv, Durable
  <1>3. Protocol'
    BY DEF IInv, Protocol, SaveOp, Saving, Loading, Deleting, Untouched, Device
  <1>4. SaveInv' /\ LoadInv'
    BY DEF IInv, Protocol, SaveInv, LoadInv, SaveOp
  <1>5. DeleteInv' /\ RestoreInv'
    BY DEF IInv, Protocol, DeleteInv, RestoreInv
  <1>6. SettledInv'
    BY <1>0, SameFiles DEF IInv, SettledInv, Untouched, Protocol
  <1>7. CachedInv'
    BY <1>0, SameFiles DEF IInv, CachedInv, Untouched
  <1>8. KeepsInv'
    BY <1>0, SameFiles DEF IInv, KeepsInv, Protocol
  <1>9. AgreeInv'
    BY <1>0, SameFiles DEF IInv, TypeOK, Protocol, SaveOp, Saving, Loading, Deleting,
       Untouched, Device, AgreeInv, CachedInv, KeepsInv, SaveInv, LoadInv, DeleteInv
  <1> QED
    BY <1>1, <1>2, <1>3, <1>4, <1>5, <1>6, <1>7, <1>8, <1>9 DEF IInv

\* The properties were loaded: what a restart finds for them is the value read.
LEMMA OpenExistingKeeps ==
    ASSUME IInv, OpenExisting
    PROVE  IInv'
  <1> USE SysAssumption DEF OpenExisting, Idle
  <1>0. disk' = disk
    OBVIOUS
  <1>1. TypeOK'
    BY DEF IInv, TypeOK, Content, Step, Device, GetKeys
  <1>2. Durable'
    <2>1. Readable(Sys, Main(Sys)) /\ arg = Main(Sys)
      BY DEF IInv, LoadInv, Protocol
    <2>2. Loadable(Sys) = arg
      BY <2>1, Loads
    <2> QED
      BY <1>0, <2>2, SameFiles, SMT DEF IInv, TypeOK, Durable, Device
  <1>3. Protocol'
    BY DEF IInv, Protocol
  <1>4. SaveInv' /\ LoadInv'
    BY DEF SaveInv, LoadInv, SaveOp
  <1>5. DeleteInv' /\ RestoreInv'
    BY DEF DeleteInv, RestoreInv
  <1>6. SettledInv'
    <2>1. \A k \in Key : k \notin GetKeys => Main(k) = "absent" /\ Bak(k) = "absent"
      BY DEF GetKeys, Main, Bak
    <2>2. Settled(Sys)
      BY DEF IInv, LoadInv, Protocol, Settled
    <2>3. \A k \in Key : k \notin todo' => Settled(k)
      BY <2>1, <2>2, Reading DEF Settled
    <2> QED
      BY <1>0, <2>3, SameFiles DEF SettledInv, Untouched
  <1>7. CachedInv'
    BY <1>0, SameFiles DEF IInv, CachedInv, Untouched
  <1>8. KeepsInv'
    BY DEF IInv, KeepsInv
  <1>9. AgreeInv'
    <2>1. \A d \in Device : d \notin GetKeys => Loadable(d) = "none"
      BY Loads, Reading DEF GetKeys, Main, Bak, Device
    <2>2. \A d \in Device : cache'[d] = "none"
      BY DEF IInv, CachedInv
    <2> QED
      BY <1>0, <2>1, <2>2, SameFiles DEF AgreeInv, Untouched, Device
  <1> QED
    BY <1>1, <1>2, <1>3, <1>4, <1>5, <1>6, <1>7, <1>8, <1>9 DEF IInv

\* They were not: the database opens empty, and promises nothing about what is stored.
LEMMA OpenEmptyKeeps ==
    ASSUME IInv, OpenEmpty
    PROVE  IInv'
  <1> USE SysAssumption DEF OpenEmpty, Idle
  <1>0. disk' = disk
    OBVIOUS
  <1>1. TypeOK'
    BY DEF IInv, TypeOK, Content, Step, Device
  <1>2. Durable'
    <2>1. \A k \in Key \ {Sys} : may[k] \subseteq may'[k]
      OBVIOUS
    <2>2. key = Sys /\ ok \in BOOLEAN
      BY DEF IInv, TypeOK, Protocol
    <2>3. ok => Readable(Sys, Main(Sys)) /\ arg = Main(Sys) /\ arg \notin Value
      BY <2>2 DEF IInv, LoadInv
    <2>4. ok => Loadable(Sys) = "torn"
      BY <2>3, Loads, Reading
    <2>5. ~ok => Loadable(Sys) = "none"
      BY <2>2, Loads DEF IInv, LoadInv
    <2>6. Loadable(Sys) \in may'[Sys] \cup {"torn"}
      BY <2>2, <2>4, <2>5
    <2> QED
      BY <1>0, <2>1, <2>6, SameFiles DEF IInv, Durable, Device
  <1>3. Protocol'
    BY DEF IInv, Protocol
  <1>4. SaveInv' /\ LoadInv'
    BY DEF SaveInv, LoadInv, SaveOp
  <1>5. DeleteInv' /\ RestoreInv'
    BY DEF DeleteInv, RestoreInv
  <1>6. SettledInv'
    BY <1>0, SameFiles DEF IInv, SettledInv, Untouched
  <1>7. CachedInv'
    BY <1>0, SameFiles DEF IInv, CachedInv, Untouched
  <1>8. KeepsInv'
    BY DEF IInv, KeepsInv
  <1>9. AgreeInv'
    <2>1. \A d \in Device : d \notin GetKeys => Loadable(d) = "none"
      BY Loads, Reading DEF GetKeys, Main, Bak, Device
    <2>2. \A d \in Device : cache'[d] = "none"
      BY DEF IInv, CachedInv
    <2> QED
      BY <1>0, <2>1, <2>2, SameFiles DEF AgreeInv, Untouched, Device
  <1> QED
    BY <1>1, <1>2, <1>3, <1>4, <1>5, <1>6, <1>7, <1>8, <1>9 DEF IInv

\* The first save of an empty database.
LEMMA CreatePropertiesKeeps ==
    ASSUME IInv, NEW v \in Value, CreateProperties(v)
    PROVE  IInv'
  <1> USE SysAssumption DEF CreateProperties, SaveBegins, Save, Begin
  <1>0. disk' = disk
    OBVIOUS
  <1>1. TypeOK'
    BY DEF IInv, TypeOK, Content, Step, Device
  <1>2. Durable'
    BY <1>0, SameFiles, SMT DEF IInv, Durable
  <1>3. Protocol'
    BY DEF IInv, Protocol, Saving
  <1>4. SaveInv' /\ LoadInv'
    BY <1>0, SameFiles, SMT DEF IInv, TypeOK, Durable, Or, Protocol, SaveOp, Saving,
       Loading, Deleting, Untouched, Device, SaveInv, LoadInv, SettledInv
  <1>5. DeleteInv' /\ RestoreInv'
    BY DEF DeleteInv, RestoreInv
  <1>6. SettledInv'
    BY <1>0, SameFiles, SMT DEF IInv, SettledInv, Untouched
  <1>7. CachedInv'
    BY <1>0, SameFiles DEF IInv, CachedInv, Untouched
  <1>8. KeepsInv'
    BY DEF IInv, KeepsInv
  <1>9. AgreeInv'
    BY <1>0, SameFiles DEF IInv, TypeOK, AgreeInv, CachedInv, Protocol, Untouched, Device
  <1> QED
    BY <1>1, <1>2, <1>3, <1>4, <1>5, <1>6, <1>7, <1>8, <1>9 DEF IInv

\* The load of the next device begins.
LEMMA LoadNextKeeps ==
    ASSUME IInv, NEW d \in Device, LoadNext(d)
    PROVE  IInv'
  <1> USE SysAssumption DEF LoadNext, Load, Begin, dvars, hvars
  <1>0. disk' = disk
    OBVIOUS
  <1>1. TypeOK'
    BY DEF IInv, TypeOK, Content, Step, Device
  <1>2. Durable'
    BY <1>0, SameFiles DEF IInv, Durable
  <1>3. Protocol'
    BY DEF IInv, Protocol, SaveOp, Saving, Loading, Deleting, Untouched, Device
  <1>4. SaveInv' /\ LoadInv'
    BY DEF IInv, Protocol, SaveInv, LoadInv, SaveOp
  <1>5. DeleteInv' /\ RestoreInv'
    BY DEF IInv, Protocol, DeleteInv, RestoreInv
  <1>6. SettledInv'
    BY <1>0, SameFiles DEF IInv, SettledInv, Untouched
  <1>7. CachedInv'
    BY <1>0, SameFiles DEF IInv, CachedInv, Untouched
  <1>8. KeepsInv'
    BY <1>0, SameFiles DEF IInv, KeepsInv, Protocol
  <1>9. AgreeInv'
    BY <1>0, SameFiles DEF IInv, AgreeInv, Untouched
  <1> QED
    BY <1>1, <1>2, <1>3, <1>4, <1>5, <1>6, <1>7, <1>8, <1>9 DEF IInv

\* A device that was loaded is in the cache as in its file; one that was not is in neither.
LEMMA LoadedDeviceKeeps ==
    ASSUME IInv, LoadedDevice
    PROVE  IInv'
  <1> USE SysAssumption DEF LoadedDevice, Idle
  <1>0. disk' = disk
    OBVIOUS
  <1>1. TypeOK'
    BY LoadLeaves, ZenonT(30) DEF IInv, TypeOK, Content, Step, Device
  <1>2. Durable'
    BY <1>0, LoadLeaves, SameFiles, SMT DEF IInv, TypeOK, Durable, Device
  <1>3. Protocol'
    BY DEF IInv, Protocol
  <1>4. SaveInv' /\ LoadInv'
    BY DEF IInv, Protocol, SaveInv, LoadInv, SaveOp
  <1>5. DeleteInv' /\ RestoreInv'
    BY DEF IInv, Protocol, DeleteInv, RestoreInv
  <1>6. SettledInv'
    BY <1>0, LoadLeaves, SameFiles DEF IInv, TypeOK, SettledInv, Protocol, Untouched, Device
  <1>7. CachedInv'
    <2>1. key \in Device /\ ok \in BOOLEAN /\ (ok => arg # "none" /\ Readable(key, Main(key)))
      BY LoadLeaves, ValueAssumption DEF IInv, TypeOK
    <2>2. \A d \in Device : Untouched(d)' => d = key \/ Untouched(d)
      BY DEF Untouched, IInv, Protocol
    <2>3. \A d \in Device : ~dirty[d] /\ d \notin unsaved /\ (d \in todo => cache[d] = "none")
      BY DEF IInv, CachedInv
    <2> QED
      BY <1>0, <2>1, <2>2, <2>3, SameFiles DEF IInv, TypeOK, CachedInv, Protocol, Device
  <1>8. KeepsInv'
    BY <1>0, SameFiles DEF IInv, KeepsInv, Protocol
  <1>9. AgreeInv'
    BY <1>0, LoadLeaves, SameFiles DEF IInv, TypeOK, AgreeInv, Protocol, Untouched, Device
  <1> QED
    BY <1>1, <1>2, <1>3, <1>4, <1>5, <1>6, <1>7, <1>8, <1>9 DEF IInv

\* The database is open: every key is settled.
LEMMA InitializedKeeps ==
    ASSUME IInv, Initialized
    PROVE  IInv'
  <1> USE SysAssumption DEF Initialized, svars, hvars
  <1>0. disk' = disk
    OBVIOUS
  <1>1. TypeOK'
    BY DEF IInv, TypeOK
  <1>2. Durable'
    BY <1>0, SameFiles DEF IInv, Durable
  <1>3. Protocol'
    BY DEF IInv, Protocol
  <1>4. SaveInv' /\ LoadInv'
    BY DEF IInv, Protocol, SaveInv, LoadInv, SaveOp
  <1>5. DeleteInv' /\ RestoreInv'
    BY DEF IInv, Protocol, DeleteInv, RestoreInv
  <1>6. SettledInv'
    BY <1>0, SameFiles DEF IInv, SettledInv, Untouched
  <1>7. CachedInv'
    BY <1>0, SameFiles DEF IInv, CachedInv, Untouched
  <1>8. KeepsInv'
    BY <1>0, SameFiles DEF IInv, TypeOK, KeepsInv, Protocol, Device
  <1>9. AgreeInv'
    BY <1>0, SameFiles DEF IInv, AgreeInv, Untouched
  <1> QED
    BY <1>1, <1>2, <1>3, <1>4, <1>5, <1>6, <1>7, <1>8, <1>9 DEF IInv

\* Only the locators of the device change.
LEMMA AddKnownKeeps ==
    ASSUME IInv, NEW d \in Device, AddKnown(d)
    PROVE  IInv'
  <1> USE SysAssumption DEF AddKnown, Ready, svars, hvars
  <1>0. disk' = disk
    OBVIOUS
  <1>1. TypeOK'
    BY DEF IInv, TypeOK
  <1>2. Durable'
    BY <1>0, SameFiles DEF IInv, Durable
  <1>3. Protocol'
    BY DEF IInv, Protocol
  <1>4. SaveInv' /\ LoadInv'
    BY DEF SaveInv, LoadInv, SaveOp
  <1>5. DeleteInv' /\ RestoreInv'
    BY DEF DeleteInv, RestoreInv
  <1>6. SettledInv'
    BY <1>0, SameFiles DEF IInv, SettledInv, Untouched
  <1>7. CachedInv'
    BY <1>0, SameFiles, SMT DEF IInv, CachedInv, Untouched, Protocol
  <1>8. KeepsInv'
    BY DEF IInv, KeepsInv
  <1>9. AgreeInv'
    BY <1>0, SameFiles DEF IInv, AgreeInv, Untouched
  <1> QED
    BY <1>1, <1>2, <1>3, <1>4, <1>5, <1>6, <1>7, <1>8, <1>9 DEF IInv

\* The device enters the cache before its save; until then no file of it can be loaded.
LEMMA AddDeviceKeeps ==
    ASSUME IInv, NEW d \in Device, NEW v \in Value, AddDevice(d, v)
    PROVE  IInv'
  <1> USE SysAssumption DEF AddDevice, Ready, SaveBegins, Save, Begin
  <1>0. disk' = disk
    OBVIOUS
  <1>1. TypeOK'
    BY DEF IInv, TypeOK, Content, Step, Device
  <1>2. Durable'
    BY <1>0, SameFiles, SMT DEF IInv, Durable
  <1>3. Protocol'
    BY DEF IInv, Protocol, SaveOp, Saving, Loading, Deleting, Untouched, Device
  <1>4. SaveInv' /\ LoadInv'
    BY <1>0, SameFiles DEF IInv, TypeOK, Durable, Or, Protocol, SaveOp, Saving, Loading,
       Deleting, Untouched, Device, SaveInv, LoadInv, SettledInv
  <1>5. DeleteInv' /\ RestoreInv'
    BY DEF DeleteInv, RestoreInv
  <1>6. SettledInv'
    BY <1>0, SameFiles, SMT DEF IInv, SettledInv, Untouched
  <1>7. CachedInv'
    <2>1. v # "none" /\ cache'[d] = v /\ \A e \in Device \ {d} : cache'[e] = cache[e]
      BY ValueAssumption DEF IInv, TypeOK
    <2>2. \A e \in Device : Untouched(e)' => e # d /\ Untouched(e)
      BY DEF Untouched
    <2> QED
      BY <1>0, <2>1, <2>2, SameFiles, SMT DEF IInv, TypeOK, CachedInv
  <1>8. KeepsInv'
    <2>1. opened => Loadable(d) = "none"
      BY DEF IInv, AgreeInv, CachedInv, Untouched
    <2>2. ~dirty[d] /\ d \notin unsaved
      BY DEF IInv, CachedInv
    <2> QED
      BY <1>0, <2>1, <2>2, ValueAssumption, SameFiles DEF IInv, TypeOK, KeepsInv, Device, Saving
  <1>9. AgreeInv'
    BY <1>0, SameFiles, SMT DEF IInv, AgreeInv, Untouched
  <1> QED
    BY <1>1, <1>2, <1>3, <1>4, <1>5, <1>6, <1>7, <1>8, <1>9 DEF IInv

\* The save succeeded, or the device leaves the cache again: both agree with the file.
LEMMA AddedDeviceKeeps ==
    ASSUME IInv, AddedDevice
    PROVE  IInv'
  <1> USE SysAssumption DEF AddedDevice, Returned, Idle, SaveEnds, Forget
  <1>0. disk' = disk
    OBVIOUS
  <1>1. TypeOK'
    BY ZenonT(30) DEF IInv, TypeOK, Content, Step, Device
  <1>2. Durable'
    BY SaveLeaves DEF IInv, Protocol, SaveOp, Saving, Loading, Deleting, Untouched, Device
  <1>3. Protocol'
    BY DEF IInv, Protocol
  <1>4. SaveInv' /\ LoadInv'
    BY DEF SaveInv, LoadInv, SaveOp
  <1>5. DeleteInv' /\ RestoreInv'
    BY DEF IInv, Protocol, DeleteInv, RestoreInv
  <1>6. SettledInv'
    BY <1>0, SaveLeaves, SameFiles DEF IInv, TypeOK, SettledInv, Protocol, SaveOp, Saving,
       Loading, Deleting, Untouched, Device
  <1>7. CachedInv'
    <2>1. key \in Device /\ ok \in BOOLEAN /\ (ok => Readable(key, Main(key)))
      BY SaveLeaves DEF IInv, TypeOK, Protocol, KeepsInv, SaveOp, Device
    <2>2. \A d \in Device : Untouched(d)' => d = key \/ Untouched(d)
      BY DEF Untouched, IInv, Protocol
    <2> QED
      BY <1>0, <2>1, <2>2, SameFiles DEF IInv, TypeOK, CachedInv, Protocol, Device
  <1>8. KeepsInv'
    BY <1>0, SameFiles DEF IInv, KeepsInv, Protocol
  <1>9. AgreeInv'
    BY <1>0, SaveLeaves, SameFiles, ZenonT(30) DEF IInv, TypeOK, AgreeInv, CachedInv,
       KeepsInv, Protocol, SaveOp, Saving, Loading, Deleting, Untouched, Device
  <1> QED
    BY <1>1, <1>2, <1>3, <1>4, <1>5, <1>6, <1>7, <1>8, <1>9 DEF IInv

\* The device is dirty while its save is under way.
LEMMA SaveDeviceKeeps ==
    ASSUME IInv, NEW d \in Device, NEW v \in Value, SaveDevice(d, v)
    PROVE  IInv'
  <1> USE SysAssumption DEF SaveDevice, Ready, SaveBegins, Save, Begin
  <1>0. disk' = disk
    OBVIOUS
  <1>1. TypeOK'
    BY DEF IInv, TypeOK, Content, Step, Device
  <1>2. Durable'
    BY <1>0, SameFiles, SMT DEF IInv, Durable
  <1>3. Protocol'
    BY DEF IInv, Protocol, SaveOp, Saving, Loading, Deleting, Untouched, Device
  <1>4. SaveInv' /\ LoadInv'
    BY <1>0, SameFiles DEF IInv, TypeOK, Durable, Or, Protocol, SaveOp, Saving, Loading,
       Deleting, Untouched, Device, SaveInv, LoadInv, SettledInv
  <1>5. DeleteInv' /\ RestoreInv'
    BY DEF DeleteInv, RestoreInv
  <1>6. SettledInv'
    BY <1>0, SameFiles, SMT DEF IInv, SettledInv, Untouched
  <1>7. CachedInv'
    <2>1. v # "none" /\ cache'[d] = v /\ \A e \in Device \ {d} : cache'[e] = cache[e]
      BY ValueAssumption DEF IInv, TypeOK
    <2>2. \A e \in Device : Untouched(e)' => e # d /\ Untouched(e)
      BY DEF Untouched
    <2> QED
      BY <1>0, <2>1, <2>2, SameFiles DEF IInv, TypeOK, CachedInv
  <1>8. KeepsInv'
    <2>1. Readable(d, Main(d))
      BY DEF IInv, CachedInv, Untouched
    <2> QED
      BY <1>0, <2>1, ValueAssumption, SameFiles DEF IInv, TypeOK, KeepsInv, Device, Saving
  <1>9. AgreeInv'
    BY <1>0, SameFiles, SMT DEF IInv, AgreeInv, Untouched
  <1> QED
    BY <1>1, <1>2, <1>3, <1>4, <1>5, <1>6, <1>7, <1>8, <1>9 DEF IInv

\* It is clean again only if its file holds what the cache does.
LEMMA SavedDeviceKeeps ==
    ASSUME IInv, SavedDevice
    PROVE  IInv'
  <1> USE SysAssumption DEF SavedDevice, Cleaned, Returned, Idle, SaveEnds
  <1>0. disk' = disk
    OBVIOUS
  <1>1. TypeOK'
    BY ZenonT(30) DEF IInv, TypeOK, Content, Step, Device
  <1>2. Durable'
    BY SaveLeaves DEF IInv, Protocol, SaveOp, Saving, Loading, Deleting, Untouched, Device
  <1>3. Protocol'
    BY DEF IInv, Protocol
  <1>4. SaveInv' /\ LoadInv'
    BY DEF SaveInv, LoadInv, SaveOp
  <1>5. DeleteInv' /\ RestoreInv'
    BY DEF IInv, Protocol, DeleteInv, RestoreInv
  <1>6. SettledInv'
    BY <1>0, SaveLeaves, SameFiles DEF IInv, TypeOK, SettledInv, Protocol, SaveOp, Saving,
       Loading, Deleting, Untouched, Device
  <1>7. CachedInv'
    <2>1. key \in Device /\ ok \in BOOLEAN /\ cache[key] # "none" /\ Readable(key, Main(key))
      BY SaveLeaves DEF IInv, TypeOK, Protocol, KeepsInv, SaveOp, Device
    <2>2. \A d \in Device : Untouched(d)' => d = key \/ Untouched(d)
      BY DEF Untouched, IInv, Protocol
    <2> QED
      BY <1>0, <2>1, <2>2, SameFiles DEF IInv, TypeOK, CachedInv, Protocol, Device
  <1>8. KeepsInv'
    BY DEF IInv, KeepsInv
  <1>9. AgreeInv'
    BY <1>0, SaveLeaves, SameFiles, ZenonT(30) DEF IInv, TypeOK, AgreeInv, CachedInv,
       KeepsInv, Protocol, SaveOp, Saving, Loading, Deleting, Untouched, Device
  <1> QED
    BY <1>1, <1>2, <1>3, <1>4, <1>5, <1>6, <1>7, <1>8, <1>9 DEF IInv

\* The save that does not mark the device dirty.
LEMMA AddEndpointKeeps ==
    ASSUME IInv, NEW d \in Device, NEW v \in Value, AddEndpoint(d, v)
    PROVE  IInv'
  <1> USE SysAssumption DEF AddEndpoint, Ready, SaveBegins, Save, Begin
  <1>0. disk' = disk
    OBVIOUS
  <1>1. TypeOK'
    BY DEF IInv, TypeOK, Content, Step, Device
  <1>2. Durable'
    BY <1>0, MoreMayBeFound DEF IInv, TypeOK
  <1>3. Protocol'
    BY DEF IInv, Protocol, SaveOp, Saving, Loading, Deleting, Untouched, Device
  <1>4. SaveInv' /\ LoadInv'
    BY <1>0, SameFiles DEF IInv, TypeOK, Durable, Or, Protocol, SaveOp, Saving, Loading,
       Deleting, Untouched, Device, SaveInv, LoadInv, SettledInv
  <1>5. DeleteInv' /\ RestoreInv'
    BY DEF DeleteInv, RestoreInv
  <1>6. SettledInv'
    BY <1>0, SameFiles DEF IInv, TypeOK, Protocol, SaveOp, Saving, Loading, Deleting,
       Untouched, Device, SettledInv, SaveInv, LoadInv, DeleteInv
  <1>7. CachedInv'
    BY <1>0, ValueAssumption, SameFiles DEF IInv, TypeOK, CachedInv, Untouched, Protocol, Device
  <1>8. KeepsInv'
    <2>1. Readable(d, Main(d))
      BY DEF IInv, CachedInv, Untouched
    <2> QED
      BY <1>0, <2>1, ValueAssumption, SameFiles DEF IInv, TypeOK, KeepsInv, Device, Saving
  <1>9. AgreeInv'
    BY <1>0, SameFiles, SMT DEF IInv, AgreeInv, Untouched
  <1> QED
    BY <1>1, <1>2, <1>3, <1>4, <1>5, <1>6, <1>7, <1>8, <1>9 DEF IInv

\* When that save failed the device is among the unsaved.
LEMMA AddedEndpointKeeps ==
    ASSUME IInv, AddedEndpoint
    PROVE  IInv'
  <1> USE SysAssumption DEF AddedEndpoint, Returned, Idle, SaveEnds
  <1>0. disk' = disk
    OBVIOUS
  <1>1. TypeOK'
    BY DEF IInv, TypeOK, Content, Step, Device, Protocol
  <1>2. Durable'
    BY SaveLeaves DEF IInv, Protocol, SaveOp, Saving, Loading, Deleting, Untouched, Device
  <1>3. Protocol'
    BY DEF IInv, Protocol
  <1>4. SaveInv' /\ LoadInv'
    BY DEF SaveInv, LoadInv, SaveOp
  <1>5. DeleteInv' /\ RestoreInv'
    BY DEF IInv, Protocol, DeleteInv, RestoreInv
  <1>6. SettledInv'
    BY <1>0, SaveLeaves, SameFiles DEF IInv, TypeOK, SettledInv, Protocol, SaveOp, Saving,
       Loading, Deleting, Untouched, Device
  <1>7. CachedInv'
    <2>1. key \in Device /\ ok \in BOOLEAN /\ cache[key] # "none" /\ Readable(key, Main(key))
      BY SaveLeaves DEF IInv, TypeOK, Protocol, KeepsInv, SaveOp, Device
    <2>2. \A d \in Device : Untouched(d)' => d = key \/ Untouched(d)
      BY DEF Untouched, IInv, Protocol
    <2> QED
      BY <1>0, <2>1, <2>2, SameFiles DEF IInv, TypeOK, CachedInv, Protocol, Device
  <1>8. KeepsInv'
    BY DEF IInv, KeepsInv
  <1>9. AgreeInv'
    BY <1>0, SaveLeaves, SameFiles, ZenonT(30) DEF IInv, TypeOK, AgreeInv, CachedInv,
       KeepsInv, Protocol, SaveOp, Saving, Loading, Deleting, Untouched, Device
  <1> QED
    BY <1>1, <1>2, <1>3, <1>4, <1>5, <1>6, <1>7, <1>8, <1>9 DEF IInv

\* A lazy save changes the cache and marks the device.
LEMMA SaveLazilyKeeps ==
    ASSUME IInv, NEW d \in Device, NEW v \in Value, SaveLazily(d, v)
    PROVE  IInv'
  <1> USE SysAssumption DEF SaveLazily, Ready, svars, hvars
  <1>0. disk' = disk
    OBVIOUS
  <1>1. TypeOK'
    BY DEF IInv, TypeOK
  <1>2. Durable'
    BY <1>0, SameFiles DEF IInv, Durable
  <1>3. Protocol'
    BY DEF IInv, Protocol
  <1>4. SaveInv' /\ LoadInv'
    BY DEF SaveInv, LoadInv, SaveOp
  <1>5. DeleteInv' /\ RestoreInv'
    BY DEF DeleteInv, RestoreInv
  <1>6. SettledInv'
    BY <1>0, SameFiles DEF IInv, SettledInv, Untouched
  <1>7. CachedInv'
    BY <1>0, ValueAssumption, SameFiles DEF IInv, TypeOK, CachedInv, Untouched, Protocol, Device
  <1>8. KeepsInv'
    BY DEF IInv, KeepsInv
  <1>9. AgreeInv'
    BY <1>0, SameFiles DEF IInv, TypeOK, Protocol, SaveOp, Saving, Loading, Deleting,
       Untouched, Device, AgreeInv, CachedInv, KeepsInv, SaveInv, LoadInv, DeleteInv
  <1> QED
    BY <1>1, <1>2, <1>3, <1>4, <1>5, <1>6, <1>7, <1>8, <1>9 DEF IInv

\* A save of the system properties begins.
LEMMA SetSystemPropertyKeeps ==
    ASSUME IInv, NEW v \in Value, SetSystemProperty(v)
    PROVE  IInv'
  <1> USE SysAssumption DEF SetSystemProperty, Ready, SaveBegins, Save, Begin
  <1>0. disk' = disk
    OBVIOUS
  <1>1. TypeOK'
    BY DEF IInv, TypeOK, Content, Step, Device
  <1>2. Durable'
    BY <1>0, MoreMayBeFound DEF IInv, TypeOK
  <1>3. Protocol'
    BY DEF IInv, Protocol, Saving
  <1>4. SaveInv' /\ LoadInv'
    BY <1>0, SameFiles, SMT DEF IInv, TypeOK, Durable, Or, Protocol, SaveOp, Saving,
       Loading, Deleting, Untouched, Device, SaveInv, LoadInv, SettledInv
  <1>5. DeleteInv' /\ RestoreInv'
    BY DEF DeleteInv, RestoreInv
  <1>6. SettledInv'
    BY <1>0, SameFiles, SMT DEF IInv, SettledInv, Untouched
  <1>7. CachedInv'
    BY <1>0, SameFiles DEF IInv, CachedInv, Untouched
  <1>8. KeepsInv'
    BY DEF IInv, KeepsInv
  <1>9. AgreeInv'
    BY <1>0, SameFiles DEF IInv, AgreeInv, Untouched
  <1> QED
    BY <1>1, <1>2, <1>3, <1>4, <1>5, <1>6, <1>7, <1>8, <1>9 DEF IInv

\* It ends; devices are not concerned.
LEMMA SavedPropertiesKeeps ==
    ASSUME IInv, SavedProperties
    PROVE  IInv'
  <1> USE SysAssumption DEF SavedProperties, Returned, Idle, SaveEnds
  <1>0. disk' = disk
    OBVIOUS
  <1>1. TypeOK'
    BY ZenonT(30) DEF IInv, TypeOK, Content, Step, Device
  <1>2. Durable'
    BY SaveLeaves DEF IInv, Protocol, SaveOp, Saving, Loading, Deleting, Untouched, Device
  <1>3. Protocol'
    BY DEF IInv, Protocol
  <1>4. SaveInv' /\ LoadInv'
    BY DEF SaveInv, LoadInv, SaveOp
  <1>5. DeleteInv' /\ RestoreInv'
    BY DEF IInv, Protocol, DeleteInv, RestoreInv
  <1>6. SettledInv'
    BY <1>0, SaveLeaves, SameFiles DEF IInv, TypeOK, SettledInv, Protocol, SaveOp, Saving,
       Loading, Deleting, Untouched, Device
  <1>7. CachedInv'
    BY <1>0, SameFiles DEF IInv, TypeOK, Protocol, SaveOp, Saving, Loading, Deleting,
       Untouched, Device, CachedInv, KeepsInv, SaveInv, LoadInv, DeleteInv
  <1>8. KeepsInv'
    BY DEF IInv, KeepsInv
  <1>9. AgreeInv'
    BY <1>0, SameFiles DEF IInv, TypeOK, Protocol, SaveOp, Saving, Loading, Deleting,
       Untouched, Device, AgreeInv, CachedInv, KeepsInv, SaveInv, LoadInv, DeleteInv
  <1> QED
    BY <1>1, <1>2, <1>3, <1>4, <1>5, <1>6, <1>7, <1>8, <1>9 DEF IInv

\* A delete begins: a restart may find the device, nothing or the backup.
LEMMA RemoveDeviceKeeps ==
    ASSUME IInv, NEW d \in Device, RemoveDevice(d)
    PROVE  IInv'
  <1> USE SysAssumption DEF RemoveDevice, Ready, Delete, Begin
  <1>0. disk' = disk
    OBVIOUS
  <1>1. TypeOK'
    <2>1. d \in Key /\ disk[d]["bak"] \in Content
      BY SMT DEF IInv, TypeOK, Device, File
    <2>2. may' \in [Key -> SUBSET (Content \cup {"none"})] /\ before' \subseteq Content \cup {"none"}
      BY <2>1 DEF IInv, TypeOK
    <2> QED
      BY <2>1, <2>2 DEF IInv, TypeOK, Content, Step, Device
  <1>2. Durable'
    BY <1>0, MoreMayBeFound DEF IInv, TypeOK
  <1>3. Protocol'
    BY DEF IInv, Protocol, SaveOp, Saving, Loading, Deleting, Untouched, Device
  <1>4. SaveInv' /\ LoadInv'
    BY DEF SaveInv, LoadInv, SaveOp
  <1>5. DeleteInv' /\ RestoreInv'
    <2>1. Readable(d, Main(d))
      BY DEF IInv, CachedInv, Untouched
    <2>2. d \in Key /\ "none" \in may'[d] /\ Bak(d) \in may'[d]
      BY DEF IInv, TypeOK, Device, Bak
    <2> QED
      BY <1>0, <2>1, <2>2, SameFiles DEF DeleteInv, RestoreInv, Deleting
  <1>6. SettledInv'
    BY <1>0, SameFiles DEF IInv, TypeOK, Protocol, SaveOp, Saving, Loading, Deleting,
       Untouched, Device, SettledInv, SaveInv, LoadInv, DeleteInv
  <1>7. CachedInv'
    BY <1>0, SameFiles DEF IInv, CachedInv, Untouched
  <1>8. KeepsInv'
    BY DEF IInv, KeepsInv
  <1>9. AgreeInv'
    BY <1>0, SameFiles DEF IInv, AgreeInv, Untouched
  <1> QED
    BY <1>1, <1>2, <1>3, <1>4, <1>5, <1>6, <1>7, <1>8, <1>9 DEF IInv

\* Once the files are gone the device leaves the cache; else it stays in both.
LEMMA RemovedDeviceKeeps ==
    ASSUME IInv, RemovedDevice
    PROVE  IInv'
  <1> USE SysAssumption DEF RemovedDevice, Returned, Idle, Forget
  <1>0. disk' = disk
    OBVIOUS
  <1>1. TypeOK'
    BY DEF IInv, TypeOK, Content, Step, Device
  <1>2. Durable'
    <2>1. key \in Device /\ ok /\ Main(key) = "absent" /\ Bak(key) = "absent"
      BY DEF IInv, TypeOK, Protocol, DeleteInv, Device
    <2>2. Loadable(key) = "none"
      BY <2>1, Loads, Reading DEF Device
    <2> QED
      BY <1>0, <2>1, <2>2, SameFiles, SMT DEF IInv, TypeOK, Durable, Device
  <1>3. Protocol'
    BY DEF IInv, Protocol
  <1>4. SaveInv' /\ LoadInv'
    BY DEF SaveInv, LoadInv, SaveOp
  <1>5. DeleteInv' /\ RestoreInv'
    BY DEF IInv, Protocol, DeleteInv, RestoreInv
  <1>6. SettledInv'
    BY <1>0, SameFiles DEF IInv, TypeOK, Protocol, SaveOp, Saving, Loading, Deleting,
       Untouched, Device, SettledInv, SaveInv, LoadInv, DeleteInv
  <1>7. CachedInv'
    BY <1>0, SameFiles DEF IInv, TypeOK, Protocol, SaveOp, Saving, Loading, Deleting,
       Untouched, Device, CachedInv, KeepsInv, SaveInv, LoadInv, DeleteInv
  <1>8. KeepsInv'
    BY <1>0, SameFiles DEF IInv, KeepsInv, Protocol
  <1>9. AgreeInv'
    <2>1. key \in Device /\ ok /\ Main(key) = "absent" /\ Bak(key) = "absent"
      BY DEF IInv, TypeOK, Protocol, DeleteInv, Device
    <2>2. Loadable(key) = "none"
      BY <2>1, Loads, Reading DEF Device
    <2> QED
      BY <1>0, <2>1, <2>2, SameFiles DEF IInv, TypeOK, AgreeInv, Protocol, Untouched, Device
  <1> QED
    BY <1>1, <1>2, <1>3, <1>4, <1>5, <1>6, <1>7, <1>8, <1>9 DEF IInv

\* A persistent cleanup begins by saving the properties.
LEMMA CleanupBeginKeeps ==
    ASSUME IInv, CleanupBegin
    PROVE  IInv'
  <1> USE SysAssumption DEF CleanupBegin, Ready, SaveBegins, Save, Begin
  <1>0. disk' = disk
    OBVIOUS
  <1>1. TypeOK'
    <2>1. props \in Value
      BY DEF IInv, KeepsInv
    <2> QED
      BY <2>1, ZenonT(30) DEF IInv, TypeOK, Content, Step, Device
  <1>2. Durable'
    BY <1>0, MoreMayBeFound DEF IInv, TypeOK
  <1>3. Protocol'
    BY DEF IInv, Protocol, Saving
  <1>4. SaveInv' /\ LoadInv'
    <2>1. props \in Value
      BY DEF IInv, KeepsInv
    <2>2. Settled(Sys) \/ "none" \in may[Sys]
      BY DEF IInv, SettledInv, Untouched
    <2> QED
      BY <1>0, <2>1, <2>2, SameFiles, SMT DEF IInv, TypeOK, Durable, Or, SaveInv, LoadInv, Saving
  <1>5. DeleteInv' /\ RestoreInv'
    BY DEF DeleteInv, RestoreInv
  <1>6. SettledInv'
    BY <1>0, SameFiles DEF IInv, TypeOK, Protocol, SaveOp, Saving, Loading, Deleting,
       Untouched, Device, SettledInv, SaveInv, LoadInv, DeleteInv
  <1>7. CachedInv'
    BY <1>0, SameFiles DEF IInv, CachedInv, Untouched
  <1>8. KeepsInv'
    BY <1>0, SameFiles DEF IInv, TypeOK, Protocol, SaveOp, Saving, Loading, Deleting,
       Untouched, Device, KeepsInv, CachedInv, AgreeInv
  <1>9. AgreeInv'
    BY DEF AgreeInv
  <1> QED
    BY <1>1, <1>2, <1>3, <1>4, <1>5, <1>6, <1>7, <1>8, <1>9 DEF IInv

\* One of its saves is over.
LEMMA CleanupSavedKeeps ==
    ASSUME IInv, CleanupSaved
    PROVE  IInv'
  <1> USE SysAssumption DEF CleanupSaved, Returned, Idle, SaveEnds, dvars
  <1>0. disk' = disk
    OBVIOUS
  <1>1. TypeOK'
    BY DEF IInv, TypeOK, Content, Step, Device
  <1>2. Durable'
    BY SaveLeaves DEF IInv, Protocol, SaveOp, Saving, Loading, Deleting, Untouched, Device
  <1>3. Protocol'
    BY DEF IInv, Protocol
  <1>4. SaveInv' /\ LoadInv'
    BY <1>0, SameFiles DEF IInv, TypeOK, Durable, Or, Protocol, SaveOp, Saving, Loading,
       Deleting, Untouched, Device, SaveInv, LoadInv, SettledInv
  <1>5. DeleteInv' /\ RestoreInv'
    BY DEF DeleteInv, RestoreInv
  <1>6. SettledInv'
    BY <1>0, SaveLeaves, SameFiles DEF IInv, TypeOK, SettledInv, Protocol, SaveOp, Saving,
       Loading, Deleting, Untouched, Device
  <1>7. CachedInv'
    <2>1. key \in Device => Readable(key, Main(key))
      BY SaveLeaves DEF IInv, TypeOK, Protocol, KeepsInv, SaveOp, Device
    <2>2. \A d \in Device : Untouched(d)' => d = key \/ Untouched(d)
      BY DEF Untouched, IInv, Protocol
    <2> QED
      BY <1>0, <2>1, <2>2, SameFiles DEF IInv, TypeOK, CachedInv, Protocol, Device
  <1>8. KeepsInv'
    BY DEF IInv, KeepsInv
  <1>9. AgreeInv'
    BY DEF AgreeInv
  <1> QED
    BY <1>1, <1>2, <1>3, <1>4, <1>5, <1>6, <1>7, <1>8, <1>9 DEF IInv

\* The next dirty device is saved.
LEMMA CleanupNextKeeps ==
    ASSUME IInv, NEW d \in Device, CleanupNext(d)
    PROVE  IInv'
  <1> USE SysAssumption DEF CleanupNext, SaveBegins, Save, Begin
  <1>0. disk' = disk
    OBVIOUS
  <1>1. TypeOK'
    <2>1. cache[d] \in Value
      BY DEF IInv, TypeOK, KeepsInv
    <2> QED
      BY <2>1 DEF IInv, TypeOK, Content, Step, Device
  <1>2. Durable'
    BY <1>0, MoreMayBeFound DEF IInv, TypeOK
  <1>3. Protocol'
    BY DEF IInv, Protocol, Saving
  <1>4. SaveInv' /\ LoadInv'
    <2>1. d \in Key /\ cache[d] \in Value
      BY DEF IInv, TypeOK, KeepsInv, Device
    <2>2. Settled(d) \/ "none" \in may[d]
      BY <2>1 DEF IInv, SettledInv, Untouched
    <2>3. Loadable(d) \in may[d] /\ d # Sys
      BY DEF IInv, Durable, Device
    <2> QED
      BY <1>0, <2>1, <2>2, <2>3, SameFiles DEF IInv, TypeOK, Or, SaveInv, LoadInv, Saving
  <1>5. DeleteInv' /\ RestoreInv'
    BY DEF IInv, Protocol, DeleteInv, RestoreInv
  <1>6. SettledInv'
    BY <1>0, SameFiles DEF IInv, TypeOK, Protocol, SaveOp, Saving, Loading, Deleting,
       Untouched, Device, SettledInv, SaveInv, LoadInv, DeleteInv
  <1>7. CachedInv'
    BY <1>0, SameFiles DEF IInv, CachedInv, Untouched
  <1>8. KeepsInv'
    BY <1>0, SameFiles DEF IInv, TypeOK, Protocol, SaveOp, Saving, Loading, Deleting,
       Untouched, Device, KeepsInv, CachedInv, AgreeInv
  <1>9. AgreeInv'
    BY <1>0, SameFiles DEF IInv, AgreeInv, Untouched
  <1> QED
    BY <1>1, <1>2, <1>3, <1>4, <1>5, <1>6, <1>7, <1>8, <1>9 DEF IInv

\* The cache is dropped: nothing is left to agree with the files.
LEMMA CleanupEndKeeps ==
    ASSUME IInv, CleanupEnd
    PROVE  IInv'
  <1> USE SysAssumption DEF CleanupEnd, Clear, svars
  <1>0. disk' = disk
    OBVIOUS
  <1>1. TypeOK'
    BY DEF IInv, TypeOK
  <1>2. Durable'
    BY <1>0, SameFiles DEF IInv, Durable
  <1>3. Protocol'
    BY DEF IInv, Protocol
  <1>4. SaveInv' /\ LoadInv'
    BY DEF SaveInv, LoadInv, SaveOp
  <1>5. DeleteInv' /\ RestoreInv'
    BY DEF DeleteInv, RestoreInv
  <1>6. SettledInv'
    BY <1>0, SameFiles DEF IInv, SettledInv, Untouched
  <1>7. CachedInv'
    BY <1>0, SameFiles DEF IInv, CachedInv, Untouched
  <1>8. KeepsInv'
    BY DEF IInv, KeepsInv
  <1>9. AgreeInv'
    BY DEF AgreeInv
  <1> QED
    BY <1>1, <1>2, <1>3, <1>4, <1>5, <1>6, <1>7, <1>8, <1>9 DEF IInv

\* The cache is dropped without a save.
LEMMA CleanupDiscardKeeps ==
    ASSUME IInv, CleanupDiscard
    PROVE  IInv'
  <1> USE SysAssumption DEF CleanupDiscard, Ready, Clear, svars
  <1>0. disk' = disk
    OBVIOUS
  <1>1. TypeOK'
    BY DEF IInv, TypeOK
  <1>2. Durable'
    BY <1>0, SameFiles DEF IInv, Durable
  <1>3. Protocol'
    BY DEF IInv, Protocol
  <1>4. SaveInv' /\ LoadInv'
    BY DEF SaveInv, LoadInv, SaveOp
  <1>5. DeleteInv' /\ RestoreInv'
    BY DEF DeleteInv, RestoreInv
  <1>6. SettledInv'
    BY <1>0, SameFiles DEF IInv, SettledInv, Untouched
  <1>7. CachedInv'
    BY <1>0, SameFiles DEF IInv, CachedInv, Untouched
  <1>8. KeepsInv'
    BY DEF IInv, KeepsInv
  <1>9. AgreeInv'
    BY DEF AgreeInv
  <1> QED
    BY <1>1, <1>2, <1>3, <1>4, <1>5, <1>6, <1>7, <1>8, <1>9 DEF IInv

\* While the namespace is replaced a restart may find anything.
LEMMA RestoreBeginKeeps ==
    ASSUME IInv, RestoreBegin
    PROVE  IInv'
  <1> USE SysAssumption DEF RestoreBegin, Ready, Restore, Begin, Clear
  <1>0. disk' = disk
    OBVIOUS
  <1>1. TypeOK'
    BY DEF IInv, TypeOK, Content, Step, Device
  <1>2. Durable'
    <2>1. \A k \in Key : Loadable(k) \in Value \cup {"none", "torn"}
      BY Loads, Reading
    <2> QED
      BY <1>0, <2>1, SameFiles DEF Durable, Device
  <1>3. Protocol'
    BY DEF IInv, Protocol
  <1>4. SaveInv' /\ LoadInv'
    BY DEF SaveInv, LoadInv, SaveOp
  <1>5. DeleteInv' /\ RestoreInv'
    BY DEF DeleteInv, RestoreInv
  <1>6. SettledInv'
    BY <1>0, SameFiles DEF IInv, SettledInv, Untouched
  <1>7. CachedInv'
    BY <1>0, SameFiles DEF IInv, CachedInv, Untouched
  <1>8. KeepsInv'
    BY DEF IInv, KeepsInv
  <1>9. AgreeInv'
    BY DEF AgreeInv
  <1> QED
    BY <1>1, <1>2, <1>3, <1>4, <1>5, <1>6, <1>7, <1>8, <1>9 DEF IInv

\* Then it finds what the archive holds.
LEMMA RestoreEndKeeps ==
    ASSUME IInv, RestoreEnd
    PROVE  IInv'
  <1> USE SysAssumption DEF RestoreEnd, Idle
  <1>0. disk' = disk
    OBVIOUS
  <1>1. TypeOK'
    BY ArchiveAssumption, ZenonT(30) DEF IInv, TypeOK, Content, Step, Device
  <1>2. Durable'
    <2>1. \A k \in Key : Main(k) = Archive[k] /\ Bak(k) = "absent"
      BY DEF IInv, RestoreInv
    <2>2. \A k \in Key : Loadable(k) = IF Archive[k] = "absent" THEN "none" ELSE Archive[k]
      BY <2>1, Loads, Reading, ArchiveAssumption
    <2> QED
      BY <1>0, <2>2, SameFiles DEF Durable, Device
  <1>3. Protocol'
    BY DEF IInv, Protocol
  <1>4. SaveInv' /\ LoadInv'
    BY DEF IInv, Protocol, SaveInv, LoadInv, SaveOp
  <1>5. DeleteInv' /\ RestoreInv'
    BY DEF IInv, Protocol, DeleteInv, RestoreInv
  <1>6. SettledInv'
    BY <1>0, SameFiles DEF IInv, SettledInv, Untouched
  <1>7. CachedInv'
    BY <1>0, SameFiles DEF IInv, CachedInv, Untouched
  <1>8. KeepsInv'
    BY <1>0, SameFiles DEF IInv, KeepsInv, Protocol
  <1>9. AgreeInv'
    BY <1>0, SameFiles DEF IInv, AgreeInv, Untouched
  <1> QED
    BY <1>1, <1>2, <1>3, <1>4, <1>5, <1>6, <1>7, <1>8, <1>9 DEF IInv

\* The process dies: the files stay as they are, and may be found as they are.
LEMMA CrashKeeps ==
    ASSUME IInv, Crash
    PROVE  IInv'
  <1> USE SysAssumption DEF Crash, Idle, Clear
  <1>0. disk' = disk
    OBVIOUS
  <1>1. TypeOK'
    <2>1. crashes' \in Nat
      BY SMT DEF IInv, TypeOK
    <2> QED
      BY <2>1 DEF IInv, TypeOK, Content, Step, Device
  <1>2. Durable'
    BY <1>0, SameFiles DEF IInv, Durable
  <1>3. Protocol'
    BY DEF IInv, Protocol
  <1>4. SaveInv' /\ LoadInv'
    BY DEF SaveInv, LoadInv, SaveOp
  <1>5. DeleteInv' /\ RestoreInv'
    BY DEF DeleteInv, RestoreInv
  <1>6. SettledInv'
    BY <1>0, SameFiles DEF IInv, SettledInv, Untouched
  <1>7. CachedInv'
    BY <1>0, SameFiles DEF IInv, CachedInv, Untouched
  <1>8. KeepsInv'
    BY DEF IInv, KeepsInv
  <1>9. AgreeInv'
    BY DEF AgreeInv
  <1> QED
    BY <1>1, <1>2, <1>3, <1>4, <1>5, <1>6, <1>7, <1>8, <1>9 DEF IInv

-----------------------------------------------------------------------------
(* The steps of the storage calls.                                         *)

\* The faults allowed for: a write that fails or is short, not a rename or a copy.
OnlyWritesFail == Faults \subseteq {"write"}

\* A step of a storage call on one key leaves the database, and the files of the other
\* keys, alone.
Local ==
    /\ UNCHANGED <<dvars, hvars>> /\ key' = key
    /\ at # "idle" /\ at' # "idle"
    /\ at \notin {"wipe", "fill"} /\ at' \notin {"wipe", "fill"}
    /\ \A k \in Key \ {key} : disk'[k] = disk[k]

\* Nothing that is said of the files of another key changes.
LEMMA OtherKeys ==
    ASSUME Local, NEW k \in Key \ {key}
    PROVE  /\ Loadable(k)' = Loadable(k)
           /\ Settled(k)' = Settled(k)
           /\ Main(k)' = Main(k)
           /\ Bak(k)' = Bak(k)
  BY DEF Local, Loadable, Settled, Main, Bak, Readable, Present, Accepts

\* So only what is said of its own key is to be shown.
LEMMA LocalStep ==
    ASSUME IInv, Local, TypeOK', Protocol', SaveInv', LoadInv', DeleteInv', KeepsInv',
           phase # "restore", Loadable(key)' \in Or(key, may[key])
    PROVE  IInv'
  <1>1. \A k \in Key : Loadable(k)' \in Or(k, may[k])
    <2>1. \A k \in Key \ {key} : Loadable(k)' \in Or(k, may[k])
      BY OtherKeys, SysAssumption DEF IInv, Durable, Or, Device
    <2> QED
      BY <2>1 DEF Local
  <1>2. Durable'
    BY <1>1, SysAssumption DEF Local, hvars, Durable, Or, Device
  <1>3. \A k \in Key : Untouched(k)' => k # key /\ Untouched(k)
    BY DEF IInv, Protocol, Untouched, Local, dvars
  <1>4. SettledInv'
    BY <1>3, OtherKeys DEF IInv, SettledInv, Local, hvars
  <1>5. CachedInv'
    BY <1>3, OtherKeys DEF IInv, CachedInv, Local, dvars, hvars, Device
  <1>6. AgreeInv'
    BY <1>3, OtherKeys DEF IInv, AgreeInv, Local, dvars, hvars, Device
  <1>7. RestoreInv'
    BY DEF RestoreInv, Local, dvars
  <1> QED
    BY <1>2, <1>4, <1>5, <1>6, <1>7 DEF IInv

\* One file of the call's key changes, or one is renamed.
LEMMA OneFile ==
    ASSUME TypeOK, NEW f \in File, NEW g \in File, NEW c \in Content
    PROVE  /\ With(f, c) \in [Key -> [File -> Content]]
           /\ \A k \in Key \ {key} : With(f, c)[k] = disk[k]
           /\ With(f, c)[key][f] = c
           /\ g # f => With(f, c)[key][g] = disk[key][g]
  BY DEF TypeOK, With

\* A rename within the files of the call's key.
LEMMA Renaming ==
    ASSUME TypeOK, NEW f \in File, NEW g \in File, f # g
    PROVE  /\ Renamed(f, g) \in [Key -> [File -> Content]]
           /\ \A k \in Key \ {key} : Renamed(f, g)[k] = disk[k]
           /\ Renamed(f, g)[key][f] = "absent"
           /\ Renamed(f, g)[key][g] = disk[key][f]
           /\ \A h \in File \ {f, g} : Renamed(f, g)[key][h] = disk[key][h]
  BY SMT DEF TypeOK, Renamed, Content

\* While neither file that a load reads changes, it finds the same.
LEMMA SameReading ==
    ASSUME TypeOK, disk'[key]["main"] = disk[key]["main"], disk'[key]["bak"] = disk[key]["bak"], key' = key
    PROVE  /\ Loadable(key)' = Loadable(key)
           /\ Settled(key)' = Settled(key)
           /\ Main(key)' = Main(key)
           /\ Bak(key)' = Bak(key)
  BY DEF Loadable, Settled, Main, Bak, Readable, Present, Accepts

\* What a load would find after the step.
LEMMA LoadsNext ==
    ASSUME NEW k \in Key
    PROVE  /\ Readable(k, Main(k)') => Loadable(k)' = Main(k)'
           /\ ~Readable(k, Main(k)') /\ Readable(k, Bak(k)') => Loadable(k)' = Bak(k)'
           /\ ~Readable(k, Main(k)') /\ ~Readable(k, Bak(k)') => Loadable(k)' = "none"
  BY DEF Loadable, Readable, Main, Bak, Present, Accepts

\* The temporary file is opened or written, or that fails.
LEMMA SaveWriteKeeps ==
    ASSUME IInv, OnlyWritesFail, SaveOpen \/ SaveWrite, UNCHANGED <<dvars, hvars>>
    PROVE  IInv'
  <1>0. at \in {"open", "write"} /\ key' = key /\ arg' = arg /\ key \in Key
    BY DEF SaveOpen, SaveWrite, Go, Finish, IInv, TypeOK
  <1>1. op \in SaveOp /\ phase \in {"up", "closing"} /\ op # "remove"
    BY <1>0 DEF IInv, TypeOK, Protocol, SaveOp, Loading, Deleting
  <1>2. arg \in Value /\ arg \in may[key]
    BY <1>0, <1>1 DEF IInv, SaveInv, Saving
  <1>3. /\ disk' \in [Key -> [File -> Content]]
        /\ \A k \in Key \ {key} : disk'[k] = disk[k]
        /\ disk'[key]["main"] = disk[key]["main"] /\ disk'[key]["bak"] = disk[key]["bak"]
    <2>1. CASE disk' = disk
      BY <2>1 DEF IInv, TypeOK
    <2>2. CASE \E c \in Content : disk' = With("tmp", c)
      BY <2>2, OneFile, SMT DEF IInv, File
    <2> QED
      BY <2>1, <2>2, <1>2 DEF SaveOpen, SaveWrite, Go, Finish, Content
  <1>4. \/ at' \in {"write", "swap"} /\ ok' = ok
        \/ at' = "done" /\ ok' = FALSE
    BY DEF SaveOpen, SaveWrite, Go, Finish
  <1>5. at' = "swap" => disk'[key]["tmp"] = arg
    <2>1. at' = "swap" => disk' = With("tmp", arg)
      BY DEF SaveOpen, SaveWrite, Go, Finish
    <2> QED
      BY <1>2, <2>1, OneFile, SMT DEF IInv, File, Content
  <1>6. Local
    BY <1>0, <1>3, <1>4 DEF Local
  <1>7. TypeOK'
    BY <1>0, <1>3, <1>4, ZenonT(30) DEF IInv, TypeOK, Step, dvars, hvars
  <1>8. Protocol'
    BY <1>0, <1>1, <1>4 DEF IInv, Protocol, Saving, Loading, Deleting, SaveOp, dvars
  <1>9. /\ Loadable(key)' = Loadable(key) /\ Settled(key)' = Settled(key)
        /\ Main(key)' = Main(key) /\ Bak(key)' = Bak(key)
    BY <1>0, <1>3, SameReading DEF IInv
  <1>10. SaveInv'
    BY <1>0, <1>1, <1>2, <1>4, <1>5, <1>9 DEF IInv, SaveInv, Saving, Or, dvars, hvars
  <1>11. LoadInv' /\ DeleteInv'
    BY <1>1 DEF LoadInv, DeleteInv, dvars
  <1>12. KeepsInv'
    BY <1>0, <1>4, <1>9 DEF IInv, KeepsInv, Saving, dvars, hvars
  <1>13. Loadable(key)' \in Or(key, may[key])
    BY <1>0, <1>1, <1>9 DEF IInv, SaveInv, Saving
  <1> QED
    BY <1>1, <1>6, <1>7, <1>8, <1>10, <1>11, <1>12, <1>13, LocalStep

\* The regular file becomes the backup.
LEMMA SwapBackupKeeps ==
    ASSUME IInv, OnlyWritesFail, SwapBackup, UNCHANGED <<dvars, hvars>>
    PROVE  IInv'
  <1>0. at = "swap" /\ at' = "put" /\ key' = key /\ arg' = arg /\ ok' = ok /\ key \in Key
    BY DEF SwapBackup, Go, IInv, TypeOK
  <1>1. op \in SaveOp /\ phase \in {"up", "closing"} /\ op # "remove"
    BY <1>0 DEF IInv, TypeOK, Protocol, SaveOp, Loading, Deleting
  <1>2. /\ arg \in Value /\ arg \in may[key] /\ disk[key]["tmp"] = arg
        /\ Loadable(key) \in Or(key, may[key])
        /\ Settled(key) \/ "none" \in may[key]
    BY <1>0, <1>1 DEF IInv, SaveInv, Saving
  <1>3. /\ disk' \in [Key -> [File -> Content]]
        /\ \A k \in Key \ {key} : disk'[k] = disk[k]
        /\ disk'[key]["tmp"] = arg
        /\ Main(key)' = "absent"
        /\ Bak(key)' = Main(key)
    <2>1. CASE Main(key) # "absent" /\ disk' = Renamed("main", "bak")
      BY <1>0, <1>2, <2>1, Renaming DEF IInv, File, Main, Bak
    <2>2. CASE Main(key) = "absent" /\ disk' = With("bak", "absent")
      BY <1>0, <1>2, <2>2, OneFile, SMT DEF IInv, File, Main, Bak, Content
    <2> QED
      BY <2>1, <2>2 DEF SwapBackup, Go, OnlyWritesFail, Main
  <1>4. Local
    BY <1>0, <1>3 DEF Local
  <1>5. TypeOK'
    BY <1>0, <1>3 DEF IInv, TypeOK, Step, dvars, hvars
  <1>6. Protocol'
    BY <1>0, <1>1 DEF IInv, Protocol, Saving, Loading, Deleting, SaveOp, dvars
  <1>7. Loadable(key)' \in Or(key, may[key])
    <2>1. CASE Readable(key, Main(key))
      BY <1>0, <1>2, <1>3, <2>1, Loads, LoadsNext, Reading
    <2>2. CASE ~Readable(key, Main(key))
      <3>1. Loadable(key)' = "none"
        BY <1>0, <1>3, <2>2, LoadsNext, Reading
      <3>2. ~Readable(key, Bak(key)) => Loadable(key) = "none"
        BY <1>0, <2>2, Loads
      <3> QED
        BY <1>2, <2>2, <3>1, <3>2 DEF Settled, Or
    <2> QED
      BY <2>1, <2>2
  <1>8. SaveInv'
    BY <1>0, <1>2, <1>3, <1>7 DEF SaveInv, Saving, Or, dvars, hvars
  <1>9. LoadInv' /\ DeleteInv'
    BY <1>1 DEF LoadInv, DeleteInv, dvars
  <1>10. KeepsInv'
    BY <1>0 DEF IInv, KeepsInv, Saving, dvars, hvars
  <1> QED
    BY <1>1, <1>4, <1>5, <1>6, <1>7, <1>8, <1>9, <1>10, LocalStep

\* The temporary file becomes the regular one.
LEMMA SwapMainKeeps ==
    ASSUME IInv, OnlyWritesFail, SwapMain, UNCHANGED <<dvars, hvars>>
    PROVE  IInv'
  <1>0. at = "put" /\ at' = "done" /\ key' = key /\ arg' = arg /\ ok' = TRUE /\ key \in Key
    BY DEF SwapMain, Finish, IInv, TypeOK
  <1>1. op \in SaveOp /\ phase \in {"up", "closing"} /\ op # "remove"
    BY <1>0 DEF IInv, TypeOK, Protocol, SaveOp, Loading, Deleting
  <1>2. arg \in Value /\ arg \in may[key] /\ disk[key]["tmp"] = arg
    BY <1>0, <1>1 DEF IInv, SaveInv, Saving
  <1>3. /\ disk' \in [Key -> [File -> Content]]
        /\ \A k \in Key \ {key} : disk'[k] = disk[k]
        /\ Main(key)' = arg
    <2>1. disk' = Renamed("tmp", "main")
      BY DEF SwapMain, Finish, OnlyWritesFail
    <2> QED
      BY <1>0, <1>2, <2>1, Renaming DEF IInv, File, Main
  <1>4. Local
    BY <1>0, <1>3 DEF Local
  <1>5. TypeOK'
    BY <1>0, <1>3 DEF IInv, TypeOK, Step, dvars, hvars
  <1>6. Protocol'
    BY <1>0, <1>1 DEF IInv, Protocol, Saving, Loading, Deleting, SaveOp, dvars
  <1>7. Loadable(key)' \in Or(key, may[key])
    BY <1>0, <1>2, <1>3, LoadsNext, Reading DEF Or
  <1>8. SaveInv'
    BY <1>0, <1>2, <1>3 DEF SaveInv, Saving
  <1>9. LoadInv' /\ DeleteInv'
    BY <1>1 DEF LoadInv, DeleteInv, dvars
  <1>10. KeepsInv'
    BY <1>0 DEF IInv, KeepsInv, Saving, dvars, hvars
  <1> QED
    BY <1>1, <1>4, <1>5, <1>6, <1>7, <1>8, <1>9, <1>10, LocalStep

-----------------------------------------------------------------------------
\* A step of a load: what is to be shown of it.
LEMMA LoadStep ==
    ASSUME IInv, UNCHANGED <<dvars, hvars>>, key' = key,
           at \in Loading, at' \in Loading \cup {"done"},
           disk' \in [Key -> [File -> Content]], \A k \in Key \ {key} : disk'[k] = disk[k],
           arg' \in Content, ok' \in BOOLEAN,
           LoadInv', Loadable(key)' \in Or(key, may[key])
    PROVE  IInv'
  <1>1. op = "none" /\ phase \in {"sys", "devices"}
    BY DEF IInv, TypeOK, Protocol, Saving, Loading, Deleting
  <1>2. Local
    BY DEF Local, Loading
  <1>3. TypeOK'
    BY SMT DEF IInv, TypeOK, Step, Loading, dvars, hvars
  <1>4. Protocol'
    BY <1>1 DEF IInv, Protocol, Loading, dvars
  <1>5. SaveInv' /\ DeleteInv'
    BY <1>1 DEF SaveInv, DeleteInv, SaveOp, dvars
  <1>6. KeepsInv'
    BY <1>1 DEF IInv, KeepsInv, dvars, hvars
  <1> QED
    BY <1>1, <1>2, <1>3, <1>4, <1>5, <1>6, LocalStep

\* In a load, what it finds is what it found before.
LEMMA LoadingPhase ==
    ASSUME IInv, at \in Loading
    PROVE  /\ op = "none" /\ phase \in {"sys", "devices"}
           /\ key \in Key /\ arg \in Content /\ ok \in BOOLEAN
           /\ disk \in [Key -> [File -> Content]]
           /\ Main(key) \in Content /\ Bak(key) \in Content
           /\ Loadable(key) \in Or(key, may[key])
  BY SysAssumption, SMT DEF IInv, TypeOK, Protocol, Saving, Loading, Deleting, Durable,
     Device, Or, Main, Bak, File

\* The load reads the regular file, or goes on to repair it.
LEMMA LoadMainKeeps ==
    ASSUME IInv, LoadMain, UNCHANGED <<dvars, hvars>>
    PROVE  IInv'
  <1>0. at = "read" /\ at \in Loading /\ key' = key /\ disk' = disk
    BY DEF LoadMain, Go, Finish, Loading
  <1>1. /\ Loadable(key)' = Loadable(key)
        /\ Main(key)' = Main(key) /\ Bak(key)' = Bak(key)
    BY <1>0, SameFiles
  <1>2. /\ at' \in Loading \cup {"done"} /\ arg' \in Content /\ ok' \in BOOLEAN
        /\ at' = "bad" => Present(Main(key)) /\ ~Accepts(key, Main(key))
        /\ at' = "backup" => ~Present(Main(key))
        /\ at' \notin {"truncate", "copy"}
        /\ at' = "done" /\ ok' => Readable(key, Main(key)) /\ arg' = Main(key)
        /\ at' = "done" /\ ~ok' => ~Readable(key, Main(key)) /\ ~Readable(key, Bak(key))
    BY <1>0, LoadingPhase DEF LoadMain, Go, Finish, Loading, Readable, Main, Bak
  <1>3. LoadInv'
    BY <1>0, <1>1, <1>2 DEF LoadInv, Readable
  <1> QED
    BY <1>0, <1>1, <1>2, <1>3, LoadingPhase, LoadStep

\* A regular file that cannot be parsed is not what a load finds: moving it loses nothing.
LEMMA LoadMoveBadKeeps ==
    ASSUME IInv, LoadMoveBad, UNCHANGED <<dvars, hvars>>
    PROVE  IInv'
  <1>0. /\ at = "bad" /\ at \in Loading /\ at' = "backup" /\ at' \in Loading
        /\ key' = key /\ arg' = arg /\ ok' = ok
    BY DEF LoadMoveBad, Go, Loading
  <1>1. ~Readable(key, Main(key))
    BY <1>0, LoadingPhase DEF IInv, LoadInv, Readable
  <1>2. /\ disk' \in [Key -> [File -> Content]]
        /\ \A k \in Key \ {key} : disk'[k] = disk[k]
        /\ Main(key)' = "absent" /\ Bak(key)' = Bak(key)
    BY <1>0, Renaming, SMT DEF LoadMoveBad, Go, IInv, File, Main, Bak
  <1>3. Loadable(key)' = Loadable(key)
    BY <1>0, <1>1, <1>2, LoadingPhase, Loads, LoadsNext, Reading
  <1>4. LoadInv'
    BY <1>0, <1>2, LoadingPhase, Reading DEF LoadInv
  <1> QED
    BY <1>0, <1>2, <1>3, <1>4, LoadingPhase, LoadStep

\* The backup is read and the call remembers it.
LEMMA LoadBackupKeeps ==
    ASSUME IInv, LoadBackup, UNCHANGED <<dvars, hvars>>
    PROVE  IInv'
  <1>0. at = "backup" /\ at \in Loading /\ key' = key /\ disk' = disk
    BY DEF LoadBackup, Finish, Loading
  <1>1. ~Readable(key, Main(key))
    BY <1>0, LoadingPhase DEF IInv, LoadInv
  <1>2. /\ Loadable(key)' = Loadable(key)
        /\ Main(key)' = Main(key) /\ Bak(key)' = Bak(key)
    BY <1>0, SameFiles
  <1>3. \/ at' = "truncate" /\ Readable(key, Bak(key)) /\ arg' = Bak(key) /\ ok' = ok
        \/ at' = "done" /\ ok' = FALSE /\ ~Readable(key, Bak(key)) /\ arg' = arg
    BY DEF LoadBackup, Finish, Readable, Bak
  <1>4. at' \in Loading \cup {"done"} /\ arg' \in Content /\ ok' \in BOOLEAN
    BY <1>0, <1>3, LoadingPhase DEF Loading
  <1>5. LoadInv'
    BY <1>0, <1>1, <1>2, <1>3 DEF LoadInv
  <1> QED
    BY <1>0, <1>2, <1>4, <1>5, LoadingPhase, LoadStep

\* The regular file is created again, empty: the backup is still what a load finds.
LEMMA CopyOpenKeeps ==
    ASSUME IInv, OnlyWritesFail, CopyOpen, UNCHANGED <<dvars, hvars>>
    PROVE  IInv'
  <1>0. /\ at = "truncate" /\ at \in Loading /\ at' = "copy" /\ at' \in Loading
        /\ key' = key /\ arg' = arg /\ ok' = ok
        /\ disk' = With("main", "empty")
    BY DEF CopyOpen, Go, OnlyWritesFail, Loading
  <1>1. ~Readable(key, Main(key)) /\ Readable(key, Bak(key)) /\ arg = Bak(key)
    BY <1>0, LoadingPhase DEF IInv, LoadInv
  <1>2. /\ disk' \in [Key -> [File -> Content]]
        /\ \A k \in Key \ {key} : disk'[k] = disk[k]
        /\ Main(key)' = "empty" /\ Bak(key)' = Bak(key)
    BY <1>0, OneFile, SMT DEF IInv, File, Main, Bak, Content
  <1>3. Loadable(key)' = Loadable(key)
    BY <1>0, <1>1, <1>2, LoadingPhase, Loads, LoadsNext, Reading
  <1>4. Bak(key) \in Or(key, may[key])
    BY <1>0, <1>1, LoadingPhase, Loads
  <1>5. LoadInv'
    BY <1>0, <1>1, <1>2, <1>4 DEF LoadInv, Or, hvars
  <1> QED
    BY <1>0, <1>2, <1>3, <1>5, LoadingPhase, LoadStep

\* Torn or complete, the copy never hides the backup before it is whole.
LEMMA CopyWriteKeeps ==
    ASSUME IInv, OnlyWritesFail, CopyWrite, UNCHANGED <<dvars, hvars>>
    PROVE  IInv'
  <1>0. at = "copy" /\ at \in Loading /\ key' = key /\ arg' = arg
    BY DEF CopyWrite, Go, Finish, Loading
  <1>1. Readable(key, Bak(key)) /\ arg = Bak(key) /\ Main(key) \in {"empty", "torn"} /\ arg \in Or(key, may[key])
    BY <1>0, LoadingPhase DEF IInv, LoadInv
  <1>2. CASE at' = "done" /\ ok' = TRUE /\ disk' = With("main", Bak(key))
    <2>1. /\ disk' \in [Key -> [File -> Content]]
          /\ \A k \in Key \ {key} : disk'[k] = disk[k]
          /\ Main(key)' = Bak(key)
      BY <1>0, <1>2, OneFile, LoadingPhase, SMT DEF IInv, File, Main, Content
    <2>2. Loadable(key)' \in Or(key, may[key])
      BY <1>0, <1>1, <2>1, LoadingPhase, LoadsNext
    <2>3. LoadInv'
      BY <1>0, <1>1, <1>2, <2>1 DEF LoadInv, Or, hvars
    <2> QED
      BY <1>0, <1>2, <2>1, <2>2, <2>3, LoadingPhase, LoadStep
  <1>3. CASE at' = "copy" /\ ok' = ok /\ disk' = With("main", "torn")
    <2>1. /\ disk' \in [Key -> [File -> Content]]
          /\ \A k \in Key \ {key} : disk'[k] = disk[k]
          /\ Main(key)' = "torn" /\ Bak(key)' = Bak(key)
      BY <1>0, <1>3, OneFile, LoadingPhase, SMT DEF IInv, File, Main, Bak, Content
    <2>2. Loadable(key)' \in Or(key, may[key])
      <3>1. Loadable(key)' \in {Bak(key), "torn"}
        BY <1>0, <1>1, <2>1, LoadingPhase, LoadsNext
      <3>2. key # Sys => Loadable(key)' = Bak(key)
        BY <1>0, <1>1, <2>1, LoadingPhase, LoadsNext, Reading, ValueAssumption
      <3> QED
        BY <1>1, <3>1, <3>2 DEF Or
    <2>3. LoadInv'
      BY <1>0, <1>1, <1>3, <2>1 DEF LoadInv, Or, hvars
    <2> QED
      BY <1>0, <1>3, <2>1, <2>2, <2>3, LoadingPhase, LoadStep
  <1> QED
    BY <1>2, <1>3 DEF CopyWrite, Go, Finish, OnlyWritesFail, Bak

-----------------------------------------------------------------------------
\* A delete is under way only for a removal.
LEMMA DeletingPhase ==
    ASSUME IInv, at \in Deleting
    PROVE  /\ op = "remove" /\ phase = "up" /\ key \in Key /\ key # Sys
           /\ arg \in Content /\ ok \in BOOLEAN
  BY DEF IInv, TypeOK, Protocol, Saving, Loading, Deleting

\* storageDelete removes the regular file, then the others.
LEMMA DeleteKeeps ==
    ASSUME IInv, DeleteMain \/ DeleteRest, UNCHANGED <<dvars, hvars>>
    PROVE  IInv'
  <1>0. /\ at \in Deleting /\ key' = key /\ arg' = arg
        /\ \/ at = "unmain" /\ at' = "unbak" /\ disk' = With("main", "absent")
                          /\ ok' = (Main(key) # "absent")
           \/ at = "unbak" /\ at' = "untmp" /\ disk' = With("bak", "absent") /\ ok' = ok
           \/ at = "untmp" /\ at' = "unbad" /\ disk' = With("tmp", "absent") /\ ok' = ok
           \/ at = "unbad" /\ at' = "done" /\ disk' = With("bad", "absent") /\ ok' = ok
    BY DEF DeleteMain, DeleteRest, Go, Finish, Deleting, Main
  <1>1. /\ op = "remove" /\ phase = "up" /\ key \in Key /\ key # Sys
        /\ arg \in Content /\ ok \in BOOLEAN
    BY <1>0, DeletingPhase
  <1>2. /\ disk' \in [Key -> [File -> Content]]
        /\ \A k \in Key \ {key} : disk'[k] = disk[k]
    BY <1>0, OneFile, SMT DEF IInv, File, Content
  <1>3. /\ at = "unmain" => Main(key)' = "absent" /\ Bak(key)' = Bak(key)
        /\ at = "unbak" => Main(key)' = Main(key) /\ Bak(key)' = "absent"
        /\ at \in {"untmp", "unbad"} => Main(key)' = Main(key) /\ Bak(key)' = Bak(key)
    BY <1>0, OneFile, SMT DEF IInv, File, Content, Main, Bak
  <1>4. /\ "none" \in may[key] /\ Bak(key) \in may[key] \cup {"absent"}
        /\ at = "unmain" => Readable(key, Main(key))
        /\ at # "unmain" => Main(key) = "absent" /\ ok
        /\ at \in {"untmp", "unbad"} => Bak(key) = "absent"
    BY <1>0, <1>1 DEF IInv, DeleteInv
  <1>5. at = "unmain" => ok' = TRUE
    BY <1>0, <1>1, <1>4, Reading
  <1>6. ok' \in BOOLEAN /\ ok'
    BY <1>0, <1>1, <1>4, <1>5
  <1>7. Main(key)' = "absent" /\ Bak(key)' \in {Bak(key), "absent"}
    BY <1>0, <1>3, <1>4 DEF Deleting
  <1>8. DeleteInv'
    BY <1>0, <1>3, <1>4, <1>6, <1>7 DEF DeleteInv, Deleting, dvars, hvars
  <1>9. Loadable(key)' \in Or(key, may[key])
    BY <1>0, <1>1, <1>4, <1>7, LoadsNext, Reading DEF Or
  <1>10. Local
    BY <1>0, <1>2 DEF Local, Deleting
  <1>11. TypeOK'
    BY <1>0, <1>1, <1>2, <1>6 DEF IInv, TypeOK, Step, dvars, hvars
  <1>12. Protocol'
    BY <1>0, <1>1 DEF Protocol, Deleting, dvars
  <1>13. SaveInv' /\ LoadInv'
    BY <1>1 DEF SaveInv, LoadInv, SaveOp, dvars
  <1>14. KeepsInv'
    BY <1>1 DEF IInv, KeepsInv, dvars, hvars
  <1> QED
    BY <1>1, <1>8, <1>9, <1>10, <1>11, <1>12, <1>13, <1>14, LocalStep

\* storageRestoreNamespace empties the directory, then fills it.
LEMMA RestoreKeeps ==
    ASSUME IInv, WipeFile \/ FillFile, UNCHANGED <<dvars, hvars>>
    PROVE  IInv'
  <1>0. at \in {"wipe", "fill"} /\ at' \in {"wipe", "fill", "done"} /\ key' = key /\ arg' = arg /\ ok' \in BOOLEAN
    BY DEF WipeFile, FillFile, Go, Finish, IInv, TypeOK
  <1>1. op = "none" /\ phase = "restore" /\ \A k \in Key : may[k] = Value \cup {"none", "torn"}
    BY <1>0 DEF IInv, TypeOK, Protocol, RestoreInv, Saving, Loading, Deleting
  <1>2. disk' \in [Key -> [File -> Content]]
    <2>1. \A k \in Key, f \in File, c \in Content :
              [disk EXCEPT ![k][f] = c] \in [Key -> [File -> Content]]
      BY DEF IInv, TypeOK
    <2>2. \A k \in Key : Archive[k] \in Content
      BY ArchiveAssumption DEF Content
    <2>3. disk \in [Key -> [File -> Content]] /\ "main" \in File /\ "torn" \in Content /\ "absent" \in Content
      BY DEF IInv, TypeOK, File, Content
    <2>4. CASE WipeFile
      BY <2>1, <2>3, <2>4, SMT DEF WipeFile, Go
    <2>5. CASE FillFile
      <3>1. \A k \in Key : \A c \in {"torn", Archive[k]} : c \in Content
        BY <2>2, <2>3
      <3>2. \/ disk' = disk
            \/ \E k \in Key : \E c \in {"torn", Archive[k]} : disk' = [disk EXCEPT ![k]["main"] = c]
        BY <2>5 DEF FillFile, Go, Finish
      <3>3. ASSUME NEW k \in Key, NEW c \in {"torn", Archive[k]}, disk' = [disk EXCEPT ![k]["main"] = c]
            PROVE  disk' \in [Key -> [File -> Content]]
        BY <2>1, <2>3, <3>1, <3>3
      <3> QED
        BY <2>3, <3>2, <3>3
    <2> QED
      BY <2>4, <2>5
  <1>3. TypeOK'
    BY <1>0, <1>2 DEF IInv, TypeOK, Step, dvars, hvars
  <1>4. Protocol'
    BY <1>0, <1>1 DEF Protocol, dvars
  <1>5. \A k \in Key : Loadable(k)' \in may[k]
    BY <1>1, LoadsNext, Reading
  <1>6. Durable'
    BY <1>5, SysAssumption DEF Durable, Device, hvars
  <1>7. SaveInv' /\ LoadInv' /\ DeleteInv'
    BY <1>1 DEF SaveInv, LoadInv, DeleteInv, SaveOp, dvars
  <1>8. RestoreInv'
    <2>1. at' = "fill" => \A k \in Key : Bak(k)' = "absent"
      <3>1. CASE at = "wipe" /\ at' = "fill"
        BY <3>1 DEF WipeFile, FillFile, Go, Finish, Bak, File
      <3>2. CASE at = "fill" /\ at' = "fill"
        <4>1. \A k \in Key : disk[k]["bak"] = "absent"
          BY <1>1, <3>2 DEF IInv, RestoreInv, Bak
        <4>2. PICK k \in Key : \E c \in {"torn", Archive[k]} : disk' = [disk EXCEPT ![k]["main"] = c]
          BY <3>2 DEF WipeFile, FillFile, Go, Finish
        <4> QED
          BY <4>1, <4>2 DEF Bak, IInv, TypeOK, File
      <3> QED
        BY <1>0, <3>1, <3>2
    <2>2. at' = "done" => \A k \in Key : Bak(k)' = "absent" /\ Main(k)' = Archive[k]
      BY <1>1 DEF WipeFile, FillFile, Go, Finish, Bak, Main, IInv, RestoreInv
    <2> QED
      BY <1>1, <2>1, <2>2 DEF RestoreInv, dvars, hvars
  <1>9. SettledInv' /\ AgreeInv'
    BY <1>1 DEF SettledInv, AgreeInv, Untouched, dvars
  <1>10. CachedInv'
    BY <1>1 DEF IInv, CachedInv, Untouched, dvars, hvars
  <1>11. KeepsInv'
    BY <1>1 DEF IInv, KeepsInv, dvars, hvars
  <1> QED
    BY <1>3, <1>4, <1>6, <1>7, <1>8, <1>9, <1>10, <1>11 DEF IInv

\* Every step of a storage call keeps the invariant.
LEMMA StoringKeeps ==
    ASSUME IInv, OnlyWritesFail, Storing
    PROVE  IInv'
  BY SaveWriteKeeps, SwapBackupKeeps, SwapMainKeeps, LoadMainKeeps, LoadMoveBadKeeps,
     LoadBackupKeeps, CopyOpenKeeps, CopyWriteKeeps, DeleteKeeps, RestoreKeeps
  DEF Storing, StorageStep

-----------------------------------------------------------------------------
\* The invariant holds of an empty storage.
LEMMA InitKeeps ==
    ASSUME Init
    PROVE  IInv
  <1> USE SysAssumption DEF Init, StorageInit
  <1>1. TypeOK
    BY DEF TypeOK, Content, File, Step, Device
  <1>2. \A k \in Key : Main(k) = "absent" /\ Bak(k) = "absent"
    BY DEF Main, Bak, File
  <1>3. \A k \in Key : Loadable(k) = "none"
    BY <1>2, Loads, Reading
  <1>4. Durable
    BY <1>3 DEF Durable, Device
  <1>5. Protocol /\ SaveInv /\ LoadInv /\ DeleteInv /\ RestoreInv
    BY DEF Protocol, SaveInv, LoadInv, DeleteInv, RestoreInv, SaveOp
  <1>6. SettledInv /\ CachedInv /\ KeepsInv /\ AgreeInv
    BY DEF SettledInv, CachedInv, KeepsInv, AgreeInv, Untouched
  <1> QED
    BY <1>1, <1>4, <1>5, <1>6 DEF IInv

\* Every step of the system keeps the invariant, when only writes fail.
LEMMA NextKeeps ==
    ASSUME IInv, OnlyWritesFail, [Next]_vars
    PROVE  IInv'
  <1>1. CASE UNCHANGED vars
    <2>1. disk' = disk
      BY <1>1 DEF vars, svars
    <2> USE <1>1, <2>1, SameFiles DEF vars, svars, dvars, hvars
    <2>2. TypeOK' /\ Protocol'
      BY DEF IInv, TypeOK, Protocol
    <2>3. Durable' /\ SettledInv'
      BY DEF IInv, Durable, SettledInv, Untouched
    <2>4. SaveInv' /\ LoadInv'
      BY DEF IInv, SaveInv, LoadInv, Or
    <2>5. DeleteInv' /\ RestoreInv'
      BY DEF IInv, DeleteInv, RestoreInv
    <2>6. CachedInv' /\ KeepsInv' /\ AgreeInv'
      BY DEF IInv, CachedInv, KeepsInv, AgreeInv, Untouched
    <2> QED
      BY <2>2, <2>3, <2>4, <2>5, <2>6 DEF IInv
  <1>2. CASE Storing
    BY <1>2, StoringKeeps
  <1>3. CASE Initialize \/ OpenExisting \/ OpenEmpty \/ LoadedDevice \/ Initialized \/ Crash
    BY <1>3, InitializeKeeps, OpenExistingKeeps, OpenEmptyKeeps, LoadedDeviceKeeps, InitializedKeeps,
       CrashKeeps
  <1>4. CASE AddedDevice \/ SavedDevice \/ AddedEndpoint \/ SavedProperties \/ RemovedDevice
    BY <1>4, AddedDeviceKeeps, SavedDeviceKeeps, AddedEndpointKeeps, SavedPropertiesKeeps,
       RemovedDeviceKeeps
  <1>5. CASE CleanupBegin \/ CleanupSaved \/ CleanupEnd \/ CleanupDiscard \/ RestoreBegin \/ RestoreEnd
    BY <1>5, CleanupBeginKeeps, CleanupSavedKeeps, CleanupEndKeeps, CleanupDiscardKeeps,
       RestoreBeginKeeps, RestoreEndKeeps
  <1>6. CASE \E v \in Value : CreateProperties(v) \/ SetSystemProperty(v)
    BY <1>6, CreatePropertiesKeeps, SetSystemPropertyKeeps
  <1>7. CASE \E d \in Device : LoadNext(d) \/ AddKnown(d) \/ RemoveDevice(d) \/ CleanupNext(d)
    BY <1>7, LoadNextKeeps, AddKnownKeeps, RemoveDeviceKeeps, CleanupNextKeeps
  <1>8. CASE \E d \in Device, v \in Value :
                AddDevice(d, v) \/ SaveDevice(d, v) \/ AddEndpoint(d, v) \/ SaveLazily(d, v)
    BY <1>8, AddDeviceKeeps, SaveDeviceKeeps, AddEndpointKeeps, SaveLazilyKeeps
  <1> QED
    BY <1>1, <1>2, <1>3, <1>4, <1>5, <1>6, <1>7, <1>8 DEF Next

\* Whenever the process dies, between any two of the system calls of storageSave,
\* storageDelete and a load that repairs a file, the next load finds the last value saved or
\* one whose save or delete was under way: for any keys and values and any number of crashes,
\* when writes may fail but renames, and the copy of a backup, do not.
THEOREM NothingSavedIsLost ==
    ASSUME OnlyWritesFail
    PROVE  Spec => []Durable
  <1>1. Init => IInv
    BY InitKeeps
  <1>2. IInv /\ [Next]_vars => IInv'
    BY NextKeeps
  <1>3. IInv => Durable
    BY DEF IInv
  <1> QED
    BY <1>1, <1>2, <1>3, PTL DEF Spec

\* Between two calls of the jsonDatabase functions the cache of an open database and its
\* files agree on every device that is not marked dirty (but for a failed addEndpoint), under
\* the same assumption on faults.
THEOREM CacheMatchesFiles ==
    ASSUME OnlyWritesFail
    PROVE  Spec => []CacheAgrees
  <1>1. Init => IInv
    BY InitKeeps
  <1>2. IInv /\ [Next]_vars => IInv'
    BY NextKeeps
  <1>3. IInv => CacheAgrees
    BY DEF IInv, AgreeInv, CacheAgrees, Ready, Untouched
  <1> QED
    BY <1>1, <1>2, <1>3, PTL DEF Spec
=============================================================================
