------------------------------ MODULE Storage ------------------------------
(***************************************************************************)
(* The key-value storage of libs/config: one namespace, four files per     *)
(* key.  A call holds the module's mutex, so one is under way at a time;   *)
(* every system call that changes a file is a step of its own, because the *)
(* process may die between any two of them.                                *)
(*                                                                         *)
(* The content of a file is a value, or it is missing, empty (truncated by *)
(* fopen) or torn (a part of a value).                                     *)
(***************************************************************************)
EXTENDS Naturals, FiniteSets

CONSTANTS Key, Value,
          Parsed,       \* keys loaded with a parser; the others with storageLoad (parseAny)
          Archive,      \* Archive[k]: the main file of k in the directory to restore from
          Faults        \* what else may fail: "write", "copy", "rename"

ASSUME ValueAssumption == Value \cap {"absent", "empty", "torn", "none"} = {}
ASSUME ParsedAssumption == Parsed \subseteq Key
ASSUME ArchiveAssumption == Archive \in [Key -> Value \cup {"absent"}]

File == {"main", "bak", "tmp", "bad"}
Content == Value \cup {"absent", "empty", "torn"}

\* Where a call is: "idle" when there is none, "done" when it is about to return.
Step == {"idle", "open", "write", "swap", "put", "read", "bad", "backup", "truncate", "copy",
         "unmain", "unbak", "untmp", "unbad", "wipe", "fill", "done"}

VARIABLES disk,         \* disk[k][f]: what file f of key k holds
          at,           \* where the call under way is
          key,          \* its key
          arg,          \* the value it saves, or has loaded
          ok            \* its result

svars == <<disk, at, key, arg, ok>>

\* A file chooseFileToRead considers: it exists and is not empty.
Present(c) == c \notin {"absent", "empty"}

\* The parse callback given for k accepts content c.
Accepts(k, c) == c \in Value \/ (c = "torn" /\ k \notin Parsed)

\* What a load of k would give, whatever it has to repair on the way.
Loadable(k) ==
    IF Present(disk[k]["main"]) /\ Accepts(k, disk[k]["main"]) THEN disk[k]["main"]
    ELSE IF Present(disk[k]["bak"]) /\ Accepts(k, disk[k]["bak"]) THEN disk[k]["bak"]
    ELSE "none"

\* storageGetKeys: a backup counts when the regular file is missing.
GetKeys == {k \in Key : disk[k]["main"] # "absent" \/ disk[k]["bak"] # "absent"}

StorageInit ==
    /\ disk = [k \in Key |-> [f \in File |-> "absent"]]
    /\ at = "idle"
    /\ key \in Key
    /\ arg = "absent"
    /\ ok = FALSE

-----------------------------------------------------------------------------
\* A call on k begins at step s.
Begin(s, k, v) ==
    /\ at = "idle"
    /\ at' = s
    /\ key' = k
    /\ arg' = v
    /\ ok' = FALSE
    /\ UNCHANGED disk

\* A step that leaves the disk as d.
Go(s, d) ==
    /\ disk' = d
    /\ at' = s
    /\ UNCHANGED <<key, arg, ok>>

\* The call is over, with result r; it has loaded v.
Finish(d, v, r) ==
    /\ disk' = d
    /\ at' = "done"
    /\ arg' = v
    /\ ok' = r
    /\ UNCHANGED key

\* The disk after one file of the call's key changes.
With(f, c) == [disk EXCEPT ![key][f] = c]

\* The disk after rename(f, g).
Renamed(f, g) == [disk EXCEPT ![key][g] = disk[key][f], ![key][f] = "absent"]

Save(k, v)  == Begin("open", k, v)
Load(k)     == Begin("read", k, "absent")
Delete(k)   == Begin("unmain", k, "absent")
Restore(k)  == Begin("wipe", k, "absent")

-----------------------------------------------------------------------------
\* storageSave: the temporary file is created or truncated.
SaveOpen ==
    /\ at = "open"
    /\ \/ Go("write", With("tmp", "empty"))
       \/ "write" \in Faults /\ Finish(disk, arg, FALSE)

\* fputs, fflush, fsync.
SaveWrite ==
    /\ at = "write"
    /\ \/ Go("swap", With("tmp", arg))
       \/ "write" \in Faults /\ \E c \in {"empty", "torn"} : Finish(With("tmp", c), arg, FALSE)

\* safeFileSave without a backup: the old file goes before the new one is in place.
SwapBackupNone == at = "swap" /\ Go("put", With("main", "absent"))

\* safeFileSave: the regular file becomes the backup; without one, the backup is stale.
SwapBackup ==
    /\ at = "swap"
    /\ \/ disk[key]["main"] # "absent" /\ Go("put", Renamed("main", "bak"))
       \/ disk[key]["main"] = "absent" /\ Go("put", With("bak", "absent"))
       \/ "rename" \in Faults /\ Go("put", disk)

\* safeFileSave: the temporary file becomes the regular one.  Nobody looks at its result.
SwapMain ==
    /\ at = "put"
    /\ \/ Finish(Renamed("tmp", "main"), arg, TRUE)
       \/ "rename" \in Faults /\ Finish(disk, arg, TRUE)

-----------------------------------------------------------------------------
\* loadInternalLocked: chooseFileToRead, and the regular file if it can be read.
LoadMain ==
    /\ at = "read"
    /\ LET main == disk[key]["main"]
       IN  \/ Present(main) /\ Accepts(key, main) /\ Finish(disk, main, TRUE)
           \/ Present(main) /\ ~Accepts(key, main) /\ Go("bad", disk)
           \/ ~Present(main) /\ Present(disk[key]["bak"]) /\ Go("backup", disk)
           \/ ~Present(main) /\ ~Present(disk[key]["bak"]) /\ Finish(disk, arg, FALSE)

LoadMoveBad == at = "bad" /\ Go("backup", Renamed("main", "bad"))

LoadBackup ==
    /\ at = "backup"
    /\ LET bak == disk[key]["bak"]
       IN  \/ /\ Present(bak) /\ Accepts(key, bak)
              /\ disk' = disk /\ at' = "truncate" /\ arg' = bak
              /\ UNCHANGED <<key, ok>>
           \/ ~(Present(bak) /\ Accepts(key, bak)) /\ Finish(disk, arg, FALSE)

\* copyFileByPath: the regular file is created again, empty ...
CopyOpen ==
    /\ at = "truncate"
    /\ \/ Go("copy", With("main", "empty"))
       \/ "copy" \in Faults /\ Finish(disk, arg, TRUE)

\* ... and filled, perhaps not in one write.
CopyWrite ==
    /\ at = "copy"
    /\ \/ Finish(With("main", disk[key]["bak"]), arg, TRUE)
       \/ disk[key]["main"] = "empty" /\ Go("copy", With("main", "torn"))
       \/ "copy" \in Faults /\ Finish(disk, arg, TRUE)

-----------------------------------------------------------------------------
\* storageDelete: the result is whether the regular file was there.
DeleteMain ==
    /\ at = "unmain"
    /\ disk' = With("main", "absent")
    /\ at' = "unbak"
    /\ ok' = (disk[key]["main"] # "absent")
    /\ UNCHANGED <<key, arg>>

DeleteRest ==
    \/ at = "unbak" /\ Go("untmp", With("bak", "absent"))
    \/ at = "untmp" /\ Go("unbad", With("tmp", "absent"))
    \/ at = "unbad" /\ Finish(With("bad", "absent"), arg, ok)

\* storageRestoreNamespace: deleteDirectory (and rm -rf, in storageDeleteNamespace) ...
WipeFile ==
    /\ at = "wipe"
    /\ \/ \E k \in Key, f \in File : /\ disk[k][f] # "absent"
                                     /\ Go("wipe", [disk EXCEPT ![k][f] = "absent"])
       \/ (\A k \in Key, f \in File : disk[k][f] = "absent") /\ Go("fill", disk)

\* ... then copyDirectory, a file at a time.
FillFile ==
    /\ at = "fill"
    /\ \/ \E k \in Key : /\ disk[k]["main"] # Archive[k]
                         /\ \E c \in {"torn", Archive[k]} :
                               Go("fill", [disk EXCEPT ![k]["main"] = c])
       \/ (\A k \in Key : disk[k]["main"] = Archive[k]) /\ Finish(disk, arg, TRUE)

StorageStep ==
    \/ SaveOpen \/ SaveWrite \/ SwapBackup \/ SwapMain
    \/ LoadMain \/ LoadMoveBad \/ LoadBackup \/ CopyOpen \/ CopyWrite
    \/ DeleteMain \/ DeleteRest \/ WipeFile \/ FillFile
=============================================================================
