--------------------------- MODULE MCJsonDatabase ---------------------------
(* The device database with one stored device in the archive it restores from. *)
EXTENDS JsonDatabase

CONSTANTS Archived      \* the value every key has in the archive

ArchiveOf == [k \in Key |-> Archived]
DeviceKeys == Key \ {Sys}
=============================================================================
