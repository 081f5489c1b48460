CONSTANTS
    Key = {sys, d1}
    Sys = sys
    Value = {v1, v2}
    Parsed <- DeviceKeys
    Archived = v1
    Archive <- ArchiveOf
    Faults = {"write"}
    MaxCrash = 2
SPECIFICATION Spec
INVARIANT Durable
INVARIANT CacheAgrees
CHECK_DEADLOCK FALSE
