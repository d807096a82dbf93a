\* Two notifications, a restart, chunks that cut every sequence.
SPECIFICATION Spec
CONSTANTS
    MaxSaid = 2
    MaxBoots = 2
    WriteSize = 4
    ChunkSize = 3
    ChanCap = 1
    QueueCap = 1
    MaxOsc = 4
INVARIANT HeardOnce
PROPERTIES Heard TapEnds
CHECK_DEADLOCK FALSE
