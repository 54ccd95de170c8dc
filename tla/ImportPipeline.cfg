SPECIFICATION FairSpec
CONSTANTS
    w1 = w1
    w2 = w2
    w3 = w3
    Files <- MCFiles
    Modes = {"nodes", "merge", "ways", "relations"}
    NodeThreads = 2
    WayThreads = {w1, w2, w3}
    QueueSize = 2
    NODE_BUFFER_SIZE = 2
    ChunkRecords = 2
    way_buffer_size_ <- MCBuffers
INVARIANTS
    TypeOK
    WaysSeeAllNodes
    RelationsSeeAllWays
    ImportComplete
    ReportedPhaseResumable
    OffsetsSkipNothing
PROPERTY Termination
