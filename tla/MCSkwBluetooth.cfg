SPECIFICATION MCSpec
CONSTANTS
    Chips = {"page", "tagged"}
    NvBlocks = 2
    Extras = 1
    Loads <- HciLoads
    LogReaders = {1, 2}
    LogPackets = 2
    LogLimit = 1
    LogCalls = 3

    
    
PROPERTIES
    SentInOrder
    BtMoves
CHECK_DEADLOCK FALSE
