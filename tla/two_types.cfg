\* two halves cut into equally many fragments, one per ether type
SPECIFICATION FairTransferSpec
CONSTANTS
    newaa = newaa
    newab = newab
    short = short
    longer = longer
    eight = eight
    third = third
    Files = {newaa, newab}
    NoFile = NoFile
    file_size <- MC_file_size
    fragment_count <- MC_fragment_count
    fragment_size <- MC_fragment_size
    sfd_size = 2
    Sockets = {0, 1}
    shuffles <- MC_shuffles
    socket_of <- MC_socket_of
    SendingSets <- AllSenders
    MaxBacklog = 1
    KeepsUp = TRUE
    StrayTraffic = TRUE
    Stoppable = {}
    LinkMayDrop = TRUE
INVARIANTS
    OnlyResizeUndefined
    CountersExact
    ConcatenatesTheFiles
PROPERTIES
    ImplementsReassembly
    TransferEnds
CHECK_DEADLOCK FALSE
