\* one tx_file sender at a time, stray frames and link failures
SPECIFICATION FairTransferSpec
CONSTANTS
    three = three
    one = one
    jumbo = jumbo
    exact = exact
    eth0 = eth0
    Files = {three, one}
    NoFile = NoFile
    file_size <- MC_file_size
    fragment_count <- MC_fragment_count
    fragment_size <- MC_fragment_size
    Sockets = {eth0}
    Socket = eth0
    shuffles <- MC_shuffles
    socket_of <- MC_socket_of
    SendingSets <- OneSender
    MaxBacklog = 1
    KeepsUp = TRUE
    StrayTraffic = TRUE
    Stoppable = {}
    LinkMayDrop = TRUE
INVARIANTS
    TypeOK
    CountExact
    OutputIsTheFile
PROPERTIES
    FirstCopyKept
    ImplementsReassembly
    TransferEnds
CHECK_DEADLOCK FALSE
