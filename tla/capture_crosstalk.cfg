\* two tx_file senders on the one ether type
SPECIFICATION TransferSpec
CONSTANTS
    three = three
    one = one
    jumbo = jumbo
    exact = exact
    eth0 = eth0
    Files = {three, jumbo, exact}
    NoFile = NoFile
    file_size <- MC_file_size
    fragment_count <- MC_fragment_count
    fragment_size <- MC_fragment_size
    Sockets = {eth0}
    Socket = eth0
    shuffles <- MC_shuffles
    socket_of <- MC_socket_of
    SendingSets <- AnySenders
    MaxBacklog = 1
    KeepsUp = FALSE
    StrayTraffic = TRUE
    Stoppable = {three}
    LinkMayDrop = TRUE
INVARIANTS
    OnlyBadIndexUndefined
    HeaderLive
    IInv
    OneUnverified
CHECK_DEADLOCK FALSE
