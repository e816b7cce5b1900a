\* three ether types, files cut into different numbers of fragments
SPECIFICATION TransferSpec
CONSTANTS
    newaa = newaa
    newab = newab
    short = short
    longer = longer
    eight = eight
    third = third
    Files = {short, eight, third}
    NoFile = NoFile
    file_size <- MC_file_size
    fragment_count <- MC_fragment_count
    fragment_size <- MC_fragment_size
    sfd_size = 3
    Sockets = {0, 1, 2}
    shuffles <- MC_shuffles
    socket_of <- MC_socket_of
    SendingSets <- AllSenders
    MaxBacklog = 1
    KeepsUp = FALSE
    StrayTraffic = FALSE
    Stoppable = {}
    LinkMayDrop = FALSE
INVARIANTS
    TypeOK
    OnlyTwoServed
CHECK_DEADLOCK FALSE
