\* every role, on one CPU, without preemption, with it in the copies, and in wait and wake-up
SPECIFICATION FairSpec
CONSTANTS
    Pollers = {"poll", "poll2"}
    Setters = {"set"}
    Getters = {"get"}
    Readers = {"cat"}
    DevWriters = {"echo"}
    ProcWriters = {"proc"}
    MSG_BUFFER_LEN = 3
    Length = 2
    Kernels <- OneCpu
    MaxReady = 2
    MaxSignals = 2
INVARIANTS
    TypeOK
    OneHolder
    OneCharHeld
    NoneTakenTwice
PROPERTIES
    SleeperWakes
CHECK_DEADLOCK FALSE
