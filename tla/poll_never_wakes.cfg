\* the test of notes.txt: userapp polls, echo writes to /proc/hello_proc
SPECIFICATION FairSpec
CONSTANTS
    Pollers = {"poll"}
    Setters = {}
    Getters = {}
    Readers = {}
    DevWriters = {}
    ProcWriters = {"proc"}
    MSG_BUFFER_LEN = 3
    Length = 3
    Kernels <- OneCpu
    MaxReady = 1
    MaxSignals = 0
PROPERTIES
    PollTestReads
CHECK_DEADLOCK FALSE
