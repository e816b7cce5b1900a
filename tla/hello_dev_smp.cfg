\* several CPUs: opens, closes and calls overlap
SPECIFICATION Spec
CONSTANTS
    Pollers = {"poll"}
    Setters = {"set"}
    Getters = {}
    Readers = {}
    DevWriters = {"echo"}
    ProcWriters = {"proc"}
    MSG_BUFFER_LEN = 2
    Length = 1
    Kernels <- ManyCpus
    MaxReady = 1
    MaxSignals = 1
INVARIANTS
    RefsExact
    SetterSeesItsAge
CHECK_DEADLOCK FALSE
