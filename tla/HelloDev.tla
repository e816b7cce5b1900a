------------------------------ MODULE HelloDev ------------------------------
(***************************************************************************)
(* hello_world.c: the character device /dev/hello-dev, the file            *)
(* /proc/hello_proc beside it, and the processes of user.c and of a shell  *)
(* that call them.  A step is the code between two points at which the     *)
(* scheduler could run another process.                                    *)
(***************************************************************************)
EXTENDS Integers, FiniteSets

CONSTANTS
    Pollers,        \* userapp <dev> poll
    Setters,        \* userapp <dev> ioctlset
    Getters,        \* userapp <dev> ioctlget
    Readers,        \* cat <dev>
    DevWriters,     \* echo ... > <dev>
    ProcWriters,    \* echo ... > /proc/hello_proc
    MSG_BUFFER_LEN, \* chars of msg_buffer
    Length,         \* bytes asked of one read or write
    Kernels,        \* for each kernel: where a handler may be scheduled away
    MaxReady,       \* bound: no write starts above this new_data_is_ready
    MaxSignals      \* bound: signals sent to the processes

Openers == Pollers \cup Setters \cup Getters \cup Readers \cup DevWriters
Processes == Openers \cup ProcWriters

(* Where a process can be.  In user mode or asleep it leaves the CPU to    *)
(* others; inside a handler it does so only where the kernel preempts it.  *)
UserPoints == {"idle", "open", "polling", "set", "reading", "closing"}
SleepPoints == {"sleeping", "asleep"}
WaitPoints == {"queueing", "testing"}
CountPoints == {"counting", "releasing", "putting", "returning"}
DataPoints == {"taking", "taken", "signalling", "storing", "waking"}
CopyPoints == {"read_copy", "write_copy", "proc_copy"}
TestPoints == {"read_test", "write_test", "proc_test"}
HandlerPoints == CountPoints \cup WaitPoints \cup DataPoints \cup CopyPoints \cup TestPoints

ASSUME HelloDevAssumption ==
    /\ Pollers \cap (Setters \cup Getters \cup Readers \cup DevWriters) = {}
    /\ Setters \cap (Getters \cup Readers \cup DevWriters) = {}
    /\ Getters \cap (Readers \cup DevWriters) = {}
    /\ Readers \cap DevWriters = {}
    /\ Openers \cap ProcWriters = {}
    /\ MSG_BUFFER_LEN \in Nat \ {0, 1}
    /\ Length \in Nat \ {0} /\ MaxReady \in Nat /\ MaxSignals \in Nat
    /\ Kernels \subseteq SUBSET HandlerPoints

NULL == -1
Chars == {0, 1}                  \* 0 is the NUL that ends the message
DEFAULT_AGE_VALUE == 42

VARIABLES
    preemptible,       \* the kernel this machine runs, an element of Kernels
    loaded,            \* the module is inserted
    refs,              \* its reference count
    Age, device_open_count, msg_buffer, msg_ptr, new_data_is_ready,
    fortune_wait,      \* the processes on the wait queue, none of them woken
    pc,                \* where each process is
    reg,               \* what its handler has read of a global and still uses
    left,              \* the handler's "length"
    age,               \* the "age" of a setter or getter
    signals,           \* signals sent so far
    undefined          \* code ran outside msg_buffer or in a removed module

globals == <<Age, device_open_count, msg_buffer, msg_ptr, new_data_is_ready, fortune_wait>>
locals == <<reg, left, age>>
vars == <<preemptible, loaded, refs, globals, pc, locals, signals, undefined>>

Empty == [i \in 0 .. MSG_BUFFER_LEN - 1 |-> 0]

Init ==
    /\ Age = 0 /\ device_open_count = 0 /\ new_data_is_ready = 0
    /\ msg_buffer = Empty /\ msg_ptr = NULL /\ fortune_wait = {}
    /\ preemptible \in Kernels
    /\ loaded = TRUE
    /\ refs = 0
    /\ pc = [p \in Processes |-> "idle"]
    /\ reg = [p \in Processes |-> 0]
    /\ left = [p \in Processes |-> 0]
    /\ age = [p \in Setters \cup Getters |-> 0]
    /\ signals = 0
    /\ undefined = FALSE

----------------------------------------------------------------------------
Away(q) == pc[q] \in UserPoints \cup SleepPoints \cup preemptible

(* Process p is at this point and can be given the CPU.                    *)
At(p, point) == pc[p] = point /\ \A q \in Processes \ {p} : Away(q)

Goto(p, point) == pc' = [pc EXCEPT ![p] = point]

Inside(i) == i \in DOMAIN msg_buffer

(* The test of lines 80 and 110: there is nothing at msg_ptr.              *)
Exhausted == msg_ptr = NULL \/ (Inside(msg_ptr) /\ msg_buffer[msg_ptr] = 0)

(* Mutant: only a NULL msg_ptr is rewound, not one at the NUL.             *)
RewoundOnce == IF msg_ptr = NULL THEN 0 ELSE msg_ptr

Rewound == IF Exhausted THEN 0 ELSE msg_ptr

(* What no handler of the device touches.                                  *)
Still == UNCHANGED <<preemptible, loaded, signals, undefined>>

----------------------------------------------------------------------------
(* Where the open file goes next.                                          *)
AfterOpen(p) ==
    CASE p \in Pollers -> "polling"
      [] p \in Readers -> "reading"
      [] OTHER -> "open"

(* dev_open(): the check, then the count and the module's reference.  The  *)
(* compiler may count from the value the check has loaded.                 *)
OpenRefused(p) ==
    /\ At(p, "idle") /\ p \in Openers /\ loaded
    /\ device_open_count # 0
    /\ UNCHANGED vars

(* Mutant: whoever comes is let in.                                        *)
OpenUnchecked(p) ==
    /\ At(p, "idle") /\ p \in Openers /\ loaded
    /\ Goto(p, "counting")
    /\ Still /\ UNCHANGED <<refs, globals, locals>>

Open(p) ==
    /\ At(p, "idle") /\ p \in Openers /\ loaded
    /\ device_open_count = 0
    /\ Goto(p, "counting")
    /\ Still /\ UNCHANGED <<refs, globals, locals>>

(* Mutants: try_module_get() is missing; or is called for the first only.  *)
OpenNoReference(p) ==
    /\ At(p, "counting")
    /\ device_open_count' = device_open_count + 1
    /\ Goto(p, AfterOpen(p))
    /\ Still /\ UNCHANGED <<refs, Age, msg_buffer, msg_ptr, new_data_is_ready, fortune_wait, locals>>

OpenFirstReference(p) ==
    /\ At(p, "counting")
    /\ device_open_count' = device_open_count + 1
    /\ refs' = IF device_open_count = 0 THEN refs + 1 ELSE refs
    /\ Goto(p, AfterOpen(p))
    /\ Still /\ UNCHANGED <<Age, msg_buffer, msg_ptr, new_data_is_ready, fortune_wait, locals>>

OpenCount(p) ==
    /\ At(p, "counting")
    /\ \E seen \in {0, device_open_count} : device_open_count' = seen + 1
    /\ refs' = refs + 1
    /\ Goto(p, AfterOpen(p))
    /\ Still /\ UNCHANGED <<Age, msg_buffer, msg_ptr, new_data_is_ready, fortune_wait, locals>>

(* dev_release(): reached by close() and by the exit of a killed process.  *)
Close(p) ==
    /\ At(p, "closing")
    /\ reg' = [reg EXCEPT ![p] = device_open_count]
    /\ Goto(p, "releasing")
    /\ Still /\ UNCHANGED <<refs, globals, left, age>>

Release(p) ==
    /\ At(p, "releasing")
    /\ device_open_count' = reg[p] - 1
    /\ reg' = [reg EXCEPT ![p] = 0]
    /\ Goto(p, "putting")
    /\ Still /\ UNCHANGED <<refs, Age, msg_buffer, msg_ptr, new_data_is_ready, fortune_wait, left, age>>

PutModule(p) ==
    /\ At(p, "putting")
    /\ refs' = refs - 1
    /\ Goto(p, "returning")
    /\ Still /\ UNCHANGED <<globals, locals>>

ReleaseReturns(p) ==
    /\ At(p, "returning")
    /\ Goto(p, "idle")
    /\ Still /\ UNCHANGED <<refs, globals, locals>>

----------------------------------------------------------------------------

(* dev_poll() begins with wait_event_interruptible(): it tests the data    *)
(* count, and while there is nothing puts itself on the queue, tests once  *)
(* more, and sleeps until a wake-up has taken it from the queue.           *)
PollWait(p) ==
    /\ At(p, "polling")
    /\ new_data_is_ready <= 0
    /\ Goto(p, "queueing")
    /\ Still /\ UNCHANGED <<refs, globals, locals>>

Enqueue(p) ==
    /\ At(p, "queueing")
    /\ fortune_wait' = fortune_wait \cup {p}
    /\ Goto(p, "testing")
    /\ Still /\ UNCHANGED <<refs, Age, device_open_count, msg_buffer, msg_ptr, new_data_is_ready, locals>>

Sleep(p) ==
    /\ At(p, "testing")
    /\ new_data_is_ready <= 0
    /\ Goto(p, "sleeping")
    /\ Still /\ UNCHANGED <<refs, globals, locals>>

Woken(p) ==
    /\ At(p, "sleeping") /\ p \notin fortune_wait
    /\ Goto(p, "queueing")
    /\ Still /\ UNCHANGED <<refs, globals, locals>>

(* Mutant: goes on without having looked at the count.                     *)
PollUnchecked(p) ==
    /\ At(p, "polling") \/ At(p, "testing")
    /\ fortune_wait' = fortune_wait \ {p}
    /\ Goto(p, "taking")
    /\ Still /\ UNCHANGED <<refs, Age, device_open_count, msg_buffer, msg_ptr, new_data_is_ready, locals>>

PollPass(p) ==
    /\ At(p, "polling") \/ At(p, "testing")
    /\ new_data_is_ready > 0
    /\ fortune_wait' = fortune_wait \ {p}
    /\ Goto(p, "taking")
    /\ Still /\ UNCHANGED <<refs, Age, device_open_count, msg_buffer, msg_ptr, new_data_is_ready, locals>>

(* It takes one from the count and returns no event.  It has not called    *)
(* poll_wait(), so poll(2) goes to sleep until a signal.                   *)
Take(p) ==
    /\ At(p, "taking")
    /\ reg' = [reg EXCEPT ![p] = new_data_is_ready]
    /\ Goto(p, "taken")
    /\ Still /\ UNCHANGED <<refs, globals, left, age>>

PollMask == {}

Poll(p) ==
    /\ At(p, "taken")
    /\ new_data_is_ready' = reg[p] - 1
    /\ reg' = [reg EXCEPT ![p] = 0]
    /\ Goto(p, IF "POLLIN" \in PollMask THEN "reading" ELSE "asleep")
    /\ Still /\ UNCHANGED <<refs, Age, device_open_count, msg_buffer, msg_ptr, fortune_wait, left, age>>

(* A signal ends the wait, which goes on to the decrement all the same,    *)
(* and the sleep of poll(2).  userapp handles no signal: it dies, or was   *)
(* stopped and continued and the kernel restarts poll(2).                  *)
Signal(p) ==
    /\ signals < MaxSignals
    /\ signals' = signals + 1
    /\ \/ /\ At(p, "queueing") \/ At(p, "testing") \/ At(p, "sleeping")
          /\ fortune_wait' = fortune_wait \ {p}
          /\ Goto(p, "taking")
       \/ /\ At(p, "asleep")
          /\ pc' \in {[pc EXCEPT ![p] = "closing"], [pc EXCEPT ![p] = "polling"]}
          /\ UNCHANGED fortune_wait
       \/ /\ At(p, "polling") \/ At(p, "reading")
          /\ Goto(p, "closing")
          /\ UNCHANGED fortune_wait
    /\ UNCHANGED <<preemptible, loaded, refs, Age, device_open_count, msg_buffer, msg_ptr, new_data_is_ready, locals, undefined>>

----------------------------------------------------------------------------
(* dev_ioctl(): one copy each.  ioctlset then asks for what it has set,    *)
(* ioctlget asks at once.                                                  *)
SetAge(p) ==
    /\ At(p, "open") /\ p \in Setters
    /\ Age' = DEFAULT_AGE_VALUE
    /\ Goto(p, "set")
    /\ Still /\ UNCHANGED <<refs, device_open_count, msg_buffer, msg_ptr, new_data_is_ready, fortune_wait, locals>>

GetAge(p) ==
    /\ At(p, "set") \/ (At(p, "open") /\ p \in Getters)
    /\ age' = [age EXCEPT ![p] = Age]
    /\ Goto(p, "closing")
    /\ Still /\ UNCHANGED <<refs, globals, reg, left>>

----------------------------------------------------------------------------
(* dev_read(): msg_ptr walks to the NUL; the swapped arguments make        *)
(* copy_to_user refuse, so nothing reaches the caller or the buffer.       *)
ReadStart(p) ==
    /\ At(p, "reading")
    /\ Inside(msg_ptr) \/ msg_ptr = NULL
    /\ msg_ptr' = Rewound
    /\ left' = [left EXCEPT ![p] = Length]
    /\ Goto(p, "read_test")
    /\ Still /\ UNCHANGED <<refs, Age, device_open_count, msg_buffer, new_data_is_ready, fortune_wait, reg, age>>

Reading(p) == At(p, "read_test") \/ At(p, "read_copy")

(* Mutant: read goes on to the NUL whatever length the caller gave.        *)
ReadPastLength(p) ==
    /\ Reading(p)
    /\ Inside(msg_ptr) /\ ~Exhausted
    /\ msg_ptr' = msg_ptr + 1
    /\ left' = [left EXCEPT ![p] = @ - 1]
    /\ Goto(p, "read_copy")
    /\ Still /\ UNCHANGED <<refs, Age, device_open_count, msg_buffer, new_data_is_ready, fortune_wait, reg, age>>

ReadChar(p) ==
    /\ Reading(p)
    /\ left[p] > 0 /\ Inside(msg_ptr) /\ ~Exhausted
    /\ msg_ptr' = msg_ptr + 1
    /\ left' = [left EXCEPT ![p] = @ - 1]
    /\ Goto(p, "read_copy")
    /\ Still /\ UNCHANGED <<refs, Age, device_open_count, msg_buffer, new_data_is_ready, fortune_wait, reg, age>>

(* It returns the bytes it has passed; the caller stops at zero.           *)
ReadReturns(p) ==
    /\ Reading(p)
    /\ left[p] = 0 \/ Exhausted
    /\ Goto(p, IF left[p] < Length THEN "reading" ELSE "closing")
    /\ left' = [left EXCEPT ![p] = 0]
    /\ Still /\ UNCHANGED <<refs, globals, reg, age>>

----------------------------------------------------------------------------
(* dev_write(): overwrites up to the NUL.  With msg_ptr NULL its first     *)
(* test reads *NULL: the process is killed and its file released.          *)
WriteOops(p) ==
    /\ At(p, "open") /\ p \in DevWriters
    /\ msg_ptr = NULL
    /\ Goto(p, "closing")
    /\ Still /\ UNCHANGED <<refs, globals, locals>>

WriteStart(p) ==
    /\ At(p, "open") /\ p \in DevWriters
    /\ new_data_is_ready < MaxReady
    /\ msg_ptr # NULL
    /\ left' = [left EXCEPT ![p] = Length]
    /\ Goto(p, "write_test")
    /\ Still /\ UNCHANGED <<refs, globals, reg, age>>

WriteTest(p) ==
    /\ At(p, "write_test")
    /\ left[p] > 0 /\ Inside(msg_ptr) /\ ~Exhausted
    /\ reg' = [reg EXCEPT ![p] = msg_ptr]
    /\ Goto(p, "write_copy")
    /\ Still /\ UNCHANGED <<refs, globals, left, age>>

WriteChar(p) ==
    /\ At(p, "write_copy")
    /\ \E c \in Chars : msg_buffer' = [msg_buffer EXCEPT ![reg[p]] = c]
    /\ msg_ptr' = msg_ptr + 1
    /\ left' = [left EXCEPT ![p] = @ - 1]
    /\ reg' = [reg EXCEPT ![p] = 0]
    /\ Goto(p, "write_test")
    /\ Still /\ UNCHANGED <<refs, Age, device_open_count, new_data_is_ready, fortune_wait, age>>

WriteEnds(p) ==
    /\ At(p, "write_test")
    /\ left[p] = 0 \/ Exhausted
    /\ left' = [left EXCEPT ![p] = 0]
    /\ Goto(p, "signalling")
    /\ Still /\ UNCHANGED <<refs, globals, reg, age>>

----------------------------------------------------------------------------
(* proc_write(): every character goes where msg_ptr points; a NUL in the   *)
(* caller's bytes ends them, so fewer than Length may be copied.           *)
ProcStart(p) ==
    /\ At(p, "idle") /\ p \in ProcWriters /\ loaded
    /\ new_data_is_ready < MaxReady
    /\ Inside(msg_ptr) \/ msg_ptr = NULL
    /\ msg_ptr' = Rewound
    /\ \E n \in 0 .. Length : left' = [left EXCEPT ![p] = n]
    /\ Goto(p, "proc_test")
    /\ Still /\ UNCHANGED <<refs, Age, device_open_count, msg_buffer, new_data_is_ready, fortune_wait, reg, age>>

ProcTest(p) ==
    /\ At(p, "proc_test")
    /\ left[p] > 0
    /\ reg' = [reg EXCEPT ![p] = msg_ptr]
    /\ Goto(p, "proc_copy")
    /\ Still /\ UNCHANGED <<refs, globals, left, age>>

ProcChar(p) ==
    /\ At(p, "proc_copy")
    /\ Inside(reg[p])
    /\ msg_buffer' = [msg_buffer EXCEPT ![reg[p]] = 1]
    /\ left' = [left EXCEPT ![p] = @ - 1]
    /\ reg' = [reg EXCEPT ![p] = 0]
    /\ Goto(p, "proc_test")
    /\ Still /\ UNCHANGED <<refs, Age, device_open_count, msg_ptr, new_data_is_ready, fortune_wait, age>>

ProcEnds(p) ==
    /\ At(p, "proc_test")
    /\ left[p] = 0
    /\ Goto(p, "signalling")
    /\ Still /\ UNCHANGED <<refs, globals, locals>>

----------------------------------------------------------------------------
(* The end of both writes: one more in new_data_is_ready, and then the     *)
(* wake-up, which takes every sleeper from the queue.                      *)
CountData(p) ==
    /\ At(p, "signalling")
    /\ reg' = [reg EXCEPT ![p] = new_data_is_ready]
    /\ Goto(p, "storing")
    /\ Still /\ UNCHANGED <<refs, globals, left, age>>

StoreCount(p) ==
    /\ At(p, "storing")
    /\ new_data_is_ready' = reg[p] + 1
    /\ reg' = [reg EXCEPT ![p] = 0]
    /\ Goto(p, "waking")
    /\ Still /\ UNCHANGED <<refs, Age, device_open_count, msg_buffer, msg_ptr, fortune_wait, left, age>>

WriteReturns(p) ==
    IF p \in ProcWriters
    THEN Goto(p, "idle")
    ELSE pc' \in {[pc EXCEPT ![p] = "open"], [pc EXCEPT ![p] = "closing"]}

WakeUp(p) ==
    /\ At(p, "waking")
    /\ fortune_wait' = {}
    /\ WriteReturns(p)
    /\ Still /\ UNCHANGED <<refs, Age, device_open_count, msg_buffer, msg_ptr, new_data_is_ready, locals>>

(* Mutants: the wake-up is missing; or comes before the count.             *)
AnnounceSilently(p) ==
    \/ CountData(p) \/ StoreCount(p)
    \/ /\ At(p, "waking")
       /\ WriteReturns(p)
       /\ Still /\ UNCHANGED <<refs, globals, locals>>

AnnounceEarly(p) ==
    \/ /\ At(p, "signalling")
       /\ fortune_wait' = {}
       /\ reg' = [reg EXCEPT ![p] = new_data_is_ready]
       /\ Goto(p, "storing")
       /\ Still /\ UNCHANGED <<refs, Age, device_open_count, msg_buffer, msg_ptr, new_data_is_ready, left, age>>
    \/ StoreCount(p)
    \/ /\ At(p, "waking")
       /\ WriteReturns(p)
       /\ Still /\ UNCHANGED <<refs, globals, locals>>

Announce(p) == CountData(p) \/ StoreCount(p) \/ WakeUp(p)

(* A handler looks at, or copies to, a place past the end of msg_buffer.   *)
RunsOut(p) ==
    /\ \/ /\ At(p, "reading") \/ (At(p, "idle") /\ p \in ProcWriters /\ loaded)
          /\ msg_ptr # NULL /\ ~Inside(msg_ptr)
       \/ /\ Reading(p) \/ At(p, "write_test")
          /\ left[p] > 0 /\ ~Inside(msg_ptr)
       \/ /\ At(p, "proc_copy") \/ At(p, "write_copy")
          /\ ~Inside(reg[p])
    /\ undefined' = TRUE
    /\ UNCHANGED <<preemptible, loaded, refs, globals, pc, locals, signals>>

----------------------------------------------------------------------------
(* rmmod: refused while the module is referenced; main_exit() waits for    *)
(* the calls of the /proc file it removes, not for a dev_open() that has    *)
(* no reference yet or a dev_release() that has put its own.               *)
Rmmod ==
    /\ loaded /\ refs = 0
    /\ \A q \in Processes : Away(q)
    /\ \A q \in ProcWriters : pc[q] = "idle"
    /\ loaded' = FALSE
    /\ undefined' = (\E q \in Processes : pc[q] \in {"counting", "returning"})
    /\ UNCHANGED <<preemptible, refs, globals, pc, locals, signals>>

Insmod ==
    /\ ~loaded
    /\ \A q \in Processes : Away(q)
    /\ Age' = 0 /\ device_open_count' = 0 /\ new_data_is_ready' = 0
    /\ msg_buffer' = Empty /\ msg_ptr' = NULL /\ fortune_wait' = {}
    /\ loaded' = TRUE
    /\ UNCHANGED <<preemptible, refs, pc, locals, signals, undefined>>

(* What a process does once it is in a handler, or asleep and woken.       *)
Step(p) ==
    \/ OpenCount(p)
    \/ Close(p) \/ Release(p) \/ PutModule(p) \/ ReleaseReturns(p)
    \/ PollWait(p) \/ Enqueue(p) \/ Sleep(p) \/ Woken(p) \/ PollPass(p)
    \/ Take(p) \/ Poll(p)
    \/ SetAge(p) \/ GetAge(p)
    \/ ReadStart(p) \/ ReadChar(p) \/ ReadReturns(p)
    \/ WriteOops(p) \/ WriteStart(p) \/ WriteTest(p) \/ WriteChar(p) \/ WriteEnds(p)
    \/ ProcTest(p) \/ ProcChar(p) \/ ProcEnds(p)
    \/ Announce(p)
    \/ RunsOut(p)

Next ==
    /\ ~undefined
    /\ \/ \E p \in Processes : Open(p) \/ OpenRefused(p) \/ ProcStart(p) \/ Step(p) \/ Signal(p)
       \/ Rmmod
       \/ Insmod

Spec == Init /\ [][Next]_vars

(* The scheduler runs every process that can run: a handler goes on when   *)
(* the CPU is left to it, a sleeper when a wake-up has taken it from the   *)
(* queue.  One that is still on the queue has no step to be fair to.       *)
FairSpec == Spec /\ \A p \in Processes : WF_vars(~undefined /\ Step(p))

----------------------------------------------------------------------------
(* Every variable keeps its type.                                          *)
TypeOK ==
    /\ preemptible \in Kernels
    /\ loaded \in BOOLEAN /\ undefined \in BOOLEAN
    /\ refs \in Nat
    /\ Age \in {0, DEFAULT_AGE_VALUE}
    /\ device_open_count \in Int /\ new_data_is_ready \in Int
    /\ msg_buffer \in [0 .. MSG_BUFFER_LEN - 1 -> Chars]
    /\ msg_ptr \in Nat \cup {NULL}
    /\ fortune_wait \in SUBSET Processes
    /\ pc \in [Processes -> UserPoints \cup SleepPoints \cup HandlerPoints]
    /\ reg \in [Processes -> Int]
    /\ left \in [Processes -> 0 .. Length]
    /\ age \in [Setters \cup Getters -> {0, DEFAULT_AGE_VALUE}]
    /\ signals \in Nat

(* The processes that have the device open and hold its reference.         *)
Holders == {p \in Openers : pc[p] \notin {"idle", "counting", "returning"}}

(* hello_world.c:98 and 165.  Where dev_open() and dev_release() are not   *)
(* preempted, one process at most has the device open, and                 *)
(* device_open_count says whether one has, up to its release.              *)
OneHolder ==
    preemptible \cap CountPoints = {} =>
        /\ \A p, q \in Holders : p = q
        /\ device_open_count = IF \A p \in Holders : pc[p] = "putting" THEN 0 ELSE 1

(* hello_world.c:102 and 166.  On every kernel the module's references are *)
(* the files open on it, so it is never removed under one of them.         *)
RefsExact ==
    /\ refs = Cardinality(Holders)
    /\ Holders # {} => loaded

(* user.c:92-100.  The setter reads back the age it has set, whoever else  *)
(* opens the device or inserts the module again.                           *)
SetterSeesItsAge ==
    \A p \in Setters : pc[p] = "closing" => age[p] = DEFAULT_AGE_VALUE

(* hello_world.c:80-93 and 110-119.  Without preemption in the copy loops, *)
(* what the driver holds is one character at most, in the first place, and *)
(* msg_ptr is at it or just behind it: it never runs out of msg_buffer.    *)
OneCharHeld ==
    preemptible = {} =>
        /\ msg_ptr \in {NULL, 0, 1}
        /\ \A i \in DOMAIN msg_buffer : msg_buffer[i] # 0 => i = 0
        /\ ~undefined

(* hello_world.c:157-158.  Only a signal takes what no write has brought.  *)
NoneTakenTwice ==
    preemptible \cap (CountPoints \cup DataPoints) = {} =>
        new_data_is_ready >= -signals

(* In the wait of dev_poll().                                              *)
Waiting(p) == pc[p] \in {"polling", "queueing", "testing", "sleeping"}

(* hello_world.c:90-91, 135-136 and 157.  No wake-up is lost: nobody sleeps *)
(* on while there is data, neither when the writer comes between test and  *)
(* sleep nor when the sleeper tests between count and wake-up.  A second   *)
(* poller, where opens are preempted, may raise the count by a late        *)
(* decrement and wakes nobody.                                             *)
SleeperWakes ==
    \A p \in Pollers :
        (/\ Waiting(p) /\ new_data_is_ready > 0
         /\ Pollers = {p} \/ preemptible \cap CountPoints = {})
            ~> (~Waiting(p) \/ new_data_is_ready <= 0 \/ undefined)

(* notes.txt:14-16 and user.c:73-84.  The poll test, waiting when data     *)
(* arrive, goes on to read them.                                           *)
PollTestReads ==
    \A p \in Pollers :
        (Waiting(p) /\ new_data_is_ready > 0) ~> pc[p] = "reading"
=============================================================================
