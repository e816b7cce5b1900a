# A TLA+ verification of AirtiesIntern

The repository is a collection of small C and C++ programs written for Linux.
This project covers those that carry logic of their own:

* two generations of a **file capture** program, which rebuilds a file out of
  the Ethernet frames that a sender repeats for ever, over a link that loses,
  damages and reorders them;
* a **character device driver** with its `/proc` file and its user program;
* a **maze solver** that fills dead ends in place;
* three **tools on raw sockets** (`tx_raw`, `rx_raw`, `rx_poll`), an **MQTT**
  publisher and subscriber, a table of **board cuts** (`slice.cpp`), a `more`, and
  the **CRC-32** of the capture programs.

Paths below are relative to the root of the repository (`src/` in
`PROJECT.json`). To run anything: `tlc -config <run>.cfg <module>.tla` for the
runs of the tables below, `tlapm <module>_proofs.tla` for the proofs.

## 1. The system

### Components

| Component | State | Operations | Status |
|---|---|---|---|
| File capture v1.0, `socketExp/fileCapture.c` | the tables `fragments[]` and `sizes[]`, the counters `j` and `totalbytes`, the buffer at hand (`hdr`) | the first `recv`; one iteration of the loop (failed, rejected, duplicate, new fragment); `write_to_file` | modelled |
| File capture v1.1, `socketExp/fileCap1.1/fileCapture.c` | the same tables and a `frag_count` per socket (`many_capture[]`), the socket scanned now and the one before (`i`, `old_i`) | the scan for the first frame; one iteration; the two `realloc` calls; `missing_index`; `write_to_file` | modelled |
| `tx_file`, the wire and the socket queues | the shuffled order and the place in it; which senders run; the frames waiting in each raw socket | send, lose, damage, stop, exit on an empty fragment, stray frames (`tx_raw.c`) | partly: `tx_file` is in the repository as a binary only |
| `socketExp/concurrentFileCaptuure.c` | | opens its sockets and ends | not modelled: it does not compile (`many_capture_t` is nowhere declared) |
| CRC-32, `crc32_for_byte` and `crc32` in both capture programs | the table, the sum | a step per byte | modelled |
| `Examples/rx_poll.c` | the poll set of two sockets, the receive buffer | check, open, `poll`, `recv` on the sockets reported ready | modelled |
| `Examples/rx_raw.c`, `tx_raw.c`, `myether.c` | the receive buffer; the frame that is repeated | check, open, receive and print; check, open, fill, send for ever | partly: the helpers of `myether.c` by their results, `net_print_packet`, `net_send` and the non-blocking socket, which none of the programs uses, not at all |
| Driver `hello_world.c` (`kernel_modules/kern_work/kern_template`) | `Age`, `device_open_count`, `msg_buffer`, `msg_ptr`, `new_data_is_ready`, the wait queue `fortune_wait`, the module's reference count | open, release, read, write, ioctl set/get, poll, write to `/proc/hello_proc`, insert, remove | modelled |
| `user/user.c` (userapp) | `age`, the open file | `poll`, `ioctlset` and `ioctlget` on the device | modelled, as processes of the driver's model |
| `Mosquito_client/publisher.c`, `subscriber.c` | a connection, a message in flight, a count of messages received | connect, publish, wait, subscribe, receive, disconnect | modelled, with the broker and the Paho library as external actions |
| Maze solver `maze/main.c` | `maze[][]`, `isChanged`, `count` | a step of the scan, the end of a pass | modelled; reading the file is not |
| `slice.cpp` | the table `M` | fill an entry; answer a question | modelled |
| `more/main.c` | the options, the place in the file, the line and the place in it | read an option, skip lines, read a line, print a character, end a row | modelled |
| `CunitExample/mylib.c`, `matrix/matrix_lib.c` | none (functions) | a linear search; a product of matrices of floats | not modelled: nothing in them is beyond a unit test |
| `CunitExample/main.c`, `testmylib.c`, `matrix/main.c` | none | test harness, printing | not modelled |
| `mem.cpp`, `prob.c` | none | exercises | not modelled: `mem.cpp` does not compile, `prob.c` prints a random number |

### How they interact

```
  tx_file(f) ... tx_file(g)        one process per file, each repeating its fragments
       \             /             for ever, in an order shuffled once, 1 ms apart
        wire: loses, damages
             |
   raw socket queue(s)             one per ether type; full => frame dropped
             |  recv (blocking)
   capture_file  ->  write_to_file        one thread, no shared memory


   userapp poll | ioctlset | ioctlget, cat, echo         echo > /proc/hello_proc
        \___________ one opener at a time ______/                 |
          dev_open .. dev_poll/read/write/ioctl .. dev_release    hello_write_proc
                    \__________ globals of hello_world.c ___________/
                       wait queue: sleeper in dev_poll, woken by either write
                       module reference count: rmmod / insmod


  tx_raw  -- send -->  network  -- one queue per ether type -->  rx_raw | rx_poll
             an interface that goes down leaves an error on each socket bound to it

  publishers  -- connect, publish (QoS 1) -->  broker  -- forward -->  subscribers
              <-- acknowledge --        one connection per client ID
```

The maze solver, `slice` and `more` are sequential and stand alone; both capture
programs call `crc32` for every frame.

### What is hard in it, and what must hold

* **Capture.** Nothing acknowledges a frame, so the receiver must cope with every
  repetition, order, loss and damage. It ends the loop on a counter alone, and it
  computes `done` *before* it counts the frame at hand; it compares an index with
  the count of the frame's own header and not with the size of its tables; it
  reads `hdr` after the loop and again after the buffers have been freed; it does
  not check the first frame. It must end, deliver each fragment once and in place,
  and stay in its memory. v1.1 adds several blocking sockets scanned in turn
  and tables that are reallocated when a socket's frames carry a new count.
* **Driver.** No lock anywhere: an open count that is tested, then counted; a
  cursor shared by readers and two kinds of writer; a data count taken down by a
  sleeper that may have been woken by a signal; no `.owner`, so that only the
  handlers' own `try_module_get`/`module_put` keep the code in memory. One process
  must hold the device, the module must not go while it is open, data must
  wake a sleeper, whenever the writer comes between its test and its sleep, and the cursor must stay in its buffer.
* **Maze.** The scan changes the array it is reading: what it leaves must not
  depend on the order, no way through may be lost, and it must end with no dead
  end.

* **Raw tools.** `rx_poll` asks two blocking sockets in turn what `poll` said of them a
  moment ago; `revents` is initialised by nobody but a successful `poll`, and a failed one is retried with
  `continue`; the second entry of the poll set never gets its `events`
  (`rx_poll.c:92`). The receive buffer is never cleared, so a message is printed up to
  whichever NUL comes first. `recv` must be called where it returns, no socket may starve the
  other, and a message must come out as it was typed.
* **MQTT.** The result of `publishMessage` is dropped, "delivered" is printed whatever
  `waitForCompletion` returned, all publishers share a client ID and so do all
  subscribers: connecting ends the connection of another one at any point of its work. Returning 0 must
  mean that the broker has the message; a subscriber must print ten messages, in the broker's order and without a gap, and end.
* **Algorithms.** `slice` reads entries that must have been written before, or zeros win the
  minimum; `more` ends a row in three different places and counts characters with its
  loop's index; the checksum must notice damage wherever it is.

The full list of hazards, each with its line and the properties that watch it, is
`hazards` in `PROJECT.json`.

## 2. The modules

| Module | Stands for | Uses |
|---|---|---|
| `CaptureFormat` | the packed header `capture_format_t`, the frames, the checks of length and CRC, the payload kept | |
| `TxFile` | `tx_file`, `tx_raw`, the wire, the socket queues | `CaptureFormat` |
| `Reassembly` | *abstract*: slots filled once, delivered only when none is missing | |
| `FileCapture` | v1.0, open to any frames | `CaptureFormat`; refines `Reassembly` with one channel |
| `FileTransfer` | v1.0 behind its queue and senders; fairness | `FileCapture`, `TxFile` |
| `MultiCapture` | v1.1, open to any frames | `CaptureFormat`; refines `Reassembly` with a channel per ether type |
| `MultiTransfer` | v1.1 behind its queues and senders; fairness | `MultiCapture`, `TxFile` |
| `HelloDev` | the driver, its processes, the scheduler, insmod and rmmod | |
| `MazeGrid`, `DeadEnds` | the places of a maze; *abstract*: wall up dead ends in any order | |
| `Maze` | `solve_dead_end_fill` step by step | `MazeGrid`; refines `DeadEnds` |
| `Crc` | `crc32_for_byte`, `crc32`: a step per byte | |
| `RawTools` | `tx_raw`, `rx_raw`, `rx_poll`, the kernel's queues | |
| `Mqtt` | `publisher`, `subscriber`, connections and broker | |
| `Slice`, `More` | `slice.cpp`, `more/main.c` | |
| `MC*` | small instances of the above; `MCPrograms` is one for the last five modules | |
| `*_proofs` | the theorems of section 5 (`Programs_proofs`: `Crc`, `Slice` and `More`; `Messages_proofs`: `RawTools` and `Mqtt`) | the modules and TLAPS |
| `Recursion` | induction over the natural numbers and recursive sequences, as theorems about sets | `WellFoundedInduction`, TLAPS |

`map` in `PROJECT.json` gives for every definition the lines it stands for.
Definitions marked *mutant* in the modules are plausible mistakes in that code (a
dropped check, a counter off by one, two steps swapped). No specification uses
them. Each property has one that breaks it: put in the place of the definition
it varies, it makes TLC report a violation.

### The capture programs

One action of `FileCapture` or `MultiCapture` is one iteration of the loop, from one
`recv` to the next: the program has one thread and nothing else sees its memory,
so the only interleaving is that of frames arriving in the queue, which `TxFile`
does frame by frame. The actions are named for the ways an iteration goes:
`RecvFails`, `Reject`, `Duplicate`, `StoreFragment`, `OutsideTables`. In the
models

* a frame is a record of the header's fields, whether its data match `data_crc`
  (`"intact"` or `"garbled"`), and the number `recv` returned. The CRC's arithmetic
  is not modelled. Sizes are the real numbers of bytes: the comparisons with
  `RX_BUF_SIZE` (1500) and the header's size (82) are evaluated as written;
* `fragments`, `sizes` are functions whose domain is what the program has
  allocated. An access outside it sets `pc` to `"undefined"`, where the
  specification says nothing more;
* `buf` records what happened to the buffer `hdr` points into (stored, leaked,
  freed), so that "is this header still readable" can be asked;
* in v1.1 `realloc(p, n)` keeps `n` *bytes*, as the code passes it: the domain
  becomes `1 .. n \div 4` for `sizes` and `1 .. n \div 8` for `fragments`;
  what is new within it is uninitialised (`Unset`), and reading outside it is undefined.

`tx_file` exists as an executable only. Its model (external in `map`) says what the
receivers and the README of the receivers rely on: it shuffles the fragment
indices once, sends the fragments in this order again and again, a millisecond
apart, goes on after a failed send, and exits when it reads an empty fragment,
which happens when the file's size is a multiple of the fragment size.

### The driver

A step of `HelloDev` is the code between two points at which the scheduler could
run another process. Where those points are depends on the kernel, so they are a
variable: `preemptible` is chosen initially from the constant `Kernels` and never
changes. In user mode and asleep a process always lets others run; at a point of
its handler, only if the point is in `preemptible`. Four kernels matter:

* none: one CPU without preemption;
* `CopyPoints`: one CPU with voluntary preemption, where copying from or to user
  memory may schedule. This and the first are the kernels the driver is built
  for (`kernel_modules/kern_work/README.txt:15` boots it in qemu, x86_64, without
  `-smp`: one CPU);
* `WaitPoints` and `DataPoints`: one CPU with preemption where the data count is read, written and
  waited for, between test and sleep, and between count and wake-up: where a wake-up could be lost;
* `HandlerPoints`: anywhere, which stands for several CPUs.

The wait is modelled as the kernel does it. `wait_event_interruptible` tests (`PollPass` when there are data, `PollWait`
when not), puts the process on `fortune_wait` (`Enqueue`), tests once more and
sleeps (`Sleep`). A sleeper has no step until `wake_up_interruptible`, a step of its own behind the one that stores the
count, has taken it off the queue (`WakeUp`, then `Woken`), or until a signal. Of the end of `dev_release` the decrement, `module_put` and the return are three steps
(`Release`, `PutModule`, `ReleaseReturns`): its last lines run without a reference.

The processes: `Pollers` (`userapp <dev> poll`), `Setters` (`userapp <dev> ioctlset`), `Getters` (`userapp <dev> ioctlget`),
`Readers` (`cat`, which reads until it gets 0), `DevWriters` and `ProcWriters` (a
shell's `echo`). `reg[p]` holds what a handler has loaded of a shared global and
will still use, so that lost updates of `device_open_count++` and
`new_data_is_ready--` are in the model. A character is 0 (NUL) or 1 (any other).

Assumed of the kernel: a user page is resident (a copy may schedule but not
fail); an oops kills the process and closes its files but does not panic; rmmod
waits for calls of the `/proc` entry. `copy_to_user` in `dev_read` has its first
two arguments swapped: nothing reaches the user, and the model copies nothing.

### The maze

`Maze` starts where `main` has read the file: 0 is open, 1 is wall. Its constant
`Size` is the width of a line, newline included, and `Readable` gives the mazes `main` can produce. The last
column, of newlines, is open, and so is column `Cut` (63), where the terminating NUL is written whatever the width. The last row is
blank when the file ends with a newline (the read that finds the end leaves the cleared buffer), and has walls when
its last line lacks one. The scan never fills in the border. A step looks at one place; the end of a pass is a step of its own.

### The raw tools

`RawTools` has one sender and one receiver (`tool` says which) on two hosts. Everything an interface can answer is a
choice: `net_device_up` returns -1, which counts as up, when the flags cannot be read; a
socket may be bound to an interface that is down, and one that goes down leaves an error which
`recv` returns before any frame. `Arrive` delivers any frame sent so far, any number
of times or never, to the socket of its type unless the queue is full. What is uninitialised in
`rx_poll` is chosen in `RawInit`: both `revents`, and whether `ufds[1].events` has
`POLLIN` (`second_events`), which line 92 was meant to set. A `poll` that fails
changes nothing and is called again (`PollFails`); `POLLERR` is not looked at, so with an error and
no frame the loop spins. The buffer keeps the rest of a longer frame, and `AsString` is
what `%s` makes of it.

### MQTT

The library and the broker are external, as the programs use them: sessions are clean, a
message is acknowledged when the broker has taken it, a client that connects ends the
connection of any other with its ID. `online` is the broker's view: a client may learn later
that it lost its connection, and first reads what had reached it. A client that ends sends its DISCONNECT behind what it
has sent already: the broker takes that first (`Disconnected`). `counted` is the loop index of the subscriber: a `receive` that
times out (`NoMessage`) leaves it alone, a message moves it on. A topic the library
refuses (`IllegalTopics`) leaves `publishMessage` with a result nobody looks at and
`waitForCompletion` with nothing to wait for. Of the options only the topic is modelled.

### CRC, slice and more

`Crc` sums the data as sent and as they arrived side by side. A 32-bit word is the set of its bits that are
1, so exclusive or is symmetric difference and a shift is a map of the bits; the loop of eight
steps is written as doublings, the table as the function it is filled with. `Slice` fills
`M` entry by entry, with the minimum as the code takes it; a board outside the table is
answered with `Garbage`. `More` prints character by character; a character is its place in the file,
a file is the lengths of its lines, and lines are shorter than the buffer of 1024 bytes. What `atoi` makes of an
argument is the constant `Numeral`, any integers: with a negative width C's `%` finds the multiples of its absolute value
(`Columns`), and a negative number of lines skips none (`Skipped`). A width of 0 divides by zero (`DivideByZero`). A file that cannot be opened (`CannotOpen`) ends the program.

## 3. The runs

Bounds are constants, named in the modules and given in the `.cfg` files.

| Run | Instance | What it shows |
|---|---|---|
| `capture_single` | one sender at a time: a file of three fragments (1000, 1000, 500 bytes) in every order, or a file of one; loss, damage, stray frames, a failing link | `CountExact`: `j` counts every index once, and `totalbytes` is the total of the sizes held. `OutputIsTheFile`: what is written is that file, every fragment at its own place, as sent but for the one received first, which nothing checks and which may be damaged or cut; the size check after the loop never turns it away. `FirstCopyKept`: nothing replaces a fragment held. `ImplementsReassembly`. `TransferEnds`: once the first frame is in, it ends, although the last fragment itself does not end the loop |
| `capture_crosstalk` | any two of: three fragments, two fragments over 1500 bytes, two fragments and the empty one; the first may be stopped | with two files on one ether type the program leaves its tables only by a bad index (`OnlyBadIndexUndefined`), never reads a freed header (`HeaderLive`), holds at most one unverified fragment (`OneUnverified`). `IInv` is the invariant of the proof |
| `two_types` | two files of two fragments on two ether types, all orders, link failures, stray frames | v1.1 counts exactly, concatenates both files in order, implements `Reassembly` with two channels, ends; it goes wrong only on the first frame or after a `realloc` |
| `three_types` | three ether types with files of one, eight and one fragment | `TypeOK` through `realloc`: no table grows beyond what `frag_count` says; `OnlyTwoServed`: the third ether type is never read |
| `hello_dev` | two pollers and one process of every other role, the three kernels of one CPU, a message buffer of 3, calls of 2 bytes, data count up to 2, two signals, rmmod and insmod | `OneHolder`, `OneCharHeld` (the cursor stays in the buffer without preemption), `NoneTakenTwice`; `SleeperWakes`: no wake-up is lost, neither by a writer that comes between a poller's test and its sleep nor by a poller that tests between count and wake-up |
| `hello_dev_smp` | one poller, setter and writer of each kind, preemption anywhere, a buffer of 2, calls of 1 byte | what several CPUs leave: `RefsExact` (the references are the open files, so the module stays), `SetterSeesItsAge`. The driver's other promises need the kernel of `hello_dev` |
| `maze` | all 6656 mazes of 4 by 4 characters with one way in at most: through the top row or the left column over a blank last row, or through a last row that has walls | `NoDeadEndLeft`, `LeavesTheCore` (the result is that of removing all dead ends at once, again and again), `PassesBounded` (every pass but the last has walled up a place), `Terminates`, `ImplementsDeadEnds` |
| `programs` | one of the five stand-alone programs per behaviour: messages of three bytes and four values, of five bytes and two, and of five bytes whose first and last give damage of exactly 32 bits; the 5 by 5 table; an empty text and three with and without their last newline, under ten command lines, two of them with negative numbers; three messages, two stray frames, queues of two, a buffer of three characters; two publishers and two subscribers that want two messages, a legal and an illegal topic, one lost connection | `BurstSeen`: damage within 32 bits in a row changes the sum, whatever else the data are. `FewestCuts`: every filled entry is x·y - 1. `RowsFit` and `KeepsText`: `more` prints no row wider than the screen (for a width -n, than n) and no other text than it should. `RecvNeverBlocks`, `PrintsTheMessage`, `QueuesDrain`: the raw tools. `SuccessMeansTaken`; `PrintsInOrderOnce`: a subscriber prints in order, leaves nothing out, and has printed as many as it wanted when it ends; `SubscriberFinishes`: MQTT |

Four runs end in a violation. Each contradicts a text of the repository, and is
listed with it under `findings`:

| Run | What the code does |
|---|---|
| `unequal_halves` | two files of one and two fragments: v1.1 passes `realloc` the number of fragments where it needs bytes, and uses a table that is too small (`fileCapture.c:214`). `split -n 2` makes such halves when one is a byte longer |
| `silent_peer` | one of two senders stops: v1.1 blocks in `recv` on its socket, the frames waiting on the other are never read (`fileCapture.c:166`), where the README asks for `poll` |
| `damaged_first_frame` | the first frame's `data_crc` is not compared (`fileCapture.c:151`) and its good repetitions are discarded: the outcome differs from the file |
| `poll_never_wakes` | the poll test of `notes.txt`: `dev_poll` takes the data itself and returns no event (`hello_world.c:159`), so `poll(2)` sleeps on and `userapp` never reads |

### Why these bounds are enough

* *Capture.* `Done` compares a counter with a count, so what matters is whether the
  frame at hand completes the file, comes before or comes after: three fragments
  have all three cases, and a file of one fragment is completed by the first frame.
  A queue of one frame (`MaxBacklog`) already lets a sender run ahead of the
  receiver, and reordering comes from the shuffle, not from the queue. The senders repeat, so
  repetitions are unbounded. `eight` fragments is the least with which a table
  cut by `realloc` keeps a pointer. `capture_crosstalk` reaches the case of two files
  with different counts, a fragment cut by `recv`, and the sender that exits by itself.
* *Driver.* Two pollers are the least with which an open can be refused by the same role
  and two sleepers would compete; a buffer of 3 and calls of 2 bytes
  let a preempted copy loop run past the end. `MaxReady` and `MaxSignals` bound
  counters that would otherwise grow for ever; at 2 a sleeper can find too much,
  nothing, and a count a signal has made negative. Two kinds of writer are the two callers of
  the wake-up; a signal is the only other way out of the wait.
* *Maze.* A 4 by 4 square has a block of 3 by 3 inner places beside a fifth row and column, the newlines and the last
  row (`Size` is 5, `Cut` the column of the newlines): enough for dead ends made behind the scan, loops, and several passes.

* *Stand-alone programs.* Damage in the last, the first or a middle byte, undone or not by the
  bytes after it, needs three bytes; the widest burst that is always seen, aligned to bytes or
  beginning and ending within one, and an intact byte next to it, need five. 5 is the `MAX` of `slice.cpp`. Widths of 1, 2, 3 and -2 meet lines shorter
  than, equal to, one longer than and a multiple of them, folded and cut; 3 lines skipped, 1 and -1 are more than some texts have, within, and none. A buffer of three has a message that fits with its NUL,
  one that just does not leave old characters, and a stray frame that fills it. Two clients of a kind
  are the least that can take over each other's connection; two wanted messages the least that have an order.

### Fairness

* `FairTransferSpec`: the receiver runs whenever the socket it reads has a frame (it
  is the only thread of a runnable process: weak fairness). A sender goes on sending
  (weak). The wire may lose or damage a given fragment any number of times but not
  for ever (strong fairness of its intact delivery): without it no program could
  receive the file. `KeepsUp` says that no frame finds its queue full, for the
  sender sleeps a millisecond after every frame; the runs that check liveness use it.
* `FairSpec` of `HelloDev`: every process that can run goes on (weak, on all of a process's steps together). A sleeper that is still on
  the wait queue has no step, so fairness does not wake it: only the writer's `WakeUp`, or a signal, does.
  Nothing makes a user open the device, insert a module or send a signal.
* `Maze`: the one thread goes on (weak).
* `RawFairness`: the receiver's process is scheduled, and signals do not make every `poll` fail
  (weak, on the receiver's steps but `PollFails`). Nothing is assumed of sender, network or interface.
* `MqttFairness`: a subscriber is scheduled, `receive` returns a message that has come, and a lost connection is
  noticed in the end (weak; the library's keep-alive is 20 seconds). Nothing is assumed of publishers or broker.

Deadlock is not checked: the programs end, and a receiver without senders
waits.

## 4. What the abstract specifications say

`Reassembly` is what both capture programs promise, whatever arrives: a slot is
filled once, only the first fragment may be bad, and what is delivered has no slot
missing. The refinement maps the tables through `Qualities`, which forgets
everything of a payload but whether it is missing, good or bad. It holds when all
files on the ether types are cut into equally many fragments (`EqualCounts`);
`unequal_halves` shows that v1.1 needs the condition, and the crosstalk run shows
the index outside the tables of v1.0 without it.

`DeadEnds` walls up any inner place with one exit, in any order. `Maze` refines it, and
it preserves every set of places each of which has two exits within the set:
a way from one border to another, or a loop.

## 5. What is proved

For every value of the constants, by TLAPS (the theorems are listed under
`theorems` in `PROJECT.json`). The only assumptions are the named `ASSUME`s of the
modules.

* `FileCapture_proofs`. `IInv` is inductive: the properties alone are not. That `write_to_file` meets
  no NULL needs `sizes[]`, which marks a fragment as received, and the pointers of
  `fragments[]` to agree (`MarksAgree`). `HeaderLive` holds for an indirect reason: `done` is computed before the frame is counted, so
  the frame that leaves the loop found every fragment held, is hence a duplicate, and its
  buffer is leaked, never stored and never freed (`LeftByDuplicate`). From `IInv`: `TypeOK`,
  `CountExact` (of the bytes as of the fragments, by `TotalGrows`), `HeaderLive`, `OnlyBadIndexUndefined`, and with the lemma
  that an accepted frame is an intact fragment (`AcceptedIsOriginal`)
  `OneUnverified` and `FirstCopyKept`. The refinement of `Reassembly` assumes `EqualCounts`
  and adds one invariant, that the tables have that many entries (`SameCounts`).
  A transfer with its senders, wire and queue is a run of `FileCapture` (`TransferRunsCapture`):
  what is proved of any frames holds for theirs. The lemmas on frames are in `CaptureFormat_proofs`.
  `OutputIsTheFile`, both halves, when one sender at a time uses the ether type (`OneAtATime`, a condition on
  `SendingSets` that `capture_single` meets and `capture_crosstalk` does not): then the queue
  holds frames of one file or stray ones (`OnlySender`), every payload is at its own index, as sent unless it was the first to arrive (`HoldsFile`), and `hdr` is a frame of that
  file (`OnlyFile`); the size check cannot fail, since the byte total of a complete table is the total of the
  fragments' sizes, which is the size of the file (`CutAssumption`: `tx_file` cuts up the whole file and
  nothing else; TLC evaluates it in every run of the capture programs).
* `MultiCapture_proofs`. A `realloc` leaves a channel with fewer places than `frag_count` says, for good, so
  nothing simple holds of it again. `MInv` therefore speaks of the channels that are still `Intact`:
  pointers and sizes agree, the counter is the number of distinct indices, and when the loop has been left nothing is
  missing (`ChannelOK`); whatever goes wrong is the first frame's doing or a reallocated channel's. From it
  `TypeOK`, `OnlyResizeUndefined` and, of channels that were not reallocated, an exact counter and no missing fragment
  (`IntactChannelsAreExact`), without any assumption on the files. Under `EqualCounts` no channel is
  ever reallocated (`EqualLayout`), hence `CountersExact` and the refinement of `Reassembly`. Of `MultiTransfer`:
  it is a run of `MultiCapture`; when the interface stays up (`LinkMayDrop` is `FALSE`) only two sockets are
  read (`OnlyTwoServed`); and with one file per ether type, of any lengths, a file that is written is the files
  one after the other (`ConcatenatesTheFiles`), because a queue holds frames of its own file only (`QueueInv`), which
  are kept at their index (`Placed`), and `write_to_file` got through only if none was missing (`WrittenWhole`).
* `HelloDev_proofs`. `OneHolder` on every kernel that does not preempt `dev_open` and
  `dev_release`, for any set of processes. Its `IInv` adds that one process at
  most is inside a handler at a point that cannot be preempted (`OneBusy`), that the value a
  releasing process has loaded is the count (`CountHeld`), and that the references follow the
  holders (`RefsFollow`), up to the `module_put` of a release, without which an rmmod could reset the count under an open file.
  On every kernel: `TypeOK`; `RefsExact` (`RefsInv`: an open before its `try_module_get` holds no reference yet, and the last lines of `dev_release`, behind
  `module_put`, hold none any more: the two places where the module can go under running code); `SetterSeesItsAge` (`AgeInv`: between setting and reading the file is open, so no insmod
  resets the age). Where the handlers concerned are not preempted: `OneCharHeld` (`CursorInv` follows the
  cursor through the copy loops) and `NoneTakenTwice` (`DataInv`: what has been read of the data count is still true).
* `Maze_proofs`. For any size: type correctness; when the scan ends no dead end is left,
  from `NoneBehind` (while a pass has changed nothing there is none behind it);
  the scan implements `DeadEnds`, by the lemma that the four tests of the loop
  body mean "one exit" (`TestsMeanOneExit`); and no passage, that is no set of places each with two
  exits within it, is walled up (`PassagesStayOpen`). The reference that `LeavesTheCore` compares
  the result with, `Core`, removes all dead ends at once, again and again: a recursive function. It keeps every passage,
  cannot go on removing for more rounds than there are places (`PruningEnds`), and what it stops at has
  no dead end: it is the greatest passage (`CoreIsGreatestPassage`). What the scan leaves contains it and, having
  no dead end, is a passage itself (`OnlyTheCoreIsLeft`); the same holds of `DeadEnds`, which fills in any order
  (`OrderDoesNotMatter`). `PassesBounded`, by counting what has been walled up: a pass that
  has set `isChanged` is paid for by a place of its own (`PassesInv`), so the loop is repeated no more often than there are open places.

* `Programs_proofs`, on `crc32`. For data of any length, damage within 32 bits in a row changes the sum. The shift of
  `crc32_for_byte` and hence a step of `crc32` is a bijection on words (a shift that drops a 1 leaves bit 31
  set through the polynomial), so sums that differ stay different under equal bytes. From the first damaged byte,
  with lowest damaged bit b, the sums come out different at or above bit 24 + b (`FirstDifference`, shift by shift); every
  byte after it moves what is left of the difference down by eight bits at most (`DifferenceShifts`). Counted along the
  stream, the sums therefore differ beyond the 32 bits from the first damaged one on (`Reaches`), where damage within them
  cannot make up for it.
* `Programs_proofs`, on `slice.cpp`. For a table of any size each filled entry is x·y - 1: whichever cut
  comes first, the pieces take as many as there are squares in each less one. The proof needs that the loop fills
  rows in order (`Filled`), and that `INF` is more than any board takes.
* `Programs_proofs`, on `more`. For any files and any integers `Numeral` gives: a screen of width n, or -n, has |n| columns. `RowsFit`: `RowInv` bounds the row that is still open by what the loop's index says
  (`RowLength`: the index, modulo the screen when folding, nothing once the line has come out with its newline). `KeepsText`: `TextInv`: what has come out is in order of
  line and place, and is what the options let through of the lines read so far.
* `Messages_proofs`, on the raw tools. `RecvNeverBlocks` from `RxTypeOK` and `PollInv`: only a `poll` that succeeded leads to
  the two tests, and what `revents` says then stays true until the socket is read, since nobody else reads
  it. The other side of line 92: where `ufds[1].events` has no `POLLIN`, no frame of the second type is ever
  received (`UnaskedTypeIsNeverRead`, an action property that only the theorem states). `PrintsTheMessage` from `PrintInv`, for any buffer and any message: the NUL that
  `tx_raw` sends is the first one.
* `Messages_proofs`, on MQTT. `SuccessMeansTaken` from `PublisherInv` (a message that is awaited no longer was
  acknowledged, hence taken). `PrintsInOrderOnce`: that each prints in order and leaves nothing out, from `OrderInv`
  (what is printed followed by what is queued ascends, and is all of the matching messages up to some place of the log), and that it ends with as
  many as it wanted, since the loop's index is the number it has printed.
* `Recursion`. The library states induction with an operator as parameter. Here a property is the *set* of numbers that have it: a number without the property
  would have a least one (`LeastNumber`, from the well-foundedness of <), which leads to `Induction`, and
  from there to the existence of a sequence with a given first value and step (`SequenceExists`). `TotalOf` and
  `Core`, the two recursive functions of the models, are proved about through it.

### What is only model-checked

Liveness (`TransferEnds`, `SleeperWakes`, `Terminates`, `QueuesDrain`, `SubscriberFinishes`), which the prover does not reach. Every
invariant and every action property the passing runs check is the conclusion of a theorem.

## 6. What is not modelled

* In the capture models, what the sum cannot tell: damage spread over more than 32 bits in a row that leaves `data_crc` the same.
  `Crc` shows that no narrower damage does. A header damaged
  on the wire: Ethernet's own check discards such frames before a raw socket sees them.
* `fopen`, `fwrite`, `malloc` failing: the capture programs do not look. Their leaked
  buffers are noted (`buf`), the heap is not bounded.
* The command line, and more than ten ether types on it (`SocketsAssumption`).
* What the ioctls of `myether.c` return beyond success and failure, its unused `net_print_packet`, `net_send` and
  non-blocking sockets; the constant text of `/proc/hello_proc`; messages.
* That `rx_poll` serves its second ether type at all: `QueuesDrain` holds of a socket that is
  polled, and whether the second is depends on what the stack held (`second_events`).
* `mylib.c` and `matrix_lib.c`: a search and a product, one loop nest each, without state. A model would be the
  function again.
* Options of the MQTT programs but the topic; in `publisher.c` an address given with `-h` is
  compared with `-m` and `-t` once more (lines 27-39).
* In `more`, lines of 1024 bytes and longer, for which `getline` is given the address of an `int`.
* Reading the maze: `getline` is given the address of an `int`, so what it reads depends
  on the stack; the model starts where the read succeeded. Mazes of fewer than 64 columns: `main` writes the NUL of column 63 past the end
  of a row, which may be past its allocation. The model stands for those that are wide enough (`Cut` is a column
  of the maze: `GridAssumption`) and square.
* `SleeperWakes` of two pollers on a kernel that preempts `dev_open`: with both inside, the late decrement of one may overwrite
  the other's and leave the count above zero with nobody to wake. The property excepts the case.

## 7. Plan

What is left, in this order:

1. **Reassembly channel by channel.** The refinement of v1.1 assumes `EqualCounts`; with `IntactChannelsAreExact` it can be
   stated for the channels that are never reallocated.
2. **Progress of the other programs**: what a loop can do at most between two steps that bring it nearer to its end.
