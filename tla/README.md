# Verification of lazy_coding_skills

This directory holds TLA+ models of the libraries under `src/c_and_cpp/native`,
the TLC configurations that check them on small instances, and proofs checked
by TLAPS. The modules are translated from the source files; `PROJECT.json` says
which lines each definition stands for.

## 1. The system

The repository is a collection of small libraries that do not depend on one
another, with the tools that one programmer uses around them. A program takes
the source files it needs and calls them; the libraries meet only through the
program, the kernel and (for threads and signal handlers) shared memory. An
integer result is an error when negative, success when zero and a number of
units done when positive (`src/README.md:39-45`).

| component | state | operations | what is hard | what makes it correct |
|---|---|---|---|---|
| **Thread queue** `thread_queue.hpp`, `test_thread_queue.cpp` | mutex, condition variable, container, an atomic count that is also read without the mutex | push one / many / many with, pop some / all (and `_as`), wait, wait until required for stop, notify | any interleaving; swaps and splices; lost, spurious and misdirected wake-ups; timeouts | FIFO, nothing lost or duplicated, the count is a true length, atomic to its clients, a stop is heard, calls return |
| **Signal handling** `signal_handling.{h,c}` | table of signals (flag, handler), critical flag; the kernel's dispositions | global init and reset (also by `atexit`), register, deregister, clear, register two lists, the handlers | handlers run between any two steps; signals merge; `wait()` in a handler; partial failure and rollback | only a signal that is kept registered meets a freed table, registration is all or nothing, children are waited for, a critical signal ends the program |
| **Character device group** `chardev_group.{h,c}` | group, region, `cdev`, class, table of devices; the kernel's references | create, make, unmake, find, destroy; the demonstration driver's open, release, init, exit | no lock anywhere; five steps of creation that may fail; a device file is usable before its item is | table and class agree, no dead device is read, what is left behind is known, one opener at a time |
| **Camera (V4L2)** `camera_v4l2.{h,c}` | descriptor, format, rate, planes, I/O mode, buffers, streaming flag | open, query, format, size, rate, allocate, start, fetch, enqueue, stop, free, close | buffers belong to the driver or to the program in turn; undo over three kinds of memory; candidate modes tried in order; other programs set the same device | no buffer used by both sides, nothing leaked but what could not be marked or released, what is allocated is released by the mode that allocated it, the object knows the format that the driver has |
| **Socket supplements** `socket_supplements.{h,c}` | descriptors; no state of its own | create, non-blocking, bind, listen, accept, connect, check status, send, receive, destroy | partial transfers, `EINTR`, timeouts and late answers, peers that close | what is reported as sent or received is what was, a timeout is told from an error, no descriptor is lost |
| **Sleeps** `sleeps.{h,c}` | none; `errno` | sleep seconds / milli / micro, and `_fully` | signals interrupt `nanosleep()`; `errno` outlives a success | a full sleep sleeps at least the time and ends |
| **INI file** `ini_file.{h,c}` | a document: lists of nodes, details and strings in the heap; newline and indent settings of the process | parse, traverse with a callback, find, rename a section, set key, value and comment, dump to a stream or a buffer, destroy | pointers into nodes that callbacks change; any allocation may fail in a document half built; buffers that grow once | dumping and parsing agree, nothing dangles or is lost |
| **INI map** `ini_map.hpp` | an object: path, map of pointers into a document | construct, copy, move, assign, sync, look up, destroy | objects share the document, which changes under them | map and document agree after a sync, each object frees what it owns once |
| **Communication protocol** `communication_protocol.{h,c}` | an initialisation flag; tables of fields given by the caller | serialise, parse, clear | counts that size arrays, structs inside structs, arrays that are used again, a buffer that grows once, allocations that fail | parsing what was serialised gives it back, no buffer is overrun, nothing is lost |
| **Watchdog**, **device class supplements**, **syslog logger**, **string supplements** | descriptors at most | thin calls of `ioctl()`, `class_create_file()`, `syslog()`, copies | little | - |
| **Qt widgets**, **templates**, **scripts, makefiles, editor settings**, **vendored getopt** | - | - | outside: user interface, text, configuration, third-party | - |

How they interact: in the repository, not at all, except that `ini_map.hpp` is
built on `ini_file.c` and `test_thread_queue.cpp` on `thread_queue.hpp`. What
interacts are the actors inside each library, and these the modules compose:
threads on one queue, handlers with the program that they interrupt and with
its children, threads that probe, open and unload with the kernel's class and
reference counts, a camera object with the driver's buffer queue and with
other programs that use the device, a client with a server and the network
between them, map objects with the document that they point into.

## 2. The modules

| module | models | lines of code it stands for |
|---|---|---|
| `FifoQueue` | what a thread queue promises: each push and pop takes effect in one step between its call and its return | (abstract) |
| `ThreadQueue` | every member function of `thread_queue_c` that changes state, by any number of threads, one access to shared state a step | `thread_queue.hpp` |
| `TestThreadQueue` | `ThreadQueue` with the three threads of `multi_threading_test()`, or with any program's, and fairness | `test_thread_queue.cpp` |
| `ThreadQueueProofs` | theorems about `ThreadQueue`, and that it implements `FifoQueue` | |
| `SequenceLemmas` | facts about sequences, induction over numbers and recursive functions that the proofs share | |
| `SignalHandling` | the library's functions, its handlers, and delivery by the kernel | `signal_handling.c` |
| `SimpleApplication` | `SignalHandling` with the example program of the header | `signal_handling.h:55-81` |
| `SignalHandlingProofs` | theorems about both | |
| `ChardevGroup` | the group's functions in concurrent threads | `chardev_group.c` up to line 244 |
| `ChardevDemo` | `ChardevGroup` with the demonstration driver | `chardev_group.c` from line 246 |
| `ChardevProofs` | theorems about both | |
| `CameraV4l2` | a camera object, the driver's buffer queue, a device that may be pulled out | `camera_v4l2.c`: opening, buffers, streaming, closing |
| `CameraV4l2Proofs` | theorems about `CameraV4l2` | |
| `CameraSetup` | what object and driver agree upon first: capabilities, format, size, rate | `camera_v4l2.c`: up to the allocation of buffers |
| `CameraSetupProofs` | theorems about `CameraSetup` | |
| `SocketSupplements` | a client, a server and the kernel between them, one system call a step | `socket_supplements.c` |
| `SocketSupplementsProofs` | theorems about `SocketSupplements` | |
| `CommProto` | serialisation, deserialisation and clearing of structs, one field a step | `communication_protocol.c` |
| `IniFile` | parser, traversal, setters, dumps and destruction of a document in a heap | `ini_file.c` |
| `IniMap` | `IniFile` with objects of `ini_map_c` | `ini_map.hpp` |
| `IniMapProofs` | theorems about `IniFile` and `IniMap` together | |
| `Sleeps` | six functions on `nanosleep()` and `errno` | `sleeps.c` |
| `MC...` | constants for TLC | |

### ThreadQueue

Variables with a trailing underscore or an obvious name are the fields
(`lock` is `*lock_ptr_`, `waiters` the threads asleep on `*notifier_ptr_`).
`pc[t]`, `call[t]`, `taken[t]` are a thread's place in a member function, the
arguments and the local container `items`. `Call` enters a function, `Begin`
is the unlocked reading of `item_count_` with which some begin, `Acquire`,
`Put`, `Count`, `Take`, `Uncount`, `Notify`, `Unlock`, `Test`, `Sleep`,
`Reacquire` and `Return` are the accesses in the order of the code. The count
has the width of the code's type in that it never goes below zero: a decrement
is written as a subtraction, and `TypeOK` says that the result is a natural
number. `Expire` lets a deadline pass, `SpuriousWake` wakes a thread for
nothing, `RequireStop` makes the stop-waiters' predicate true; the last is a
step of the client, under a mutex that is not the queue's, as in the test
program. Four history variables (`arrived`, `served`, `sawStop`, `informed`)
are read by no guard.

`Linearizable` is `FifoQueue!Spec` under the mapping at the end of the module:
an operation takes effect when the count is changed, which is inside the
critical section, except for a pop that finds the count at zero, which takes
effect when it reads it.

`TestThreadQueue` adds the place `at[t]` of each thread in its function of the
test program. In the other initial state (`Free`) the threads are those of any
program: they make the calls that `Client` allows, in any order.

### SignalHandling and SimpleApplication

`s_sig_info_tables` is "NULL", "allocated" or "freed": `sig_global_reset()`
frees the table at one step and clears the pointer at the next. `named`,
`happened`, `handler` are the table's fields, `action` the kernel's
disposition of each signal, `frames` the stack of the handlers being run. A
handler may begin between any two steps of the program or of another handler
(`Deliver`), for a signal that is pending and whose handler is not on the
stack. `Register`, `Sigaction` and `Rollback` are the steps of
`sig_simple_register()`; `Free` and `Reset` those of `sig_global_reset()`,
which also runs in `Exit` by `atexit()`. Children end (`ChildEnds`) and stop
(`ChildStops`); both send SIGCHLD, and the handler's `wait()` blocks while no
child has ended.

The program may reset the table or exit with signals registered, as the example
in the header does; a handler that then runs crashes the process. `kept` records
which signals the program was told are registered, by the results of its calls.

`SimpleApplication` is the header's example, with a program that also forks in its work
and, if `WaitsItself`, waits for children without the handler. Its lists have
SIGCHLD in them (`ApplicationAssumption`), as the example's have.

### ChardevGroup and ChardevDemo

`held` is what a group has obtained in the five steps of its creation; `items`
its table; `registered`, `minor`, `refs`, `attached` are the kernel's class
and devices. Every call of the kernel is one step. One `Loader` creates and
destroys, `Prober` threads make and unmake, `Opener` threads look up private
data; none takes a lock. `taken` counts the references that `class_find_device()`
takes and nobody puts. A driver that gives no function `free_privdata` (chosen in the
initial state) frees the private data of the items it unmakes itself (`Unmade`), and
those that it has not unmade are left when the group is destroyed. In `ChardevDemo` the loader is the demonstration's
init and exit function, which makes the items itself, and the openers run its
open and release functions, which count with atomic operations; an opener may
come as soon as the device is in the class. It comes to its end ("oops") if it names the
device of an item before the init function has set it (`named`), and then keeps the
driver in use. `driver` is chosen in the initial
state: the demonstration, or the driver of `ChardevGroup` whose probers make
and unmake items while the openers look them up. There are finitely many
openers (`DemoAssumption`), so that they can be counted. The labels of `pc` are
the set `Label`, which `TypeOK` names.

### CameraV4l2

The fields have their names; `buf_pointers`, `buf_file_descriptors` and
`dma_synced_bits` are the sets of cells (buffer, plane) whose pointer is not
null, whose descriptor is not -1 and whose bit is set. `driver`, `queued`,
`filled` and `streaming` are the driver's side, after the kernel's videobuf2
queue; `mappings`, `dmabufs` and `heaps` count what the process really has, to
compare with what the object remembers; `unstored` counts the descriptors that
were dropped because `fcntl()` failed, `refused` the failures of `munmap()` and
`close()`. What these refuse to release is taken to stay mapped or open, as the
code takes it. `switched` says that `needs_dma_sync` was replaced in the stream
that is on. `alloc_buffers()` takes several steps
(`CallAlloc`, `TryMode`, one step that acquires memory up to the cell that
fails, `Undo`, `Cancel`), so that the device can be pulled out in between.
`STREAMOFF` fails only when the device is gone; every other call may fail at
any time. The program frees its buffers before it allocates others (`MayAlloc`),
frees none of a running stream (`MayFree`), starts the capture of buffers that
it has (`MayStart`; `allocated` says whether it has any), perhaps once more and
with another way to synchronise while it runs, and enqueues only frames that it has fetched, as the program at
the end of `camera_v4l2.c` does. `plane_count` comes from the format that
`SetSizeAndFormat` reads back; a program does that while it has no buffers
(`MayFormat`).

### CameraSetup

The part of the object that `CameraV4l2` takes as given. Each `ioctl()` is a
step (`EnumFmt`, `GFmt`, `SParm`, `GParm` and the heads of the functions), so
that another program which has the device open can set a format or a rate in
between (`Others`), and the device can be pulled out (`Unplug`) or exchanged for
another while it is closed. A driver takes what it is asked for if it has it
and otherwise whatever it likes (`Nearest`). `known` is a history variable, read
by no guard: the functions whose success still stands, because neither the
program nor another one has set the thing anew, nor a query changed the type of
buffers for which the format was set. Sizes are single numbers and
rates count half frames, since the object keeps whole frames and compares only
those (`Whole`). A rate that the driver does not tell is replaced by the
fallback; that success tells nothing of the driver.

### SocketSupplements

`th[t]` is the program of thread t and the function it is in: `pc` is the next
system call, `handled` the bytes of this call, `total` those of the calls
before, `status` whether a check that asked for the direction of the transfer
found it. `Select` is `sock_check_status()`, which `sock_connect()` also uses: of
the two bits it fills it passes one to the kernel, and reports both (`asked`,
`FD_ISSET`). `GetError`,
`Examine` and `Verdict` are what follows it. `Send` and `Recv` are one turn of
the loops: the kernel takes or gives any part, up to `Capacity` bytes in
flight, or interrupts, or has nothing. `connect()` may also say `EAGAIN` and begin
nothing, after which `sock_connect()` goes on as if it had. `tcp` is the connection, which the
kernel completes or refuses at any time (`Network`, `Answer`), also after the
caller has given up; `so_error` the error that a reset leaves behind. Both
programs (`Program`, `Choices`) call the functions as the header describes:
they try again after a timeout or a short count, and may close at any time.

### CommProto

`general_serialization()`, `general_deserialization()` and `general_clear()`
walk over meta data and struct together and call themselves for the structs
inside. `stack` holds their frames (loops, place in the meta data, place in the
struct), `mp` is `*meta_pptr`, `handled` is `*handled_len_ptr`; a step is the
handling of one field (`SerializeSimple`, `ParseLength`, `ParseArray`,
`ClearStructs`, ...), the end of a round (`NextRound`) or a return
(`ReturnInner`). Meta data have structs one level deep. Memory is counted by
`blocks`: every allocation may fail, and `realloc()` may move. The caller fills
`src`, serialises it into a buffer of the library or of its own, passes the
whole or a part of the packet on, and parses it into `dest`, whose `usage` is
one of four: cleared between two packets ("clear"); used again, its arrays
having their longest lengths first and never growing afterwards ("reuse"); used
again with arrays that grow, of numbers only ("grow"); or used again by the rules
of the comment in the code ("rules"), which also allow an array that has been
shorter to grow up to its first length. The first three work; the last does
not, see section 6. Clear is called at any time and for any struct: after a
parse that succeeded, was cut or has failed, and again for one that is clear, as
the destructor of a C++ struct does (`communication_protocol.h:49`). Behind a
struct array that has a length and is missing it takes the fields inside for
those that follow (`lost` in its frame), until it finds something that is not what
the meta data say; from there the memory has no meaning, and the model stops.

### IniFile and IniMap

`mem` is the heap: a function from addresses to blocks, which are nodes,
details (with pointers to their strings), strings, the document and the maps.
Addresses are never given out twice (`brk`), so that a pointer to a freed
block is seen to dangle. `parse` holds the locals of `__parse_from()`, and
`ParseLine` reads a line from a stream or a string, recognises it
(`ParsedLine`), allocates its blocks one by one, any of which may fail with the
statements that free the others, and links it. Where the line buffer is not
allocated, which the code does not look at, the program ends ("crashed") unless
it reads an empty stream. `walk` holds the locals of the
two traversal functions; one callback is one step (`CallBack`), whatever the
traversal is for: dumping, editing, destroying or filling a map. `WriteFails` is a
dump to a stream of which one `fputs()` or `fputc()` fails: `CutToStream` is what the
tests of `bytes_written` then leave of the line, mostly without an error. Setters are
operators from the state to the set of states they may leave (`Stored` is the
copy of a string which may fail). `List` is the sequence of nodes from a pointer
on, by a recursive function that follows `next` until NULL. `IniAssumption` says
that texts are strings and sizes numbers. Characters are what the parser tells apart;
words are as short as the buffers are small.

In `IniMap` an object owns its path strings and its map; a map is a set of
pairs of pointers, the first of two equal names winning as in
`std::map::insert`. The program uses documents that it has not destroyed, and
objects after they were moved from only by assigning or destroying them. The
ghost variable `synced` says whether the document was changed after the map
was filled; `dumped` holds what the text being parsed was made of, and whether it is whole; `lost` the
blocks that the code is known to lose (section 6), so that `NothingLeft` tells
of any other.

### Sleeps

One function is called at a time, by one thread; `slept` saturates at
`MaxSlept`.

## 3. The runs

`CHECK_DEADLOCK FALSE` stands where the system really may stop: the bounded
calls, messages or edits have been made, an untimed wait sleeps with nobody
left to notify, the programs of a test have ended, or the process has exited.
The two runs of the camera and that of the sleeps check for deadlock.

| run | instance | what it shows |
|---|---|---|
| `thread_queue` | 3 threads, 3 calls, batches of up to 2, two threads that pop at once, one that waits, 1 spurious wake-up | types, `CountIsExact` (an unlocked reader of the count sees a true length), `Fifo` (nothing lost, doubled or overtaken), `Linearizable` |
| `test_thread_queue` | the test program, 1 spurious wake-up; any program of 3 threads of which one waits and one waits for the stop, 3 calls, 1 spurious wake-up, waits timed or not, notify one and all | `StopHeard`, `CallsReturn`, `StopWaitersReturn`; of the test program `FetcherAndPusherEnd`, and `StopperEnds` if an item was counted before the last notification |
| `signal_handling` | 4 signals one of which cannot be caught, 1 child, 1 stop, 1 signal sent, 3 calls | `CrashOnlyOfKept`: a handler that meets a freed table is that of a signal that the program registered, was told so, and did not deregister; `AllOrNothing` of a registration of two lists |
| `simple_application` | 3 signals, 3 children, 1 stop, 2 signals sent | `ZombiesAreAwaited`, `BlockedOnlyByStray`, `CriticalEnds` |
| `chardev_group` | 2 probers or the demonstration driver, 3 openers, 2 minors, 3 makes, 3 look-ups or opens | `ReadsFindMemory`, `ItemsMatchClass`, `LeftAtEnd`; of the demonstration `CountMatchesOpeners`, `OneOpenerOfReady` |
| `camera_v4l2` | 2 buffers of up to 2 planes, two lists of modes, 1 loss (`MaxFailures`), no bound on calls or frames | `OnlyRefusedIsLost`: what is lost is what could not be marked, unmapped or closed; `FramesHaveMemory`, `SyncedAccess` |
| `camera_setup` | 4 devices, 2 sizes, 3 rates, 1 setting by another program, no bound on calls | `SetupHolds`: what a call reported is what the driver has |
| `socket_supplements` | message of 5, receives of 3, kernel of 2 bytes, 2 interrupts | `StreamIntact`, `EndTellsTruth`, `ConnectTellsTruth`, `ReadyMeansProgress`, `NoFdLost`, `ProgramsEnd` |
| `commproto` | 4 meta data, arrays of up to 2, the first three usages, 2 messages (4 for "reuse"), the library's buffer of 1 to 6 units or the caller's of 0 or 7 | `RoundTrip`, `InStep`, `NothingLeaked` |
| `ini_file` | 12 texts, 3 arguments of setters, 2 objects, 2 parses, 3 operations (an edit counts 2; a sync after a change none), 1 failed write in the last dump | `RoundTrip`, `LinesInOrder`, `NoDangling`, `BufferHolds`, `MapAgrees`, `NothingLeft` |
| `commproto_rules` (violation) | a struct array with arrays inside, arrays of up to 2, 4 messages, whole packets only, the usage "rules" | memory that is used again by the rules of the comment is read before it is written |
| `sleeps` (violation) | sleeps of up to 2 units of 2 ticks, 1 interruption | a full sleep that is interrupted never ends |

Why the bounds are enough (where a safety property is also proved, section 5,
it does not depend on them at all):

* **ThreadQueue.** A critical section excludes all others, so a failure needs
  two calls that overlap and a third that sees it; three calls with batches of
  two give every pair of operations, a pop that takes part of a batch, and a
  pop that swaps while another reads the count. A lost wake-up needs one
  waiter of each kind and one notifier.
* **SignalHandling.** Three calls are a registration, a deregistration and
  whatever comes between; the handlers' stack gets two deep, and every signal
  can arrive between any two steps. Three children are one whose SIGCHLD is
  being handled, one whose SIGCHLD is pending and one whose SIGCHLD merges.
* **ChardevGroup.** Two makers compete for a minor, and the third make takes a
  minor that was given back, which is where a stale table entry would show.
  Three openers are one that is in, one being refused and one that looks at
  the count between the other's increment and decrement.
* **CameraV4l2.** Two is the least number of buffers that the code allows, and
  with two planes a failure can fall between planes and between buffers.
  `MaxFailures` bounds together the failures of `fcntl()` for a buffer, of
  `munmap()` and of `close()`, and the accesses that could not be ended: these
  are what the counters `unstored` and `refused` and the set `unended` keep for
  ever. All other failures, and the calls, are not bounded.
* **CameraSetup.** The four devices differ in what the code branches on: planes
  or none, a rate told or not, settable or not, capture or not. What another
  program does is overwritten by the next setting, so one is enough.
* **SocketSupplements.** Five bytes in receives of three leave a short last
  piece, and a kernel of two cuts every piece again; two interrupts fall into
  one call or into two.
* **CommProto.** The second message finds the struct as the first left it, or
  as a failure left it, which is the only memory that the functions have. Where
  arrays of structs are used again two are not enough: the fault of `commproto_rules`
  needs four, with lengths that fall and rise again, and so "reuse" has four too.
  Lengths of 0, 1 and 2 make arrays that shrink, grow and vanish; the struct
  arrays are followed by fields that are reached only in step. Buffers start
  at one unit and stop at six, so that both growths and the refusal happen.
* **IniFile.** The texts have every kind of line, right and wrong, in the first
  section, before it and behind another of the same name, and one line too long
  for the line buffer, and carriage returns within a line and at its end; the
  second parse reads what was dumped after the edit. One failed write is enough
  to cut a dump short, and matters only if nothing is dumped after it. A
  map goes wrong by one edit between two looks, or by one more object.
* **Sleeps.** One interruption suffices.

`TypeOK` is checked where a type is more than a shape: the count of the thread
queue that must not underflow, the table of signals, the group's steps of
creation. The other modules have properties only of what they do.

The example of `simple_application` is excused when its SIGCHLD handler is held
up: `wait()` in the handler blocks as long as no child has ended, which
`BlockedOnlyByStray` says happens only when a SIGCHLD came for a child that
merely stopped or that somebody else waited for. `ZombiesAreAwaited` says how
many children the merged SIGCHLDs can leave unwaited.

### Mutants

Each property of a passing run has a mutant in `PROJECT.json`: an operator of
the same module, marked "Mutant:", that makes a plausible mistake in one
definition (a batch counted before it is stored, a wake-up of one for all, the
last minor forgotten, an undo that stops early). With it the property fails.

## 4. Fairness

* `TestThreadQueue!TestSpec`: each thread in a call keeps running (`WF` of its
  step), and time passes (`WF` of `Expire`). Nothing makes a program call, the
  predicate become true or a wake-up spurious. For any program a weakly fair
  `Acquire` is enough because the calls are bounded, so that the mutex is free
  for good in the end. The fetcher's loop in the test program is not bounded, so
  that the others could be overtaken at the mutex for ever; there, taking it is
  strongly fair. The code justifies this: once the few notifications are over,
  the fetcher is asleep for 200 ms of each round with the mutex free.
* `SimpleApplication!FairAppSpec`: the program and the running handler go on,
  pending signals are delivered. Children may live as long as they like.
* `SocketSupplements!Spec`: each program goes on, and the network answers in
  the end (`WF` of `Step(t)` and of `Network`). A server that nobody connects to
  waits for ever, so that it need end only once it has accepted.
* `Sleeps!Spec`: the thread goes on, and `nanosleep()` returns.
* The other specifications are used for safety only.

## 5. What is proved

The theorems hold for every value of the constants that the modules' assumptions
allow: any threads, lists, sizes, devices and bounds. Each module of proofs has
one invariant that is inductive, one lemma for each of its conjuncts and group
of steps, a theorem that puts them together, and the properties as its
consequences. TLC has checked every such invariant on the instance of the run
before it was proved.

| theorem | property | module of proofs |
|---|---|---|
| `TypeCorrect`, `CountCorrect`, `FifoCorrect`, `StopHeardCorrect` | `TypeOK`, `CountIsExact`, `Fifo`, `StopHeard` | `ThreadQueueProofs` |
| `LinearizableCorrect` | `Linearizable`: the queue implements `FifoQueue` | `ThreadQueueProofs` |
| `TypeCorrect`, `AllOrNothingHolds`, `CrashOfKeptOnly` | `TypeOK`, `AllOrNothing`, `CrashOnlyOfKept` | `SignalHandlingProofs` |
| `ZombiesAwaited`, `BlockedByStray` | `ZombiesAreAwaited`, `BlockedOnlyByStray` | `SignalHandlingProofs` |
| `GroupCorrect`; `DemoTypeCorrect`, `ReadsAreSafe`, `TableMatchesClass`, `WhatIsLeft` | `TypeOK`, `ReadsFindMemory` (of `ChardevGroup` alone: `DeviceIsAlive`), `ItemsMatchClass`, `LeftAtEnd`, of `ChardevGroup` alone and with a driver | `ChardevProofs` |
| `CountsAreRight`, `OneOpener` | `CountMatchesOpeners`, `OneOpenerOfReady` | `ChardevProofs` |
| `LossesAreKnown`, `FramesAreReachable`, `AccessIsSynchronised` | `OnlyRefusedIsLost`, `FramesHaveMemory`, `SyncedAccess` | `CameraV4l2Proofs` |
| `SetupCorrect` | `SetupHolds` | `CameraSetupProofs` |
| `NothingDangles`, `EveryBlockOwned`, `InOrder`, `NoOverrunButLongLines`, `MapsAgree` | `NoDangling`, `NothingLeft`, `LinesInOrder`, `BufferHolds`, `MapAgrees` | `IniMapProofs` |
| `StreamCorrect`, `EndCorrect`, `ConnectCorrect`, `ReadyCorrect`, `FdCorrect` | `StreamIntact`, `EndTellsTruth`, `ConnectTellsTruth`, `ReadyMeansProgress`, `NoFdLost` | `SocketSupplementsProofs` |

### ThreadQueueProofs

From `ThreadQueueAssumption`. The invariant is
`IInv == TypeOK /\ Control /\ Data /\ Heard`:

* `Control` ties the lock to the places of the threads: a thread is in a
  critical section if and only if it owns the lock. `Alone` follows: nobody
  else is in the middle of a push or a pop.
* `Data` says what the container, the count and the histories are at each
  point of a critical section: between the storing and the counting of a batch
  the container is ahead of the count by that batch, between taking and
  uncounting it is behind by what was taken, and otherwise they agree. It needs
  `Control`, since a second thread in a critical section would break it, and
  `TypeOK` needs it, since only it shows that the subtraction stays natural.
* `Heard` says of the stop what `StopHeard` needs one step earlier: once a
  call has seen the condition under the lock, no stop-waiter is between its
  test of the predicate and its sleep.

`LinearizableCorrect` goes step by step under the mapping of the module:
`CallRefines` is a request, `CountRefines` the push in `FifoQueue`,
`UncountRefines` the pop, `BeginRefines` the pop that finds nothing,
`ReturnRefines` the answer, and every other step is a stutter (`PutRefines`,
`TakeRefines`, `QuietStep`). It rests on `IInv`: that `Contents`, which the
mapping makes of container and count, is not changed by a batch that is stored
and not yet counted is `Data`, and that one thread at a time is there is
`Control`.

### SignalHandlingProofs

From `SignalAssumption`. `Registration` says which entries of the two lists are
registered when some are still to do (`Forward`: those before them), and which
are rolled back (`Backward`, in the other order), though handlers run in between
and earlier calls may have registered some of the same signals. `AllOrNothing`
holds at the end because then none is to do. `CrashOfKeptOnly` rests on it: a
signal that is registered was told to the program or is in the lists being
registered or rolled back (`Known`), and while it is in those the table is there;
a handler runs only for a registered signal (`Started`).

For the example program, also from `ApplicationAssumption`, `AppInv` adds how far
`main()` has come (`Phase`: when it forks, SIGCHLD has its handler and keeps it),
that one SIGCHLD handler is on the stack at most (`Frames`), and the
balance of zombies against SIGCHLDs pending, being handled and merged
(`Balance`). `ZombiesAreAwaited` alone is not inductive: it counts a handler that
has already waited, which `Balance` does not.

### ChardevProofs

From `ChardevAssumption` and, for the demonstration driver, `DemoAssumption`. No
lock protects the group, so that the invariant `GroupInv` is about who works on
what: `Held` gives what the group has for each place in its creation and
destruction; `Work(t)` what a thread knows of the item that it makes or
unmakes; `Apart` that no two busy threads have the same item; `Devices` that each
device that is registered and not in the table has such a thread, and that
two devices never have the same minor; `Phase` how far loading and unloading
have come and that probers are idle meanwhile. `Apart` is what makes the rest
inductive: a thread may rely on `Work(t)` only as nobody else works on its item.
It rests on the driver's discipline (a prober unmakes what it made), which is that
of the module, not on the group.

`DemoInv` adds of the demonstration driver that an opener has its item where it
found it (`Opened`), that the count of an item is the number of openers that it
counts (`CountMatchesOpeners`), and that at most one of these was let in
(`OneEnters`: of those that have incremented, one at most has read a count of
one). The last two prove each other: who reads one is alone, since the count is
right.

Two invariants stand beside these. `Counted` says that a device has one reference
from the class and otherwise exactly those that were taken, which is what
`LeftAtEnd` says of the end. `Naming` says that the device of an item that is ready has
been set, so that only an opener of an early item can come to its end.

### CameraV4l2Proofs

From `CameraAssumption`. `IInv == Types /\ Counts /\ Allocating /\ Stream /\ Access`.
`Counts` says that the process has no fewer mappings and descriptors than the
object remembers; the first `n` cells are counted by a bijection that the proof
gives (`FirstCellsCounted`), for any number of planes. `Bounded` says that it has
no more than was dropped or refused and what a release in the present mode would
give back, `Loose` that it has no more than was dropped or refused: an
acquisition leads from `Loose` to `Bounded`, a release back, whatever it is
refused (`AcquireBounded`, `MmapBounded`, `ReleaseLoosens`). `Allocating` says
which of the two holds at each step of `alloc_buffers()`, and that a program that
has buffers has all of them, within the loops over `buf_count` and `plane_count`
(`Full`). `Stream` ties the stream to the buffers of the object, `Access` the bits to what
the kernel was told.

### CameraSetupProofs

From `SetupAssumption`: formats are strings, and no driver has one called "auto"
or "none", which stand for a wish and for nothing. `SetupHolds` is nearly inductive; it needs
that a function in progress has not succeeded yet (`InProgress`), what the
enumeration has come past (`Enumerated`), and that nothing is known of a device
that is closed (`OfOpenDevice`). A query that finds another type of
buffers makes the format that was set before say nothing of them; hence `known`
gives it up, without which the invariant would not be kept.

### SocketSupplementsProofs

From `SizesAssumption`. `Points` lists the system calls of each function of both
programs, `Locals` which of a function's variables are fresh, `Handshake` how
far the connection has come at each (none at all after an `EAGAIN`), `Closing` that a program that has closed
calls nothing more, `StatusHolds` that what `select()` found is still so when
the transfer begins (the other side can only make it better), and `Stream` that
the bytes received, followed by those that travel, count 1, 2, ... up to what the
client was told (`Counts`, with its lemmas in `SequenceLemmas`: growing at the
end as the client sends, moving from one part to the other as the server
receives). `NoFdLost` and the others follow from where the programs are.

### IniMapProofs

From `IniAssumption`, for texts of any length, any words, buffers and objects.
The invariant names three sets of addresses: `N`, the nodes in the heap, `S`,
the sections among them, and `B`, the nodes that a traversal has before it.
Addresses are given out in the order of the lines, so that a list is the
order of its nodes, and what the code promises of its pointers becomes "it is to the
least of a set" (`First`): the `next` of a section is the first section behind
it, that of another node the first node behind it and before the next
section (`Links`), a `sub` the first node behind the section (`Subs`), the
document's two heads the first section and the first node before it (`Heads`).
No induction over lists is needed to keep them. Each step of the
parser adds one node which comes last (`NewSection`, `NewNode`), a setter
changes no pointer of a list (`Edited`), and a visit takes the least node out of
`B` (`Walking`, `VisitMoves`); while the document is destroyed, `N` is what is left of
it (`B` and the section that the traversal is in), and only that section's
`sub` may dangle.

The heap itself is `Shape` (a node has the blocks of its type), `Apart` (nodes share
no block with each other or with a root) and `Extent` (every block is a node's or a
root), where the roots are the document, the line buffer and what the objects own
(`RootsApart`). `Frame` says that a heap which agrees on the blocks of the
nodes is as sound as before, whatever happens to the roots; each step that
frees or allocates rests on it.

Only the properties speak of whole lists. `ListIs` shows once that following
`next` from the first of a set visits that set in its order and ends: by
induction over numbers (`Induct`, `Least` and `Recursion` of `SequenceLemmas`)
on the function that `List` is. `WholeNodes` joins the preamble's list with those of the
sections, again by induction over their number, and gives `Range(Nodes) = N`, in
order: that is `LinesInOrder`, and `NothingLeft` and `BufferHolds` follow from the
invariant by it. `NothingLeft` excepts what is in `lost`, and `NoDangling` the line
buffer that was not allocated (section 6).

`MapsAgree` needs more, since the code never compares a map with a search: a
map is filled node by node, and each pair stays only if it is the first. `MInv`
adds `Mirror` to the invariant: the map of an object in step is `MapOf` all
nodes, the first section of each name with the first item of each key in
sections of that name, and a map that is being filled is `MapOf` the nodes that
the traversal has visited, `N \ B`. `SaveMirror` is the step: what
`save_node_into_map()` inserts or refuses is what one more node does to `MapOf`
(that a section's name comes from the latest section visited is part of
`Mirror`). When the traversal ends, `B` is empty and the map in step. The
program takes every map out of step as it edits or destroys the document; a
setter frees strings, and that is all that could make a map differ. In the end,
`MapFinds` says what the two index operators find in `MapOf` all nodes,
`FirstItemsAre` what a search of the lists finds, and the two are the same.

### Only model-checked

* Liveness (`CallsReturn`, `StopWaitersReturn`, `FetcherAndPusherEnd`,
  `StopperEnds`, `CriticalEnds`, `ProgramsEnd`), which rests on fairness and
  ENABLED, beyond the prover.
* `RoundTrip` of `IniFile` and `RoundTrip` of `CommProto`: what is written is read back.
  They compare a whole text with the words it was made of, through trimming and
  searching for characters, and need an induction over the text and a second
  parse; the prover cannot instantiate the theorems for induction over data.
* `InStep` and `NothingLeaked` of `CommProto`. Where the walk over meta data and
  struct is in step is a sum over the fields before it (`UpTo`, `Owned`), and
  likewise what a struct owns: an invariant about sums of sequences of
  records, with structs in them.
* `Sleeps` and `ReuseIsSafe`, whose properties fail.

## 6. Where the code and its documents disagree

Shown by a run:

* The full sleeps loop for ever after one interruption (`sleeps.c:67`, 99, 131,
  run `sleeps`).
* The comment at `communication_protocol.c:577-583` says that the memory of a
  struct can be used repeatedly if its arrays have their maximum lengths on first
  use and are not longer afterwards. But whether an array is reallocated depends on
  the length of the last packet only (`:619`): with lengths 2, 0, 1 and 2 the third
  packet makes an array of structs shorter, and the fourth lets `realloc()` add a
  struct to it that nobody has written, unless the array happens to move
  (`:597`). The parser then compares with the length in that struct and passes its
  pointer to `realloc()` (run `commproto_rules`). Lengths that never grow
  again are safe (usage "reuse" of run `commproto`).

Seen in the models, with no run of their own. Where a property is stated with
an exception, or a guard keeps the program from a call, the reason is here.

Signals:

* `sig_global_reset()` runs at exit (`signal_handling.c:126`) and frees the table
  that installed handlers write to (`:194`, `:201`); the example of the header
  (lines 55-81) deregisters nothing before, so that a signal that comes while it
  exits crashes it. `CrashOnlyOfKept` says that only signals which a program
  keeps registered like this do so. After a reset the library can no longer
  deregister them (`:250`).
* The handler is stored before `sigaction()` (`:225`); an event between a test
  of a flag and its clearing (`:281`) is lost.
* `sig_register()` rejects a null handler, which is also `SIG_DFL`, although the
  parameter is called `nullable_handler` in the header.
* When `popen()` fails, `sig_global_init()` keeps the empty table, and the next
  call reports success.
* The SIGCHLD handler blocks in `wait()` when a child merely stopped, as
  `SA_NOCLDSTOP` is not set; a critical signal then ends the program only when
  a child does.

Character devices:

* `atomic_set()` of the open count comes after the device file appears
  (`chardev_group.c:371`): an item opened before it is ready may be opened twice.
  `CountMatchesOpeners` and `OneOpenerOfReady` except such items. Its `device` is set
  even later than the item is in the table (`:190`, `:364`), and `dev_name()` of it is read
  by whoever opens or closes it (`:287`, `:313`); `ReadsFindMemory` says that only an
  item opened before it is ready shows this.
* `chardev_group_find_item_private_data()` returns data that an unmake in
  another thread may free before it is used (`DeviceIsAlive` says when).
* The references taken by `class_find_device()` (`:181`, `:206`) are never put: the
  memory of the devices stays when the group is gone. `LeftAtEnd` says how much.

Camera:

* `cam_v4l2_close()` leaves `stream_on` set when the stream could not be turned
  off (`camera_v4l2.c:140`): opened again, a camera says that it streams, though
  the field is to say "whether video streaming is on or not"
  (`camera_v4l2.h:79`).
* A start that fails half-way (`:1098`) leaves buffers with the driver, so that
  the next start fails too, and stop does nothing; only a new allocation or
  closing helps.
* A start that is refused because the stream is on has already replaced
  `needs_dma_sync` (`:1089`), and frames being accessed are then given back
  without ending the access: the exception `switched` of `SyncedAccess`.
* When `enable_close_on_exec_feature()` fails for a DMA buffer that has just been
  allocated (`:768`), the descriptor is not in the object yet (`:776`): the undo
  does not find it and it stays open for ever (`unstored`).
* The undo of an allocation does not look at whether it could unmap and close
  everything (`:799`): the next mode writes over pointers that are left, and their
  memory is lost (`refused`).
* Buffers survive a close. A format of fewer planes or other sizes set on the
  camera opened next then makes the later loops miss planes, or unmap other
  lengths than were mapped; hence `MayFormat`.
* Drivers with more planes than `CAMERA_V4L2_MAX_PLANE_COUNT` write beyond
  `buf_sizes` (`:441`) before the number is checked (`:463`); one that gives more
  buffers than asked for is believed (`:879`). Neither is modelled.
* The error of the first reading of the rate is kept (`:519`), although the
  comment at `:562` goes on in spite of it: `set_frame_rate()` then reports a
  failure and has set the rate.
* An error of enumeration is taken for the end of the list: "auto" settles for a
  lesser format. The size is stored before the driver is asked. A negative rate
  is converted to an unsigned number.

Sockets:

* `sock_check_status()` returns `-err_flag` (`socket_supplements.c:148`) and
  `sock_connect()` `-ETIMEDOUT` (`:223`) without the offset of system errors
  (`src/README.md:43-47`), so that `sock_error()` names another error.
* `sock_connect()` reports success when `connect()` says `EAGAIN` (`:216`), since a
  socket without a connection is ready for writing and has no error:
  `ConnectTellsTruth` names that case, the only one. `sock_check_status()` reports
  the direction it was not asked for as ready (`:124-137`, `FD_ISSET` of the model);
  `ReadyMeansProgress` is said of the other. A timeout of
  zero or less waits for ever; `close()` may change the `errno` that
  `sock_accept()` returns; and with `allow_self_connection` false it needs an
  address to store into. `SIGPIPE` is assumed to be ignored.

Communication protocol:

* The header (`communication_protocol.h:104`) says to clear a struct after each
  parse. After one that failed or was cut before a struct array was allocated,
  or after another clear, the length is there and the array is not (`:822`): clear
  walks out of step, reads a length where there is none, and frees what is no
  pointer. So does the test program after a parse that fails
  (`communication_protocol.h:998`, 1034). `InStep` names these clears (`Lost`), and
  says that there are no others and that none is of a struct that holds a whole
  message.
* A packet that ends between two fields is parsed with success. Stored lengths
  get ahead of the memory when an allocation fails.
* When an array of structs shrinks, clear does not reach the arrays in the
  structs beyond; when `realloc()` moves one, the pointers in it are zeroed.
  `NothingLeaked` excepts struct arrays that are used again.
* The buffer is doubled once per field: a field may be too big for it while the
  maximum is not reached (`:327`). After a failed `realloc()` the length reported
  is what was needed.
* `dynamic_array_size > COMMPROTO_ERR_END` is never true; products of lengths
  may overflow 32 bits (`:512`). Neither is modelled.

INI files:

* Parsing a document without lines, or failing on the first, loses the document:
  `ini_destroy()` frees it only if it has a node (`lost`, which `NothingLeft` and
  `EveryBlockOwned` except).
* Whether the line buffer was allocated is not looked at (`:192`): without it the
  first line is written to a null pointer (`:213`). `NoDangling` says that
  nothing else is.
* `ini_section_rename()` skips leading blanks for the length but copies from the
  start; a key may be set to what the parser reads as something else; a line
  with an indent may get too long to be read back as one. A "\r" within a line
  ends it in a buffer (`:170`) and not in a stream: what was read from a stream, and
  dumped, is then two lines to `ini_parse_from_buffer()`, or an error. At the end
  of a line from a stream it is dropped. `RoundTrip` is about documents with
  none of these (`Plain`).
* "\r\n" read from a buffer gives a blank line after each line.
* A buffer is doubled once, and a line longer than that is written beyond it:
  `BufferHolds` says so of lines that fit, and the model stops there ("overrun").
  Without an indent `ini_dump_to_buffer()` takes the length of NULL. What it
  dumps has no terminator, though the test prints it as a string; on errors
  `*buf_len` stays as it was.
* A write to a stream that fails is mostly not reported (`:530-563`): the results of
  `fputs()` and `fputc()` are added up, so that a line may lack a piece or
  its end, and be counted as dumped. `RoundTrip` is about dumps without such a
  failure.
* `ini_map_c`: move assignment loses what the target owned; looking up in an
  object that was moved from reads a null pointer; maps point to freed strings
  after a setter until `sync()`.

## 7. Plan

Written: 1. `FifoQueue`, `ThreadQueue`, `TestThreadQueue`, `ThreadQueueProofs`;
2. `SignalHandling`, `SimpleApplication`; 3. `ChardevGroup`, `ChardevDemo`;
4. `CameraV4l2`, `Sleeps`; 5. `SocketSupplements`; 6. `IniFile`, `IniMap`;
7. `CommProto`; 8. `CameraSetup`.

What is left to model is small (section 8). The safety properties of the thread
queue, the signals, the character devices, the camera and the sockets are proved.

The same holds of the INI files, except for `RoundTrip`. What is left to prove is
`InStep` and `NothingLeaked` of `CommProto`, from sums over the fields of a struct
(`UpTo`) and the allocations of one field; the two `RoundTrip`s are out of the
prover's reach (section 5).

## 8. What is not modelled, and why

* Formatting, logging and messages everywhere; construction and destruction of
  the thread queue, which no other call may overlap.
* `camera_v4l2.c`: printing, and drivers that give more buffers or planes than
  the object has room for; the latter are named in section 6.
* `communication_protocol.c`: byte order, types of different widths (a unit
  stands for any number), lengths that overflow, structs more than one level
  deep, and the dump for debugging.
* `socket_supplements.c`: addresses and the names of errors.
* `ini_file.c`: reading errors of a stream, and the messages. Adding and
  removing nodes are not written (`ini_file.h:175`). `ini_map.hpp`: a
  failing `operator new`, which throws, and printing.
* `logger_on_syslog.c`, `watchdog.c`, `devclass_supplements.c`,
  `string_supplements.c`: single calls or loops over one array, without a state
  that outlives the call.
* The Qt widgets, the Vim templates, the scripts and makefiles, and the
  third-party `getopt`: user interface, text, configuration and code that is
  not this project's.
