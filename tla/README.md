# kernel_learning: verification development

TLA+ models of the parts of the repository that keep state, TLC runs that check
them on small instances, and TLAPS proofs of the properties that matter most for
every instance.  All paths below are relative to `src/`.

    tlc -workers 2 -config MCVeeprom.cfg MCVeeprom     # any run: cfg and module of the table
    tlapm VeepromProofs.tla                                # any module *Proofs

## 1. The system

The repository is a collection of small programs around the Linux kernel.  They
share no code; what interacts, interacts inside one group.

| part | state it keeps | operations | interacts with | what is hard |
|---|---|---|---|---|
| virtual EEPROM and `ota_tool` (`Application/ota/ota_tool`) | one 2048 byte record (update flag, reset reason, board data) on eMMC, SPI NOR or SPI NAND; a static buffer and descriptor per process | read, write, clear/format, get, set with verification | called by both OTA scripts; several processes at once | power loss between erase and write, read-modify-write by two processes, calls that fail |
| `up_partition.sh` (`Languge/shell/ota`) | partitions, unpacked images, the flag in the EEPROM, `$?` of the last command | space check, unpacking, status, four upgrade functions | `ota_tool`, dd, the daemon's pipe | power loss half way, one dd of several failing, error codes read too late |
| `S9updatecheck.sh` and `ota_utility` | reset reason, named pipe, foreground or background daemon | boot, read a line, execute it | each other through process start and pipe | a boot that waits for a process that never ends; lines lost with the pipe |
| select, poll and epoll echo servers (`Application/io_multi`) | table of connections, its count, one buffer for all clients, `revents`, the ready list | wait, accept, receive, echo, close | clients through sockets | slots freed and reused while the loop runs, a count that never shrinks, descriptors that run out, stale results of the wait, bytes of one client shown to another |
| `sem.c` (`Application/ipc/sem`) | ring buffer, three named semaphores that outlive the process | produce, consume, unlink | two threads | interleaving, semaphores left by a killed run |
| `mutex_cond.c` (`Application/ipc/mutex_cond`) | shared buffer, indices, ready counter, condition variable | produce, consume | many threads, two mutexes | lost and spurious wakeups, one signal for a batch of items |
| six kernel modules (`device_driver`: timer, workqueue, platform, gpio, char, load_monitor) | resources acquired so far, timer, work item, private data of open files | init, probe with error labels, remove, handlers, file operations | timer interrupt, worker, user programs | unload racing a handler that re-arms itself, one acquisition of several failing |
| `mqueue.c` (`Application/ipc/mqueue`) | a kernel queue, who is registered for notification, a flag set by the signal | notify, send, receive in a thread | servers and senders through the queue | a message between re-arming and receiving; main blocked on a full queue its own thread should empty |
| `fifo_cli.c`, `fifo_sev.c`, `pipe.c` (`Application/ipc/fifo`) | two pipes and their names | make, open, exchange a line each, remove | two processes | the order in which both open; names removed under the next server |
| `sharemem.c` | a named segment and a named semaphore that outlive the processes | store (replacing both), print | any number of processes | two names that are replaced one after the other |
| `rwlock.c` | a text, a read-write lock | append, print | threads | append looks for the end, then copies |
| `systemV_msgque.c`, `systemV_shm.c` | queue and segment of the kernel | create, send, receive, set, read | any number of processes | short receive buffers, segments written half |
| sorting programs (`Algorithem/sort`) | an array | sort | none | boundaries, equal elements |
| tree and list programs (`Algorithem/tree`, `list`) | a tree, linked nodes | create, traverse, insert, replace, free | none | a pointer that is followed before it is tested |
| kobject, klist and device tree demos (`Algorithem/kobject`, `list/klist`, `Device_tree`) | reference counts, bound devices | init with a command, exit, probe, remove | the driver core | references put twice, never taken or never put; probes that use what a node does not have |
| `util_auth.sh` (`Languge/shell/safeboot`) | none, its files | hash by blocks, pad, encrypt | none | images of exactly a block, empty or large images |
| the rest (single API demos, `process_schedule`, i2c, mdio, led, camera tables, build scripts) | nothing that outlives a call, or code that cannot run | | | see section 7 |

What makes each modelled part correct:

* EEPROM: a set changes the requested field only, wholly or not at all; a
  successful verdict means the record holds the value; readers print only what
  somebody asked for.
* Update script: success is reported only when the partitions were written; the
  EEPROM records the partitions of an update before one of them is touched (all but
  those of `all.zip`, see section 6); a partition changes only in an update that
  names it.
* Boot scripts: a normal boot always finishes; commands from the pipe are run.
* Servers: table, count and connections agree; the loops stay in the table while
  the count allows it; a ready client is served while there are descriptors; an echo
  is what its client sent.
* Producers and consumers: nothing overwritten or taken twice, every value
  printed next to its index, both programs get through their items.
* Message queue: a server sleeps over messages only for a reason outside of it; no
  sender hangs.  Pipes: both ends hang only after an empty line, an interrupt or a
  race with the removal of the names.  Shared memory: a printer that no storer runs
  beside prints a stored count.  Texts, segments and queues lose nothing.
* Sorting, trees, lists, digests: the result is the reference result for every
  small input.  Kernel demos: what is taken is given back, but for one reference of
  `kobject.c`; what `device_tree.c` puts without having taken it is covered by what
  it keeps; memory is used while it is there.
* Kernel modules: every path gives back exactly what it acquired; a handler outlives
  its memory only where remove races it, a file outlives its module in one way only;
  interrupts are followed by their work.

`PROJECT.json` lists every component, and under `hazards` each of these dangers
at its line, with the properties that would catch it or a note why none does.

## 2. Modules

| module | models | composed by |
|---|---|---|
| `AtomicStore` | what the EEPROM promises: begin, commit whole, end | refined by `Veeprom` |
| `EchoService` | what an echo server promises: admit, answer once and exactly, close nothing unanswered | refined by the select server |
| `Veeprom` | `veeprom.c`, `ota_tool.c` | `MCVeeprom` |
| `OtaUpdate` | `up_partition.sh` | `MCOtaUpdate` |
| `OtaBoot` | `S9updatecheck.sh`, `ota_utility`, the pipe | `MCOtaBoot` |
| `Sockets` | connections and free slots, common to the servers | the three servers |
| `SelectServer`, `PollServer`, `EpollServer` | the three servers and their clients | `EchoServers` |
| `EchoServers` | which server is started; properties of more than one | `MCEchoServers` |
| `SemProdCons`, `MutexCond` | `sem.c`, `mutex_cond.c` | `IpcPrograms` |
| `MessageQueue`, `Conversation`, `SharedMemory`, `RwLock`, `SystemV` | `mqueue.c`; `fifo_cli.c`, `fifo_sev.c` and `pipe.c`; `sharemem.c`; `rwlock.c`; both System V programs | `IpcPrograms` |
| `IpcPrograms` | which program is run; fairness; properties that need it | `MCIpcPrograms` |
| `DriverTables` | what each kernel module acquires and releases | `DriverModules` |
| `DriverModules` | load, probe, interrupts, file operations, unload | `MCDriverModules` |
| `Sorting`, `ImageDigest`, `BinaryTree`, `SingleList`, `KernelDemos` | the sorting programs; `util_auth.sh`; `binary.c` and the tree half of `list_expriment.c`; `single_list.c` and the list half; `kobject.c`, `klist.c`, `device_tree.c` with `DTS_demo.dts` | `PlainPrograms`, `SmallPrograms` |
| `PlainPrograms` | which of them is run, but for the trees | `SmallPrograms` |
| `SmallPrograms` | which of all of them is run; fairness; that they end | `MCSmallPrograms` |
| `VeepromProofs`, `OtaUpdateProofs`, `TableServersProofs`, `EchoProofs`, `IpcProofs`, `DriverModulesProofs`, `SortProofs`, `PlainProgramsProofs` | theorems; `TableServersProofs` about the select and the poll server, `EchoProofs` about the epoll server and the composition of the three | |

Operators that begin a "Mutant:" comment are plausible mistakes in the definition
that follows them.  They are used by no specification; replacing that definition
by one of them must break the property it is paired with in `PROJECT.json`.

### Veeprom

State: the board (`soc`, from which `get_boot_mode` picks the medium), the record
on it (`dev`), the NAND volume state (`damaged`), and per process a program
counter, descriptor, static buffer, request, verdict and output.  `asked` and
`mishap` are history.  One action per system call that matters: `main` parses
options and arguments (`atoi` turns hexadecimal input into 0), the record is
fetched, on NOR the sector is erased, on NAND the volume update is started, the
record is written, read back and compared.  Each call may fail the way its code
handles it (including NOR programming whose failure goes unseen), and `PowerLoss`
stops every process.  NOR cells can only be cleared by programming, so a write
over an unerased sector mixes.  The sector loops run once because all fields lie
in sector 0.

### OtaUpdate

The script with its shipped settings (`emmc`, `single`).  One action per function;
dd takes two steps, between which a partition is torn.  A call of `ota_tool` is one
step that happens or fails: `EmmcRefinesStore` proves this of the tool on eMMC, the
medium of the shipped settings, with no other writer beside it.  `checks_dd` says which functions really
look at dd's exit status.  The NOR, NAND and A/B branches cannot be reached.

### OtaBoot

The boot script step by step, the daemon it starts (waiting for it in recovery, in
the background otherwise), and a pipe from which one line is read per open, the
rest being lost on close.  `ota_tool --updatemode` is no option of the tool: the
script takes the update flag for the mode.

### Echo servers

One server process at a time; its loop takes one step per descriptor.  The data of
a message is who wrote each byte, so that a shared buffer can be followed.  The
select server's table has a fixed size and its count never shrinks.  The loop that
fills the set leaves the table with more than `SIZE` accepted (`"set_beyond"`), and
what happens then is not followed.  The loop that reads includes `cli_cnt`, so with
exactly `SIZE` accepted it reads `clifds[SIZE]`: padding that is never in the set with
8-byte longs (`recv_reads_padding`), a word of `allfds` with 4-byte longs
(`recv_overruns`, which ends in `"recv_beyond"`).  A connection that finds no slot is
never closed (`leaks`); of `Files` descriptors none may be left, then `accept` fails,
the connection stays queued, `select` returns at once and no client is read.  `conns`
counts connections up to `MaxConns` only: clients come and go without end.  In the poll server `revents` starts uninitialised
(any value), and a slot filled in a round is looked at before it was polled.  In
the epoll server a batch of events is taken from the kernel's ready list, the
buffer is shared by the batch and cleared after it for `strlen(buf)` bytes.

### IPC programs

`SemProdCons`: both threads statement by statement, named semaphores that survive
a kill with whatever value they had, `sem_unlink` one by one.  `MutexCond`: any
number of producers and consumers, two mutexes, a condition variable with spurious
wakeups; producers never end.

`MessageQueue`: servers (`-s`) registered by `mq_notify` and woken by a signal, of
which the kernel lets one be registered, and senders (`-e`) whose main thread sends
and joins a thread that receives one message.  The queue outlives them; a message
that arrives on an empty queue nobody blocks on announces itself and ends the
registration.  `backlog` is history.

`Conversation`: the two fifo programs and `pipe.c` are one conversation, in which a
side waits at an `open` until the other end is opened, and the names may come to
stand for new files while old ones are still open.  `SharedMemory` keeps segments
and semaphores apart from their names in the same way.  `RwLock` splits `strcat`
into finding the end and copying.  `SystemV` writes the segment a byte per step,
and a receive on the queue takes the first message only if it fits.

### Small programs

`Sorting` runs each algorithm a pass of its innermost loop at a time, on the array,
the temporary array of merge sort and the local variables.  The recursive calls of
`_mergesort` and `_fastsort` wait on a stack (`calls`), the merge of two halves behind
the calls that sort them.  `bubblesort1` and `bubblesort2`, and `selectsort1` and
`selectsort2`, do the same steps on the array, one counting passes and the other
calling itself: one machine stands for both, also for those that their main does not
call (`bubblesort1`, `selectsort2`; `Postorder_Create_BinaryTree` among the trees).
Trees are computed by recursive operators, and lists are nodes with next fields, so
that a lost node or a ring can occur; `value` is the one `list_expriment.c` is asked to
replace, whose first node is replaced, and which no node may have.
`ImageDigest` keeps the script's sizes as constants and an image as the sequence of
its byte numbers: what is hashed, and where each hash lands, can be read off.

The trees are why there are two compositions: `PlainPrograms` has everything that can
be proved about, `SmallPrograms` adds `BinaryTree` with its recursive operators.

`KernelDemos` counts references: in `refs` those of the kobject `VirOs`, of
`bdev->kobj` (whose first one INIT takes and nobody puts) and of the nodes of
`klist.c`; in `drift` how far the count of each device tree node has moved from what
the tree and its devices hold, as a kernel with `CONFIG_OF_DYNAMIC` counts it.  The
lookups are those of `DTS_demo.dts`: the path `/DTS_demo` and the name `child0` (a
label) are not found there, so `device_tree.c:304` and `:370` take nothing.  Without
`reset-gpio` NODE_OPERATION follows arguments that were never initialised, and may
do so without harm or not.  The match table of `device_tree.c` has no last
empty entry; what the linker puts behind it is taken to match nothing.  Its probe is
`__init`, so that a device bound again after loading runs memory that was freed.

### Kernel modules

`DriverTables` holds the order of acquisitions and what each error label and
remove handler releases; `DriverModules` runs one module at a time: an
insmod/rmmod thread, the timer handler on another CPU (which re-arms itself), the
work item, and user programs.  `Dangling` says that a timer or a work item is still
to run without its memory; from there on nothing more is claimed.

## 3. Runs

| run | checks | shows |
|---|---|---|
| `veeprom` | TypeOK, StoredAsAsked, DamageNeedsMishap, RefinesStore | one writer and one reader on eMMC, NOR and NAND: on eMMC the read-modify-write implements `AtomicStore` through failing calls and power losses; on flash a record is damaged only by an interruption or failed call between erase and write |
| `veeprom_emmc_two` | PrintedWasAsked | two writers may lose an update, but no value nobody asked for is printed |
| `ota_update` | TypeOK, SuccessMeansWritten, StatusBeforeWrite, WritesJustified | every kind of update, archive and missing partition, with failures, power loss, restart |
| `ota_update_uboot` | UbootErrorReported, violated | a dd error on uboot ends in the success message |
| `ota_boot` | NormalBootFinishes | a boot that is not a recovery completes whatever the daemon does |
| `ota_boot_commands` | CommandsRun, violated | no command from the pipe is ever executed |
| `echo_servers` | TypeOK, AllWatched, SlotsMatch, BeyondNeedsAccepts, WaitsOnlyOnFresh, EchoFromBatch, IsEchoService | tables and counts agree with the connections, and how many it takes to leave a table; where bytes of an echo may come from; the select server implements `EchoService` |
| `echo_servers_live` | ClientsServed | clients of each server are answered in the end although others come without end, with the exceptions the code has |
| `epoll_echo` | EpollEchoExact, violated | the tail of another client's longer message is sent back |
| `ipc_programs` | TypeOK, NoneOverwritten, ReadyIsTaken, PrintsIndex, UnheardNeedsBacklog, HungNeedsCause, CalmPrinterPrints, MessagesKept, SegmentFilled, ReceivedInOrder, SemFinishes, CondConsumes, SendersEnd | seven programs in all interleavings of their threads and processes, with kills that leave kernel objects behind and spurious wakeups |
| `driver_modules` | TypeOK, DanglingNeedsRace, ReleasesWhatItHolds, FileOutlivesOneWay, WorkFollowsInterrupt | six modules loaded, used and unloaded any number of times, each acquisition failing or not |
| `small_programs` | ResultsRight, DemosEndWell, PutsAreCovered, ProgramsEnd | sorting, digests, trees and lists on all small inputs come out right, and every program ends; three demos with every command, loaded again and again |

Bounds, and why they are enough:

* Veeprom: two processes (a conflict has two parties), flags 0 and 13, reasons
  `normal` and `recovery` (the latter fills all 8 bytes and has no NUL).  No bound
  on the number of requests, failures or power losses.
* OtaUpdate: all six first arguments, archives that are unreadable, hold half of a
  kernel update, all of it, uboot, or system and disk; three sets of missing
  partitions; sizes 0 and 1 tell more, equal and less apart.  Runs are unlimited.
* OtaBoot: `MaxBoots` 2 (a normal boot followed by recovery, and the reverse),
  `MaxBurst` 2 lines (a command behind noise).
* Servers: three clients for `SIZE` 2 and `OPEN_MAX` 3 (two slots and the listening
  socket), so that slots are filled, freed, reused and found full; `Files` 3 lets
  two clients be accepted and one be leaked, or more leak, until none is left;
  `MaxConns` 3 is where the count of connections stops, one above `SIZE`, not the
  connections; `MAXLINE` 2 and `MAXSIZE` 3 allow a longer and a shorter message;
  `EPOLLEVENTS` 2 makes batches, 1 in the liveness run makes clients wait for a
  later batch.  Clients are symmetric in the safety run (182,499 states); the liveness
  run uses two clients and no symmetry (17,080 states), with `SIZE` 1, `Files` 2,
  `MaxConns` 2 and `MAXSIZE` 2, so that the second connection leaks or exhausts the
  descriptors.
* IPC: `NBUFF` 2 and `SemItems` 5 wrap the ring twice; `MaxKills` 2 meets
  semaphores left by a run that met left-over semaphores itself; two producers and
  two consumers of three items; `MaxReady` 2 caps the ready counter, which in the
  code grows with a producer that outruns the consumers.  Two servers and two
  senders on a queue of `MaxMsg` 2, which both senders fill.  `MaxFifos` 4: each name
  is removed and made again once.  One printer and two storers, `MaxSegs` 2: both
  storers replace segment and semaphore.  Three writers and two readers of the text.
  Two setters of a segment of 3 bytes; `MsgLens` 1 and 2, so that a message may be
  too long for a receiver, `QueueMax` 3, `MaxSent` 5.
* Small programs: arrays up to `MaxLen` 6 of three values, so that equal elements
  meet every loop, shell sort has two strides and merge sort halves of unequal
  length; trees up to 5 nodes; the six nodes of `list_expriment.c` with two values;
  images of every length from 0 to 34 with blocks of 8, hashes of 2, hash blocks of 4
  and the third level from 32 (the script has 32768, 32, 64 and 32M: more hashes per
  block, the same relations otherwise); pad sizes 0, 2, 3, 4, 6 and 8
  for a cipher block of 4; a demo is loaded again while no reference count of a node
  has drifted by more than `MaxDrift` 4, the most that one load with a command moves a
  count, so that every command is loaded after every other that does not end in an oops
  (the theorem holds for every such bound).
* Drivers: all six modules, two programs at once.

Deadlock is checked for Veeprom, OtaUpdate and OtaBoot.  It is not checked where
the system may stop: servers whose clients are done or that exited, programs that
ended, processes that wait for input nobody types, and a kernel whose module left a
stale driver, a dangling timer or an oops.

## 4. Fairness

* Boot scripts: weak fairness of each script, both being processes the kernel
  schedules.  Nobody has to write to the pipe or reboot.
* Servers: weak fairness of the server's step.  Strong fairness of the poll
  server's `accept` returning a connection, whether there is a slot for it or not: it
  may be interrupted (`EINTR`, `poll/service.c` goes on with the loop) but not every
  time.  Strong fairness of the epoll server's `accept`, for each client, because the
  listen queue is served in order.  Clients have none.  Of the select server
  `SelectServed` assumes nothing about `accept`, but excludes runs in which it fails for
  ever although there are descriptors; that a client starves once there are none is an
  exception the property states, as the code has it.
* `sem.c`: weak fairness of each thread and of `main`.  Starting or killing the
  program has none.
* `mutex_cond.c`: strong fairness of each thread, because a mutex is handed on in
  the end to a thread that keeps asking; the producers loop for ever, so that with
  weak fairness a consumer could starve on any implementation of a mutex.
* `mqueue.c`: strong fairness of a sender's `mq_send`, because the kernel queues
  blocked senders and serves them in order; weak fairness of its other steps.  The
  servers have none.
* The other IPC programs have no liveness property and no fairness.
* Small programs: weak fairness of the one program that computes (`Compute`,
  `RunTree`): it waits for nobody, and the kernel schedules it.  Loading and unloading
  the demos has none.
* Kernel modules: weak fairness of the timer interrupt and of the worker.

## 5. Proofs

All hold for every value of the constants under the named `ASSUME`s of the modules
(each evaluated by TLC): types of the constants, writers are tools, nobody asks for
the erased or corrupt pattern, `Files` and `MaxDrift` are natural numbers and `MaxConns`
is greater than `SIZE` (it bounds the counting only), finitely many clients that differ from the markers
for "no client", readers and writers of the text and printers and storers of the
segment are different threads and processes, `sem.c`'s ring has at least two places
(`sem.c` has 10), the nodes of a list are different objects and not NULL, values of
arrays are integers, the sizes of `util_auth.sh` are positive and a block of the table
holds whole hashes.

`VeepromProofs`
: `TypeCorrect` (every medium, any processes).  `EmmcRefinesStore`: if at most one
  process writes (`SingleWriter`), `Spec` implies `RefinesStore`: on a board that
  boots from eMMC the tool implements `AtomicStore` with `dev` as the store and the
  requests under way as pending.  The invariant is `TypeOK /\ WriterOnly /\
  FreshBuffer` on such boards: the write step patches the buffer, so the step is a
  commit only if between fetch and write the buffer still equals the record, which
  holds because nobody else writes.  With any number of writers that equality is lost
  and so are updates; `EmmcPrintsAsked` and `EmmcNeverDamaged` show what remains: every
  buffer about to be written holds, field by field, what somebody asked for.
  `DamageNeedsMishapAlways` is about all media with one writer that does not format
  NAND (which writes uninitialised memory): until a mishap, only the writer's own
  window hides an erased record or a volume under update, and what it programs lands
  on cells that are erased or that it clears.  `StoredAsAskedAlways`, under the same
  hypotheses, follows a verdict to the end of its process: a set is compared with what
  it reads back, a format is not, so `StoredInv` keeps that the buffer of a format is
  blank from the fetch on; and a verdict outlives the steps of the others because
  whoever may change the record is the one writer.

`OtaUpdateProofs`
: `TypeCorrect`, `StatusBeforeWriteAlways`, `SuccessMeansWrittenAlways`,
  `WritesJustifiedAlways`.  The invariant says which dd commands may still be to come
  (a tail of the list of the function that runs), that the flag is the status the
  script computes while they run unless `ota_tool` failed (`StatusRecords` draws from it
  that its bits are the partitions of the update, for `all.zip` those of uboot), that the checks before them were passed,
  and that, in the functions that look at dd's status, a partition of the update that
  is neither to come nor written has left its error in `failed`.

`TableServersProofs`
: Of the select server: `TypeCorrect`, `AllWatchedAlways`, `BeyondNeedsAcceptsAlways`, `EchoExactAlways`.
  The count is never reduced when a slot is freed, so `AllWatched` needs that every
  occupied slot lies below it, and `BeyondNeedsAccepts` that it never exceeds the
  connections made (`CountInv`) and that the loops are where the count sends them
  (`LoopInv`).  `EchoExact` needs that what is in the buffer at an echo is the
  message just filled in, NUL included (`EchoOfFilled`).
  Of the poll server: `AllPolledAlways`, `WaitsOnlyOnFreshAlways`.  `maxi` is never below an occupied
  slot.  Of the slots a round has still to look at, each one whose `revents` is set
  holds a readable client, but for the slot filled in this round; and an empty slot
  that poll saw has `revents` 0, so that only a slot poll never saw can be stale.

`EchoProofs`
: `CleanAtWaitAlways`, `EchoFromBatchAlways` of the epoll server.  Clearing
  `strlen(buf)` bytes empties the buffer only if it holds no byte behind a NUL:
  `BufInv` says that the bytes form a prefix, that they stem from clients of the
  batch, and that none are left while the server waits.  Over the composition:
  `TypeOKAlways`, `SlotsMatchAlways`, and `ServersAlways`, which carries the theorems
  of the three servers over to it.  `ClifdsOpen` (select) and `OpenHeld` with
  `SlotsOpen` (poll) say that slots and open connections are each other's inverse;
  a slot is freed in the step that closes its client, and filled in the step that
  accepts one.  `TypeOK` is not inductive for the poll server: that `nready` does not
  fall below zero needs that accept is tried only after poll reported something
  (`PollCounts`) and that the loop stays in the table (`PollInv`).
  `SelectIsEchoService` is a refinement, step by step: accepting admits a client, a
  failed accept changes nothing or drops a client that has left (refused), recv and
  send are one answer, a read of nothing closes, and
  a client that the full server leaks still waits; all else stutters.  An answer is due
  only to a served client, which needs `ClifdsOpen`; that it is the whole message is
  `EchoOfFilled`; and that a client sends again exactly what it got needs
  `AnswersWhole`: its last answer is nothing or one whole message of its own.

`IpcProofs`
: For any numbers of processes, threads, items and messages, over the specification
  of the composition; `OneProgram` lets each program be followed alone.
  `NoneOverwrittenAlways` counts semaphore tokens: the two semaphores and what the
  threads have taken from them hold two tokens together, and a killed run after the
  first adds one at most (`Cap`), because a name that is still there keeps its value
  while the other may be made anew; the producer is ahead by as many items as there
  are tokens (`Ahead`), so the ring is overrun only after as many kills as it has
  places.  `ReadyIsTakenAlways`: while something is ready not all consumers wait,
  because the first item wakes one and a consumer looks at `nready` again before it
  waits.  `PrintsIndexAlways`: every place of the ring is empty or holds its index.
  `UnheardNeedsBacklogAlways`: a second message on a first one is a backlog, and nobody
  blocks in a receive while there is a message.  `HungNeedsCauseAlways`: no file
  ever has both names (`OneName`), nobody waits in `open` for somebody who has opened
  the same file (`OpensMeet`), and until a process is stopped two that met on the first
  FIFO stay together until the second has answered, with every line lying in the file
  that the other one reads (`Together`); for `pipe.c` `PipeInv` says the same.
  `CalmPrinterPrintsAlways`: while no storer has ended early, some storer is on the way
  to give a missing name its object and the named segment its count (`Settling`), so
  that a printer started beside no storer finds both done (`CalmAlone`).  `MessagesKeptAlways`: a writer in the text is alone, and
  the end it found is still the end when it copies.  `SegmentFilledAlways`: bytes
  behind a setter's index are right, and later setters store the same.
  `ReceivedInOrderAlways`: what is queued continues the numbers of what was received.
  `TypeOKAlways`: types of all seven; the counter `nready` needs that whoever counts
  or looks at it holds its mutex (`CounterAlone`).

`DriverModulesProofs`
: `TypeCorrect`, `DanglingNeedsRaceAlways`, `ReleasesWhatItHoldsAlways`,
  `FileOutlivesOneWayAlways`.  The invariants tie the
  timer's activity to the life of the module: active only while bound and before
  `del_timer` returned, or because it was active when `del_timer` ran; private data
  present from probe to `kfree`; open files before the module is in to the node an
  earlier load left (`FilesNeedNode`); and what is held to the step of probe or remove, through a table of
  what is held at each step that the two lemmas `AcquireTable` and `RemoveTable` check
  against `DriverTables`.

`SortProofs`
: `SortsSortAlways`: arrays of any length and any integers.  `Same(n, a, b)` says that a
  permutation of the places carries one array into the other; it is composed from one
  exchange, shift or merge to the next, and that each value then occurs as often
  (`Cardinality`) is drawn from it once, at the end.  `KeptInv` claims it in every
  state but one: in the inner loop of shell sort one element is doubled and another only
  in `temp`, and there it is the array with `temp` in the hole that is the same.  Order
  has an invariant per algorithm.  Bubble sort: the elements behind the last pass are in
  their places, and `arr[j]` is the greatest before it.  Selection and insertion sort: a
  prefix is in order (and not greater than the rest).  Shell sort: the stride halves
  down to 1, and at stride 1 it is insertion sort, whose prefix has a hole while it
  shifts; the strides before need only keep the elements. Merge sort: a call on the
  stack lies in one half of a merge below it or apart from it (`Nested`), and each
  half is in order but for elements that lie together in a call above
  (`HalvesOrdered`); while a merge runs, what is in `temparr` is in order and not
  greater than what is left of both halves, and put in front of what is left it makes
  up the elements of the array (`Layout`). Quick sort: the ranges on the stack are
  apart, and two elements may be out of order only within one of them; in the loop
  what is left of `left` is less than the pivot and what is right of `right` is not.

`PlainProgramsProofs`
: `DigestCoversImageAlways`: that the blocks follow each other without gap or overlap
  and that hash `b` of the table lies at its place is arithmetic on quotients and
  remainders (lemmas on `Aligned`, on the last block, on concatenations of blocks).
  `ListPrintsAllAlways`: `single_list.c`'s next fields are, at each step, those of the
  list built so far (with the head pointing to itself after the first insertion), and
  those of `list_expriment.c` follow the order of insertion.  `Chain` and `FlattenSeq`
  are recursive functions: two functions that satisfy the same recursion differ at no
  least place, so it suffices to give one.
  `DemosEndWellAlways`, over the steps of the three demos: `KlistInv` gives the count of
  each node as a function of the place of the iterator, `KobjectInv` what `init` leaves
  to `exit`, `TreeDemoInv` that a probe uses what a node lacks only under three commands.
  `PutsAreCoveredAlways`: in the middle of a load the counts still lack what the devices
  to come will add, and `DriftInv` counts that in (`ProbesLeft`, `OthersTake`); so it
  holds however large `MaxDrift` is.
  `ResultsRightAlways` and `PlainDemosEndWell` carry them over to the composition.

Only model-checked: all liveness properties (`ClientsServed`, `NormalBootFinishes`,
`SemFinishes`, `CondConsumes`, `SendersEnd`, `WorkFollowsInterrupt`, `ProgramsEnd`), because
fairness is out of the prover's reach; within `ProgramsEnd` also that the tree programs
print what is true of the tree (`TreePrintsTrue`), whose functions are recursive over
trees: the prover has no induction over data.

## 6. Findings and observations

Runs that end in a violation, with the line they contradict, are under `findings`
in `PROJECT.json`:

* `up_partition.sh:383` tests `$?` of an assignment; a failed dd on uboot prints
  "update_img success!".
* `ota_utility:36` says `pirnt`; awk prints nothing and no command is executed.
* `epoll/service.c:138` echoes what an earlier client of the batch left behind a
  shorter message.

Met while modelling and kept as the code has it:

* `--partstatus` is no option of `ota_tool`, so the A/B status the script means to
  set (`up_partition.sh:545`) is never set; the call sets the update flag.
* In recovery `S9updatecheck.sh:91` waits for a daemon that does not end.
* `all.zip` falls through to uboot's number (`up_partition.sh:144`): after a power loss
  the EEPROM tells of an update of uboot while the whole disk was being overwritten.
* Two `ota_tool` writers at a time lose an update; the record has no lock on eMMC
  and NOR.
* `char_demo_exit` destroys device (0, 2), so the one it created stays; a later load
  can be opened through the left-over node before `char_demo_init` is done.
* A platform device that cannot be registered leaves its driver on the bus after
  the module is gone; `devm_ioremap` returns NULL while the code tests `IS_ERR`.
* `select/service.c:117` includes `cli_cnt`: it reads `clifds[SIZE]` with exactly `SIZE`
  connections accepted in the life of the server.  "too many client." keeps the
  descriptor, so that in the end `accept` fails with EMFILE, `select` returns at once for
  ever and no client is read (`:72`).
* The poll server may block in `read` on a client it has not polled.
* A message sent to `mqueue -s` while the queue is not empty announces nothing; after
  a stop of the server it lies there until somebody empties the queue.
* After CREATE_AND_ADD `kobject_demo_init` falls into `err_get` and puts the only
  reference; `kobject_demo_exit` puts it once more.  `bdev` is freed with the first
  reference of its kobject (`kobject.c:179`, `:201`) unput.
* `device_tree.c:250` puts, through `of_find_all_nodes`, a reference of the device's own
  node that was never taken; lines 286 to 299 and 318,
  328, 385, 400, 404, 490 and 500 take references of nodes and a device that are never put.
* `list_expriment.c:84` follows `tmp->next` before it is tested.
* `util_auth.sh:29` calls `wc 0c`: images above 32M end the script.  An empty image
  has no block whose hash could be copied and ends it too.

## 7. Not modelled

* Single API demos (`Algorithem/atomic`, `bitmap`, `hash`, `initcall`, `task`,
  `time`, `spinlock`), `process_schedule/fork` but for globalfifo: each calls an
  interface once and prints; nothing outlives the call.  (`hash.c` does not compile:
  `MAX_NUM` and `hash_demo_exit` are not defined.)
* `globalfifo.c`: nothing registers a device of its name, and its mutex and wait queues
  are never initialised, so that the first use faults.  `i2c_bus.c` does not compile.
  `mdio.c` is never probed.  `led.c` has empty functions.
* Camera register tables (the largest files of the repository), build, installation
  and transfer scripts: no state and no control of their own.
* `device_tree.c` is modelled in part: what its commands look up and whether that is
  there, not what they print; `DTS_mdio_read`, `DTS_mdio_write` and `DTS_mdio_probe`
  are never called.  `load_monitor.c` without its stack dumps.  The NOR, NAND and A/B
  branches of `up_partition.sh` cannot be reached with the shipped settings.
* Within modelled parts: socket set-up, printing, functions that are never called
  (apart from the sorting and tree functions named above), the death of a server or
  client by SIGPIPE, a text of `rwlock.c` longer than `MAXDATA`, `notify_thread` of
  `mqueue.c`, the third level of `util_auth.sh` behind the line that ends it.

## 8. Plan

Done in this order: Veeprom and its refinement, the update script, the servers, the
boot scripts, the producer/consumer programs, the kernel modules, the other IPC
programs, the small programs, and proofs along with each.  Left:

1. `up_partition.sh` with other settings than the shipped ones, if they come into use.
2. The tree functions as a machine with a stack of calls, like the sorting functions, so
   that `TreePrintsTrue` can be proved too.
