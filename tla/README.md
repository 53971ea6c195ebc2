# A TLA+ model of the course projects

This directory holds TLA+ modules, TLC configurations and TLAPS proofs for the
programs of this repository: a file system server over a disk server, their
clients, and two small servers (`project_3`); compressors and shells built from
processes, pipes and threads (`project_1`); four multi-threaded programs
(`project_2` and `Project-2-Question-2-Michael-Ramos`); three demonstrations of
semaphores (`simplified_synchronization_explained.cpp`); and two pipelines of
`src/production_io_demo`. Paths are relative to the repository's root.

- [Inventory](#inventory): the parts, their state, what is hard about them
- [Modules](#modules): which module models which code, and how
- [Runs](#runs): what TLC checks, on which instances
- [Fairness](#fairness)
- [Proofs](#proofs): what holds for every value of the constants, and why
- [Disagreements](#disagreements) between the code and its comments
- [Not modelled](#not-modelled) and [what is left](#plan)

## Inventory

| Part | State | Operations | Hard because |
|---|---|---|---|
| File system server, `project_3/fs_server.c` | FAT in memory, FAT and directory and data blocks on the disk, `fs_lock`, per session `current_dir` and `pwd` | `F L C D W R mkdir rmdir cd pwd`, one thread per session | sessions interleave on shared directories; a command is many disk writes and the server may be killed between two of them; a session remembers a block number while others free it; the disk fills up |
| Disk server, `project_3/disk_server.c` | mapped disk image, head position, one connection | `I`, `R c s`, `W c s len data` on a byte stream | tokens are delimited by white space in a stream that TCP cuts anywhere; refused writes; a client that goes away |
| Disk clients, `project_3/disk_client_*.c` and the disk layer of `fs_server.c` | socket | send a command, read the answer | they must agree with the server on where a message ends |
| File system client, `project_3/fs_client.c` | socket | send a command, show its reply | the reply to `R` is as long as it says, any other reply is what one `recv` gives |
| `ls_server.c`, `reverse_server.c` and clients | socket, child processes, threads | run `ls`, reverse a line | child and parent share the connection, which the client sees end only when both have let go |
| Bounded buffer, `project_2/bounded_buffer.c` | ring of slots, `in`, `out`, `count`, two semaphores, a mutex | produce, consume, join | `count++` is a load and a store; wrap-around; a wrong post hangs both threads |
| Airline, `project_2/airline.c` | three queues of passenger indices, worker and per-passenger semaphores, `passengers_seated` | passengers, three pools of workers, main | five semaphores per stage across threads; shutdown by sentinels through queues whose capacity is the number of passengers |
| Mother Hubbard, `project_2/mh.c` | `children[]`, `mother_sem`, `father_sem` | two threads, N days | shared array with no mutex, ordered by two semaphores only |
| Mother Hubbard, `Project-2-Question-2-Michael-Ramos/mh.c` | queue of children, four semaphores | two threads, N days | the queue's indices are reset every morning while its semaphores are not |
| Compressors, `project_1/task_1..5, 9` | file offsets, pipes, chunk buffers | run-length encode and decode, across processes and threads | runs at the ends of blocks and chunks; pipes whose every end must be closed; a child that fails |
| Shells, `project_1/task_6..8` | child processes, descriptors | run a command, a pipeline | descriptors inherited by children; children nobody waits for |
| Demonstrations, `simplified_synchronization_explained.cpp` | semaphores, a `std::queue` of holes and one of items, chopsticks | farmers, producers and consumers, philosophers | the queue of holes has two takers and no lock; five chopsticks for five philosophers |
| Asynchronous copy, `src/production_io_demo/cpu_io_demo.c` | a pool of buffers, each with a request at the kernel | prime, suspend, scan | requests end in any order, short, or not at all, while the next chunk goes into the buffer of another |
| GPU fallback, `src/production_io_demo/gpu_pipeline_fallback.cpp` | two monitors with a bounded queue | producer, worker, consumer, stop | `stop()` with chunks left in the queue, or while the next thread goes to sleep |

How they interact: `fs_client` sends a line to `fs_server`, whose session thread
takes `fs_lock`, reads and writes blocks through `disk_read` and `disk_write`, each
one request on the single connection to `disk_server`, and answers. `ls_client` and
`reverse_client` talk to their servers in the same way. All other programs stand
alone; their processes interact through descriptors they inherit, their threads
through shared memory, semaphores and mutexes.

What makes each part correct:

- the file system: no two files share a block, no entry or chain leads to a free
  block, no block is lost, sizes agree with chains, names are unique, the FAT on
  the disk is the FAT in memory, a read returns what one write put there, and
  every command ends, with any interleaving of sessions and (for the part that
  survives) with a crash between any two disk writes;
- the disk server does what the bytes of a connection mean as a list of commands,
  wherever they are cut and whoever leaves in the middle, its clients stay in step
  with it, and each one gets its turn;
- the bounded buffer is a bounded FIFO queue and both threads end;
- the airline loses and duplicates no passenger, sends no worker home early and
  departs;
- both Mother Hubbard programs bathe each child before it is tucked in and start
  no day before the last one is over;
- a compressor that reports success has written a file that decodes to its
  source, however the text is cut into blocks and chunks;
- a shell or server that is ready for the next command or client has no
  descriptor and no child of the one before, what goes through a pipe arrives
  in full, every answer belongs to its request, and nobody waits for ever;
- the demonstrations' semaphores keep the farmers in step, the queues deliver
  everything once and in order, and every program of threads ends;
- the asynchronous copy writes every chunk where it was read from, transformed
  once, and the whole file when it ends.

## Modules

| Module | Stands for | Notes |
|---|---|---|
| `FatFs` | `fs_server.c`, `fs_defs.h` | the machine: one action per step between two disk writes |
| `FatFsProps` | | its properties |
| `MCFatFs` | | command sets and symmetry for TLC |
| `FatFsProofs` | | proofs |
| `DiskServer` | `disk_server.c` | server and connections |
| `DiskClients`, `MCDiskClients` | `disk_client_cli.c` | composed with `DiskServer` |
| `DiskClientsProofs` | | proofs |
| `DiskStartup` | `connect_to_disk` of `fs_server.c`, start of `disk_client_random.c` | composed with `DiskServer` |
| `BoundedFifo` | what a bounded buffer promises | abstract queue of slots |
| `BoundedBuffer` | `bounded_buffer.c` | refines `BoundedFifo` |
| `Airline`, `MCAirline` | `airline.c` | |
| `AirlineProofs` | | proofs |
| `Household` | what the Mother Hubbard programs promise | two counters |
| `MotherHubbard` | `project_2/mh.c` | refines `Household` |
| `MotherHubbardQueue` | `Project-2-Question-2-Michael-Ramos/mh.c` | refines `Household` |
| `Multiples`, `MotherHubbardQueueProofs` | | proofs; `Multiples` is the arithmetic of quotients |
| `SyncDemos` | `simplified_synchronization_explained.cpp` | the three demonstrations main starts |
| `AsyncCopy` | `cpu_io_demo.c` | and the kernel's side of its requests |
| `GpuFallback` | `gpu_pipeline_fallback.cpp` | |
| `MCThreads` | | `BoundedBuffer`, both Mother Hubbards, `SyncDemos`, `AsyncCopy` and `GpuFallback`, one in each behaviour |
| `ThreadsProofs` | | proofs about `BoundedBuffer`, `MotherHubbard`, `AsyncCopy`, `SyncDemos`, `GpuFallback` and their composition in `MCThreads` |
| `Unix` | the system calls of the programs below | processes, descriptors, pipes, connections |
| `Rle` | the scanners of `project_1` and `MyDecompress.c` | pure functions over the characters of a file |
| `Compressors` | `MyCompress.c`, `ForkCompress.c`, `PipeCompress.c`, `ParFork.c`, `ParThread.c` | over `Unix` and `Rle` |
| `Commands` | the commands that shells and `ls_server` run | external: `echo`, `ls`, `yes`, `wc`, `head` as far as descriptors go |
| `Shells` | `MinShell.c`, `MoreShell.c`, `DupShell.c` | over `Commands` |
| `LsServer` | `ls_server.c`, `ls_client.c` | over `Commands` |
| `ReverseServer` | `reverse_server.c`, `reverse_client.c` | over `Unix` |
| `FsClient` | `fs_client.c` | over `Unix`, with a server that frames replies as `fs_server.c` does |
| `MCUnix` | | these programs, one in each behaviour, and their properties |
| `UnixProofs` | | proofs about the programs of `MCUnix`: descriptors, children and conversations |
| `ArrivalProofs` | | proofs over `UnixProofs` about what has gone through the pipes |

### FatFs

State. `fat` is the array `FAT`; `dfat` and `blocks` are the disk, split at
`root_dir_block`; `lock` is `fs_lock`; `cwd` and `path` are `Session.current_dir` and
`Session.pwd`; `pc` and the variables after it are what a handler has on its stack
while it holds the lock. The unit of data is 32 bytes, the size of a `DirEntry`, so
that a block is a row of `BlockSize` units, each empty, a piece of text, or an entry.
That is what the code tells apart: a directory block is read as entries whatever
is stored there, and `cmd_delete` tests a directory for valid entries.

Actions. A handler that answers without changing anything (`CreateRefused`,
`WriteRefused`, ...) is one action. A handler that works is split where it writes to
the disk: the first action takes the lock and does everything up to the first disk
write (`CreateAlloc` is `cmd_create` up to `save_fat`), `SaveFat` is one iteration of
the loop in `save_fat`, and so on to the action that writes the directory block,
unlocks and replies. Reads of the disk are not steps of their own: under `fs_lock`
nobody else writes. The loops over a chain (`FreeStep`, `ReadChunk`, `WriteChunk`)
take one step per block. `Restart` is a kill and a new start at any point: memory
is lost, `init_fs_meta` loads the FAT from the disk. `Reconnect` is a client that
leaves and one that comes.

Assumptions about the disk. `FatFs` takes the disk that `fs_server.c` is written
for: `disk_read` expects the status byte `1` and then the block, `disk_write` is
applied before it is answered. `disk_server.c` answers `0` and a line of text, and
its token reader waits for white space after the `I` that `connect_to_disk` sends
without any; the two programs as they are do not get past that first exchange
(see [Disagreements](#disagreements)). `total_blocks` is at most 65535, so that a
16-bit entry names every block (`LayoutAssumption`).

### DiskServer, DiskClients, DiskStartup

`in` and `out` are the two directions of each connection. A byte is a string of one
character, a line of answer is one symbol (it is one `send`), a block as many
symbols as it has bytes. `read_token` takes one step per byte (`SkipSpace`,
`TakeChar`, `EndWord`, `NoWord`), the words of a command gather in `words`, and one
action per branch of `handle_connection` executes it; the answer to `R` is two sends,
hence two steps, and the data of a write goes into the mapped block byte by byte.
`peer` is the client as the kernel shows it to the server: a client that leaves
puts an end to the stream (`fin`), and the connection may be reset (`rst`), after
which `recv` fails and `send` may raise SIGPIPE (`BrokenPipe`), after the command did
what it does to the disk, the zeros at the end of a written block included; `Restart` is a new
server on the same disk file. These outcomes of the kernel are choices of the model.

`DiskClients` adds the interactive client: what it sends for a line (`Header`, with
the cylinder and the sector that its parser really finds, `WriteCyl` and `WriteSec`), `recv` that
returns any part of what has arrived (`Answer`), and leaving at any time. The history
variables `seen`, `log` and `base` hold what a connection has received and answered, and
`Meaning` reads the command list off those bytes as a whole, with no notion of steps.

`DiskStartup` composes the same server with `connect_to_disk`.

### BoundedBuffer

One action per semaphore operation, mutex operation and critical section;
`count++` and `count--` are a load and a store each, so that mutual exclusion is
what makes them right, not the model. `main` creates both threads, joins them and
ends. `BoundedFifo` is the promise: puts go to a queue of at most N items, gets
come from its front. The mapping reads the queue off the ring between `out` and
`in`.

### Airline

One action per `sem_wait` and per section under a mutex (with the `sem_post` that
follows). The three stages share their actions, indexed by the stage; the code
writes them out three times with other names. A queue is its ring, `head`, `tail` and
the two semaphores. `seated` and `allSeated` are `passengers_seated` and
`all_seated_sem`. Main starts at its wait for the last passenger: threads that main
has not created yet cannot be told from threads that have not run.

### Mother Hubbard

`MotherHubbard` takes one step per store to `children[i].task_completed` and per
semaphore operation. `MotherHubbardQueue` takes one step per semaphore wait and per
section under `qmtx`. Both map their progress to the two counters of `Household`:
baths given and children tucked in, over all days.

### Unix and the programs over it

`proc` is the table of processes. A process has a label (`pc`), its open
descriptors (`fd`: descriptor to what it is open on, which `fork` copies and `exec`
keeps), its memory (`mem`) and, once it has ended, a status until its parent waits
for it. `pipe` holds the bytes of every pipe. End of file and SIGPIPE are not
events of their own: a read sees the end, and a write kills, when no process in
the table has the other end open, so that a descriptor somebody forgot to close
shows as a process that waits for ever. A thread is a process that has been given the
descriptors it uses. `failed` records which kind of system call has failed; each
kind fails at most once in a behaviour, at any of its calls. `"kill"` is the user
who kills a program, `"split"` a `recv` that gives less than was sent.

Two failures go on in the code instead of ending a program. The child of `ls_server`
whose `execvp` fails has the socket for its stderr, so that its `perror` sends a line to
the client, which shows it as the listing (`ls.perror`, `Complaint` bytes). `ParFork` does not look
at the result of `pipe()`: the child and the parent go on with descriptors that were never
set (`PfPipe`). They are taken to be no open descriptors, so that `fdopen` returns NULL and its first use
crashes (`NoStream`); what malloc leaves there may by chance be an open one, which is not
modelled.

`Rle` has the two scanners of the code, the one that looks at bits (`ScanBit`) and
the one that looks at every character that is no blank (`ScanAny`), as functions
from a state and a character to a state; a block is a fold over its characters and
a program carries the state from one block to the next where the code does, or
starts anew where it does (the chunks of `ParFork` and `ParThread`). `Decodes`
is `MyDecompress`.

### SyncDemos, AsyncCopy, GpuFallback

A step of `SyncDemos` is one `acquire` or one access to a shared queue. `holes` is a
`std::queue` that three threads use without a lock: two accesses at the same time
are undefined behaviour, and `Race` ends the program there. `AsyncCopy` takes one
step per buffer that the loop looks at, and one step of the kernel per request that
ends, in full, in part, or with an error; `aio_read` and `aio_write` may refuse a
request. A unit of the file carries where it comes from and whether it has been
transformed. A step of `GpuFallback` is what a thread does under `m_`, and the
`notify_one()` after it; a thread that waits is asleep until it is notified.

## Runs

All bounds are constants in the `.cfg` files.

| Run | Instance | Shows |
|---|---|---|
| `fat_directories` | 1 session, all commands, 5 blocks of 2 units, 3 names of which one is too long | no block is lost, names are unique, `pwd` is where the session is |
| `fat_files` | 1 session, files of up to 4 blocks, FAT of 3 blocks | chains and sizes, truncation when the disk is full, `save_fat` over several blocks, a read returns what was written |
| `fat_two_sessions` | 2 sessions, no `rmdir`, no `F` | the lock makes concurrent commands safe |
| `fat_crash` | 2 sessions, 1 crash, no deletion, fairness | no restart finds a dangling link or a shared block, and every command ends, a read if its client goes on reading, on chains left by the crash too |
| `fat_stale_directory`, `fat_crash_delete`, `disk_startup` | small | violations, see [Disagreements](#disagreements) |
| `disk_clients` | 2 clients, 2 lines in all out of 9, 2 blocks of 2 bytes, words of 2 characters | the server executes the stream, and leaves what it executed on the disk when SIGPIPE ends it, a client at its prompt is in step, each client is served |
| `airline` | 2 passengers, 3 + 1 + 1 workers | nobody lost, served twice or sent home early, and the plane departs, although a passenger may wait for the one screener and main must push more sentinels than a queue holds |
| `unix_programs` | 5 processes, 4 pipes of 8 bytes, blocks of 6, runs of 16, files of up to 35 characters, up to 3 chunks, 2 clients, 3 commands to `fs_client`, each kind of call failing once | files decode to their source, prompts are clean, pipes deliver in full, answers belong to their requests, nobody waits for ever but for a user who does not type |
| `threads` | 3 slots and 7 items; 4 children, 3 days; 5 holes, 5 philosophers, 3 items per thread; files of up to 7 units in chunks of 2, 1 or 2 buffers, each fault once; 4 chunks through queues of 2 | the bounded buffer is a bounded FIFO queue, both Mother Hubbards implement `Household`, the queues deliver, the copy is exact, and all programs end |
| `farm_order` | as `threads` | violation, see [Disagreements](#disagreements) |

Why the bounds are enough. Five blocks are the FAT block, the root and three data
blocks: enough for two files of which one has two blocks, for a nested directory,
for an allocation that finds the disk full, and for a freed block to be given to
somebody else, which is what every hazard of the FAT needs. `fat_files` adds
files of four blocks and a FAT that spans three. Two lines, of one client or of two,
are one command and what comes after it: a refused write and the command its
data becomes (a write among them, whose answer is left unread when the client goes, so that
the next one meets SIGPIPE), a write cut short and a read of the block it left, a client that has
gone and the next one. The ring of three slots is written more than twice around.
The files of `unix_programs` are runs one short of `MIN_RUN`, of that length and
longer, with blanks between them, across the ends of blocks of 6 and of chunks, and
a byte 0xFF; 9 bytes of output do not fit a pipe of 8, so that a writer waits for its
reader or dies with it; a command and the next one find what the first left behind.
Seven units in chunks of two end with a part of a chunk, six fill their chunks, and with
two buffers one request can overtake the other.
Two passengers queue for the one screener and the one attendant, and three handlers
are one sentinel more than their queue holds; three days include one that both
follows and precedes another.

What the instances leave out because the property fails there, and is known to: a
FAT of several blocks under a crash (`save_fat` is not atomic: a chain can lead to a
block that the next file is given), paths longer than `MaxPath` in `fat_directories`
(`cd` answers `2 Path Too Long` after it has moved the session, so that `pwd` prints
another directory), deletions under a crash and removed directories under two
sessions (runs of their own), and, by the premise of `InStep`, connections on which a
write was refused (its data stays in the stream and is executed). The hazards in
`PROJECT.json` name the lines.

Premises of the properties of the small programs, each for something the code does
otherwise: `DecodesToSource` asks nothing of a text with signs in it (`MyDecompress`
reads them as markers), nothing of runs of other letters for the scanner that takes
every letter for a bit, and nothing of `PipeCompress`, `ParFork` and `ParThread` when a
call failed (they drop their children's status, or ignore a failed thread);
`EachSettles` leaves out `ParFork` after a failed `fork` (`waitpid(-1)` then waits for any
child, one that waits for its pipe to be read among them), and a `reverse_client` whose user types
nothing with the thread that serves it (`Untyped`); `ArrivesInFull` takes the error text of an
`execvp` that failed for an answer of `ls_server`; `PromptClean` allows the first command of a pipeline whose second `fork`
failed; `AnswersInStep` asks nothing of an answer that came in pieces; `ThreadsEnd`
leaves out a request that failed (the loop of the copy spins on it) and a farmer
that met somebody else's hole. Short writes to files and sockets, which no program
checks, do not happen in the model but for the asynchronous copy.

`CHECK_DEADLOCK FALSE` stands where everything really may stop: the programs of
`threads` and the airline end, a compressor ends and a server waits when all its clients have
left. The file system server never stops, and TLC checks that it cannot.

## Fairness

Weak fairness of each thread, and no more: the operating system runs every
runnable thread. For `FatFs` it is stated of the handler's steps only, and not of the
sends of `cmd_read`: they are made with `fs_lock` held and wait for as long as the client does
not read, so that one client that stops reading keeps every session waiting. `HandlersEnd` says
that every other command ends once it has the lock, and that a read does if its sends go on. All other answers are
sent after the unlock. No client is obliged to read or to send anything; the disk server is
assumed to answer. For `DiskClients` it is stated of the server only;
`EachServed` assumes that every client that is being served leaves some day, which
users do, and nothing of how it leaves. In `DiskStartup` both programs run. In `MCUnix` every process goes on by itself
but for what the user does (`User`: type at a prompt or at the `fgets` of `reverse_client`,
kill a program), which is not fair.
In `MCThreads` every thread is, and the kernel, one buffer at a time, ends the
requests of the copy. In `BoundedBuffer` and both Mother Hubbard programs each semaphore
has one waiting thread, so that weak fairness is all a waiting thread needs; in `Airline`
and `SyncDemos` threads compete for semaphores and locks, but each competitor takes a
given one a bounded number of times. A thread of `GpuFallback` that sleeps needs the
notification too: no fairness wakes it.

## Proofs

| Theorem | Says | Argument |
|---|---|---|
| `FatFsProofs!TypeCorrect` | `Spec => []TypeOK` | `TypeOK` alone is not inductive. The invariant adds what a handler's locals hold while it works (`LocalsOK`): the cell `buf[slot]` of the directory block it has read is an entry wherever the next steps write to it or follow its chain, `done` is below `len` in the loop of a write and 0 outside it, so that no index leaves its block. |
| `FatFsProofs!LockExclusion` | `Spec => []LockHeld` | a thread inside a handler holds `fs_lock`: one step per action, which either keeps `pc` and `lock` of the session, takes a free lock, or leaves the handler with it. |
| `FatFsProofs!FatSavedAtUnlock` | `Spec => []FatSaved` | the strengthening follows `save_fat`: while session s is in the loop at block `seg`, the blocks before `seg` agree on disk and in memory; between `save_fat` and the unlock all of them do; when the lock is free all do. It needs that at most one session is inside a handler, which is `LockExclusion`. |
| `FatFsProofs!NoLinkDangles`, `NoBlockShared`, `NoBlockLost`, `NamesStayUnique`, `FilesStayText` | `NothingStale /\ Spec => []P` for the five structural properties of the file system, any number of sessions and any disk | see [the file system's invariant](#the-file-systems-invariant) |
| `FatFsProofs!PwdIsRight`, `PwdOnSmallDisk` | `PwdNamesCurrentDir`, in any tree of directories: the first while no path fills `Session.pwd`, the second on a disk with fewer data blocks than `pwd` has room for components | the components of a path lead along a `Trail` of entries from the root to `current_dir` (`PathOK`); no step takes a directory off a trail (`DirsStay`), but a removal by the only session, which removes an entry of the directory its trail ends in, and a trail goes through no directory twice (`TrailOnce`). From the last follows that a path has no more components than the disk has data blocks. |
| `FatFsProofs!SizesMatch`, `ReadsAreWhole` | `Texts # {} /\ NothingStale /\ Spec => []P`: sizes agree with chains, and a read sends what one write put there | the same, with the contents of the chains |
| `FatFsProofs!CrashDanglesNothing`, `CrashSharesNothing` | `NothingRemoved /\ Spec => []P` for `NoDanglingLink` and `NoSharedBlock`, however often and wherever the server is killed | see [what survives a crash](#what-survives-a-crash) |
| `FatFsProofs!ShortWriteFillsDisk` | `Spec => []ShortOnlyWhenFull` | a write that is past its loop with `done` below `len` left it when `FreeBlocks` was empty, and nothing frees a block before the lock is given up. |
| `DiskClientsProofs!StoreSafe` | `Spec => [](TypeOK /\ StoresInBounds)`: the bytes of a write go into the addressed block of the disk | a write is begun only when its words are in range and its length fits, its words do not change while the data comes in, and `done` stays below the length; a cylinder and a sector in range are a block of the disk. It needs that streams and words are sequences of bytes and that only a connected client is served. |
| `DiskClientsProofs!StreamMeaning` | `Spec => []ExecutesStream`, for every geometry and every set of lines, also of the disk that SIGPIPE leaves | the commands completed so far form a run of `Executed` from the beginning of the stream (`Chain`), and `InToken`, `InWord`, `InExecute`, `InBlock` and `InData` say how far the server is in the next one. A word counts when the space after it has come or the stream has ended, so that later bytes do not change it (`CompletesStays`); an ended stream stays ended because a client connects once (`JoinedOK`). A command takes a byte at least, so that the run is no longer than `Meaning`'s, and ends where it does (`ChainIsMeaning`). A server that SIGPIPE ends was in the answer to a command whose words and data it had (`Ready`), which the run ends with (`BrokenPipeMeans`). |
| `DiskClientsProofs!ClientsInStep` | `Spec => []InStep`, for every number of clients and every set of lines | see [client and server in step](#client-and-server-in-step) |
| `ThreadsProofs!BufferSafe`, `CountIsExact` | `ThreadsSpec => []P` for `TypeOK`, `CountExact` and `NoOverrun`, for every size | semaphore values are tied to the program counters and to the number of items put and got; `in` and `out` are those numbers modulo the size. |
| `ThreadsProofs!BufferIsFifo` | `ThreadsSpec => IsFifo` | every step of the program maps to a step of `BoundedFifo` or a stutter, from the same invariant. |
| `AirlineProofs!NobodyLost`, `PlaneIsFull`, `NobodyWaits`, `InOrder`, `TypeCorrect` | nobody is served twice or by nobody, the plane leaves with everybody, a passenger past a stage was served there and the stages come in order, for every number of passengers and workers | each of the semaphores is the number of threads between its post and its wait: items and free slots of a queue with those who have claimed one (`SlotsCounted`), what lies between `head` and `tail` of a ring (`Circular`), the workers that are still there with the sentinels sent for them (`WorkersCounted`). A passenger is in one place only, with a queue, with a worker, or past the stage (`ServedOnce`, `Progress`), so that `passengers_seated` counts sets (`AllCounted`), and main sends no sentinel before it has reached all (`NoEarlyStop`). |
| `ThreadsProofs!HubbardOneWriter`, `HubbardInOrder` | no two threads have a child in hand, and every child goes through its tasks in order | `father_sem` is the number of children Mother has handed over today less the number Father has taken, so that Father is never ahead; `mother_sem` is 1 only while both are between two days (`Turns`). The task of every child is a function of where the two threads are (`Tasks`). |
| `ThreadsProofs!HubbardIsHousehold` | `HubbardSpec => IsHousehold` | the counters of `Household` are functions of the two threads' places, and a step of the code is a step of `Household` or leaves them alone; that the next child is the one whose turn it is comes from the same invariant. |
| `MotherHubbardQueueProofs!QueueKeepsOrder`, `QueueEmptyAtReset`, `QueueIsHousehold` | the queue is in order, empty at the reset, and the program implements `Household`, for every number of children and days | `qItems` and `qSpaces` are the items and the free slots less those a thread has claimed; `qtail` and `qhead` are the children pushed and popped today modulo the size, so that at the reset both have come round to 0 (`Counts`); the two other semaphores hand the day over and back (`Turns`); a slot between `qhead` and `qtail` holds the child after it (`Contents`). |
| `ThreadsProofs!CopyIsExact` | `CopySpec => []CopyExact`, for every length, chunk and depth | a buffer holds the chunk its offset names, raw after the read and transformed once after (`DataRight`); the offset is the number of chunks begun times the chunk, so that the last one ends the file (`Counted`); no buffer is idle while there is something to read, so that an empty pool means the end (`Busy`); without faults every unit before the offset is written or in a buffer (`Whole`). |
| `ThreadsProofs!FarmersKeepStep` | `ThreadsSpec => []FarmInStep`, for every number of holes and every `dig_hole` | the shovel lies there or is in a hand (`ShovelKept`); for each hole in the shared queue Curley or Moe has been called or is about to be (`HolesCalled`); `dig_hole` and the holes between Larry's permission and Moe's return add up to its first value (`HolesAhead`). None of it asks which hole a farmer has. |
| `ThreadsProofs!QueuesKeepOrder` | `ThreadsSpec => []QueuesDeliver`, for every capacity and every number of items and chunks | demonstration: `empty` and `full` are the free and the full slots less those a thread has claimed, and the items taken are those of the consumers' counters (`ItemCounts`), so that when both have ended nothing is left; `InTurn` is kept because handing an item over does not change `taken \o line`. Fallback: each place, from the consumer back to the producer, holds the ids that follow those of the next one (`InLine`), and a thread ends after the one before it, with the queue between them empty (`EndsInTurn`). |
| `ThreadsProofs!ThreadsKeepQueue`, `ThreadsResetEmpty`, `ThreadsAreHouseholds` | what is proved of both Mother Hubbard programs holds of them as `threads` runs them | each program's variables change by its own steps only (`EachRuns`), so that `ThreadsSpec` implies the specification of each, and the theorems are instantiated. |
| `UnixProofs!AnswersBelong`, `PromptsAreClean` | `Spec => []AnswersInStep` and `Spec => []PromptClean`, for any number of processes, pipes and clients and any lines, whichever calls fail | see [the processes and their pipes](#the-processes-and-their-pipes) |
| `ArrivalProofs!NothingIsLost` | `Spec => []ArrivesInFull`, for any number of processes, pipes and clients, any size of a pipe and of an output, whichever calls fail | see [what goes through a pipe](#what-goes-through-a-pipe) |

### The file system's invariant

None of the structural properties is inductive: in the middle of a command the
FAT, the directory and the disk disagree. `TreeInv` states them at every step of every
handler, with the exceptions that the step really makes:

- `Shape` says of every block what it is: a block that leads somewhere is in use,
  each block has at most one entry (`OneHead`) or one predecessor (`OneLink`) and not
  both (`HeadNoLink`), a directory has each name once (`OneName`), a chain of a file
  holds text (`TextOnly`), and every block in use has an owner (`AllOwned`). Excepted
  are the entry that a deletion has already freed and not yet erased, and the block that
  a creation or an extension has taken and not yet entered (`Stale`, `Dropped`, `InHand`).
- `Hand` says what those blocks look like at each `pc`: `Formatting`, `Creating`,
  `Opened`, `Freeing`, `Extending`.
- `InDirs` says that the directory of every session is the root or has an entry.

`InDirs` is where `NothingStale` comes in, the hypothesis that there is one session, or
none of the commands `F` and `rmdir` that remove a directory another session may be in,
and that the server is not killed (`MaxCrashes = 0`). The code does not
keep the properties without it: `fat_stale_directory` and `fat_crash_delete` are
behaviours that break them.

`FilesInv` adds the contents: every stored file but the one that is being written is a
chain of n blocks that agrees with its size and holds one text; the chain that is being written
ends in `curr` and `done` counts its blocks; a read has sent what came before its next block. A step
writes one block, and `ChainsApart` shows from `Shape` that chains of two files have none
in common, so that it touches its own file only. `Texts # {}` is there because
the property names the text that was written.

Induction along a chain is induction over the natural numbers, which the library's
theorem does not give to these provers; `FirstIsLeast` (a set of naturals
that is not empty has a least element) takes its place.

### What survives a crash

A restart reads the FAT and the directories from the disk, so `CrashInv` speaks of the
disk at every step: `dfat` and the directory blocks on it are `Sound` at all times (what an entry
or a chain leads to is in use, and by one of them only). The steps in between are
covered by looking ahead: `Ahead` says that the FAT in memory with the blocks on the
disk, the session's directory replaced by the `buf` it is about to store, is `Sound` too,
and `Covers` that what the FAT on the disk has in use the one in memory has. Each disk
write then turns one sound picture into the next. Where a write truncates a file its first
block is excepted until its entry is stored.

`NothingRemoved` is the hypothesis that the clients send neither `F` nor `D` nor `rmdir`
and that the FAT is one block, so that `save_fat` is one write; `fat_crash_delete` shows that
with a deletion the code does not keep the property, and a FAT of several blocks is stored
in as many writes, of which a kill may leave the first ones only.

### Client and server in step

What is true of a client at its prompt says nothing of the steps before it, so
`InServed` describes the whole exchange over a line. As long as no write of the connection was refused
(`Clean`), a client that is served and has not left is in one of four places: at its prompt with
nothing on its way (`AtPrompt`); waiting for an answer while the server reads the
header, has it, or reads the data (`Asking`); with the answer on its way (`Answered`); or with
the line of a read received and its block on its way (`Showing`). Each names the bytes in
both directions. In the middle of a header they are what is left of the word the server is
in, a space, the words that follow (`Rest`), and the data the client has sent behind them
(`Sent`); `FirstByte` and `MoveChar` show that taking one byte leaves a stream of the same
kind. `NumbersAreRead` shows that `Atoi` gives back the number that `Decimal` wrote: hence the
data ends where the server expects it to, and the block is the one the client asked for.

A client may type and send before the server accepts it, so `WaitingOK` says what
is in the stream of one that still waits, and `PresentOK` that whoever is served and not up
has left: the end of a stream or an error never meets a client that is still there.

The third case of `Showing`, fewer bytes on their way than a block has, is the client
that took part of the block with the line before it: it never comes back to its prompt,
and the theorem does not say that it does.

### The processes and their pipes

`UnixInv` says of each program which places its processes can be at, and of every process
there whose child it is, which ends of which pipes it has open and what it remembers:

- `FsInv` ties a client of the file system to its server. At each pair of places it names
  what is in either direction of the connection and what the server has still to send:
  nothing between two commands (`Quiet`), the command, or the part of its reply that has
  not been read, by the step of `receive_response` the client is in. After a piece of a
  reply that is cut (`split`) or a killed server it says only that the connection goes to
  this server.
- `RevInv` says which client a thread of `reverse_server` serves (`Wired`, `Apart`: no two
  conversations share a pipe), and that the line is whole in one place of the
  conversation: with the client, in the pipe, or with the thread, then reversed in the
  other pipe. That `reverse_string` gives the mirror image is a lemma of its own.
  `Enough` counts processes, so that a failed `fork` is one that the operating system
  refused.
- `DupInv` and `LsInv` follow the descriptors of the root through `pipe`, `fork`, `dup2`
  and `close` (`DupRootOk`, `LsRootOk`), and say who its children are: those in its memory,
  or, after a second `fork` that failed, one more (`Known`). `OneInv` does it for the two
  simple shells.

The calls of `Unix` are the lemmas everything rests on: what each does to the process
table (`Becomes`), and that it touches one process, or two, only. A step is shown to be one
of the program's own steps from the labels (`Labelled`), because the processes of all the
programs share one next-state relation.

### What goes through a pipe

That an end of a pipe is open or closed says nothing of what has been through it, so
`ArrivesInFull` needs invariants of its own, on top of those above:

- `DupData`, of the pipeline of `DupShell`. From the first `fork` to the second `waitpid`
  each of the two commands has its place (`Pipeline`): the writer of the pipe is the
  first one or the shell, the reader the second one or the shell. If the second one is `wc`,
  `Ledger` balances the bytes: what `wc` has read and what is in the pipe is
  what `echo` has written; and once `wc` has ended the pipe is empty and the first command
  has ended too, because `wc` ends at the end of file only, which it does not see while
  somebody has the write end. As `wc` does not leave before that, no write of `echo` to
  it fails.
- `LsData`, of the conversations of `ls_server`. Every client that has sent or waits
  (`Told`) is either the one the server is talking to, and then `Exchange` says how much of the
  listing it has got or has on its way, by the places of server and child; or the server
  has closed its end, and then all of the listing is there, or all of the error text when
  `execvp` has failed, or nothing when `fork` has or the client asked without arguments
  (`Whole`); `Written` relates what the child has sent to what it has left of either. `Mine` keeps other
  clients from reading it.

Both say nothing of the other programs, whose steps leave `printed` at `Nothing`
(`Delivered`).

### What the theorems rest on

The named assumptions of the modules: `ConstantsAssumption`,
`LayoutAssumption` and `UnitsAssumption` of `FatFs` (the disk has room for the FAT and
a root directory, the 16-bit entries can name every block, an entry is not a piece
of text), `GeometryAssumption` of `DiskServer` (sizes are positive), `LinesAssumption` of
`DiskClients` (what a client sends for a line is a sequence of bytes), for `ClientsInStep` also its
`HeadersAssumption` (numbers of one digit, which is what the model writes, and data with writes only), `PoolsAssumption` of `Airline`, the sizes of
`BoundedBuffer`, of both Mother Hubbards, of `AsyncCopy`, of `SyncDemos` and of the queues of `GpuFallback` being positive;
for the programs of `MCUnix`, `UnixAssumption` and `BytesAssumption` (sizes are positive),
`ShellsAssumption` and `LsAssumption` (room for a shell's or server's children beside the
clients, an error text that is not empty), `ReverseAssumption` (what is typed is lines of text, and there is a process for
each client and one to serve it) and `TextsAssumption` (a text that is sent is none of the
pieces that frame replies). TLC evaluates them in every run.

Only model-checked: that handlers end after a crash, that what the compressors write
decodes to its source (`DecodesToSource`), and every liveness property. Liveness under fairness is out of the
prover's reach, and so is what the recursive functions of `Rle` compute for every text:
`DecodesToSource` is about little else.

## Disagreements

Runs that are expected to find a violation, each of what a comment says:

- `fat_stale_directory`: `fs_lock` "ensures filesystem consistency during parallel
  operations" (`fs_server.c:74`), but a session keeps `current_dir` as a block number:
  after another session removes that directory, the first one writes entries into
  a block that has become a file.
- `fat_crash_delete`: `save_fat` is called "to ensure consistency"
  (`fs_server.c:270`), but `cmd_delete` saves the FAT before the directory: a kill in
  between leaves a valid entry whose blocks are free.
- `disk_startup`: `connect_to_disk` is to "Establish connection to disk server and
  initialize filesystem" (`fs_server.c:104`): it sends the byte `I` and waits, and
  `read_token` waits for the white space that ends the word. `disk_client_random.c`
  does the same; only `disk_client_cli.c` sends `I\n`.
- `farm_order`: "Moe fills holes after seeds planted"
  (`simplified_synchronization_explained.cpp:21`), but the holes Larry has dug and those
  Curley has planted in go through one queue: when Larry digs the next hole before
  Curley puts back the one he planted, Moe takes an empty hole and fills it, and Curley
  plants in a planted one. Only the lengths of the demonstration's pauses prevent it.

Met while modelling, and left without a run: the two hazards named under
[Runs](#runs); `father_sem` is called a binary semaphore (`mh.c:67`) and counts up to
the number of children; `disk_client_cli.c` looks for the space after the cylinder
from the cylinder on (line 271), so that `W 1 2 hello world` writes `world` to cylinder
2, sector 0; `cpu_io_demo.c` does not look at how much `aio_write` has written and never
lets go of a request that failed; `fs_server.c` sends the reply to `R` under `fs_lock`, so that a
client that does not read it stops every session; `fs_client.c` takes what one `recv` gives for the whole
reply, and is one reply behind from then on when it was not.

## Not modelled

- Text of listings, prompts and logs; timing (`usleep`, seek delays, the time the
  compressors print); memory allocation failures; the sizes of C strings other
  than the file name and the path; bytes that a `write` leaves out, but for the
  asynchronous copy.
- `gpu_pipeline_cuda.cu`: its order is kept by the streams of the CUDA runtime, whose
  semantics is not in the repository. The fallback of the same program is modelled.
- A chunk of 0 bytes on the command line of `cpu_io_demo` (a division by zero), and a depth
  or chunk of 0 for the GPU fallback (a queue that nobody can push to, a total that
  never grows): the constants are positive, as with the defaults.
- The loop of `disk_client_random.c`, which it does not reach
  (see [Disagreements](#disagreements)).
- `week_1/nginx`: third-party code. The lecture samples of `week_1` to `week_6` are a few
  lines each around one call; `Problems1-5` are earlier versions of tasks 1 to 5 of `project_1`.
- Test scripts and documents.

`PROJECT.json` lists every part with its status.

## Plan

Done: every program of `project_1`, `project_2`, `project_3`, of the demonstrations and of
`production_io_demo` but for the exceptions above; the theorems of [Proofs](#proofs).

Left: an abstract file store that `FatFs` refines.
