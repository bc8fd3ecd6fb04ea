# San Jose Filesystem (SJFS): specifications and proofs

SJFS is a Linux file system whose kernel module fetches its blocks from a user
space process. This directory holds TLA+ modules for the parts of it that run
concurrently or can fail, the TLC configurations that check them on small
instances, and TLAPS proofs of the main safety properties for every instance.
`PROJECT.json` relates every definition to the lines of source it models.

Paths below are relative to the repository. `sjfs.c` is
`src/kernel_space_module/sjfs.c`, `main.c` is `src/user_space_application/main.c`.

## 1. Inventory

| Part | State | Operations | Talks to |
|---|---|---|---|
| Socket level (`sjfs.c` 15-78) | `cn_sem`, `cb_sem`, `read_block_buffer`, `cn_counter` | `sjfs_read_block`, `sjfs_write_block`, `cn_callback` | callers in kernel threads; the connector, which runs `cn_callback` in the context of the process that sends |
| Data structure level (`sjfs.c` 80-144) | none of its own | `sjfs_get_disk_superblock`, `sjfs_get_disk_inode`, `sjfs_set_disk_inode` | the socket level |
| Inode operations (`sjfs.c` 189-307) | `inodes_bitmaps_cache`, the dentries of the root directory | `create`, `unlink`, `rename`, attribute stubs | VFS, data structure level |
| File operations (`sjfs.c` 146-187) | none | stubs that return 0 | VFS |
| Superblock, mount, module (`sjfs.c` 365-518) | the superblock, the connector callback, the bitmap caches, `once` | `sjfs_init`, `sjfs_exit`, `sjfs_mount`, `sjfs_fill_super`, `sjfs_kill_sb` | VFS, connector, the helper it starts |
| Helper process (`main.c`) | pid file lock, disk image, socket | `main`, `format`, `do_work`, `netlink_send` (never called) | the kernel, over a netlink multicast group; other invocations, through the lock and the image |
| Disk layout (`src/include/blocks.h`) | - | sizes and counts | both sides |
| In-memory prototype (`src/ramfs_test`) | inodes and dentries | mknod, create, link, unlink, rename; mkdir and symlink refuse | VFS |
| Backup plan a (`src/backup_plans/a`) | the two semaphores, an allocated answer buffer, inodes and dentries | file reads and writes as requests, directory operations; a helper | VFS, connector |
| Backup plan b (`src/backup_plans/b`) | inodes and dentries | directory operations, a printing callback | VFS, connector |

What is hard here:

* two semaphores, a static buffer and a callback that runs in another process's
  context: `cb_sem` is a lock, a "somebody waits" flag and a wakeup signal at
  once, and the code marks its use as a "potential race" (`sjfs.c:20`);
* requests carry no identity that the receiver compares, so order and number of
  the answers matter; requests can be lost; there is no timeout;
* allocation failures that skip a `down` but not the `up`;
* mounts, unmounts and unloading that overlap, with one callback registration
  and one superblock between them;
* a helper that is started and not waited for, of which several invocations may
  race for a lock file while one of them formats the disk image.

The hazards, each with the line where it bites and the properties aimed at it,
are listed in `PROJECT.json`.

## 2. Modules

    Semaphore ---- BlockTransport ---- MCBlockTransport
                     |     \_ BlockTransportProofs
                     | implements    \
                   BlockService       \_ BlockServiceProofs (the refinement)
    KernelModule  ---- MCKernelModule,  KernelModuleProofs
    HelperProcess ---- MCHelperProcess, HelperProcessProofs
    Semaphore ---- FileTransport ---- MCFileTransport
         |           \_ FileTransportProofs
         \_ SemaphoreProofs (lemmas for both)
    InodeTable    ---- MCInodeTable,    InodeTableProofs
    InodeTree     ---- MCInodeTree,     InodeTreeProofs

The first three components meet at their interfaces: `KernelModule` takes a block read
as one step, which `BlockTransport` refines; the peers of `BlockTransport` are
processes that answer, of which `HelperProcess` shows there is at most one (and
that the committed one does not answer, see Observations); `KernelModule` knows
of the helper whether it is bound and whether it answers.

### Semaphore
The kernel's counting semaphore (external): a count and a first-come,
first-served queue of sleepers. `up` hands the semaphore to the first sleeper.

### BlockTransport
One program counter per kernel thread and one per peer's callback; every
statement that touches shared state is an action:

| Source | Action |
|---|---|
| `sjfs_read_block` 35-47 | `ReadBlock` (allocation succeeds or fails), `EncodeAddress` |
| 48, 49 | `ReadDownCn`, `ReadDownCb` |
| 51 | `ReadSend` (multicast to every peer with room; a send may miss a peer) |
| 59, 60 | `ReadAwaitCb`, `ReadUpCb` |
| 63 | `ReadCopy`, a piece of the block at a time |
| 64-66 | `ReadReturn` |
| `sjfs_write_block` | `WriteBlock`, `WriteReturn` |
| `cn_callback` 19, 20, 25, 27 | `CallbackTrylock`, `CallbackIgnore`, `CallbackCopy`, `CallbackSignal` |

The contents of block *n* is the value *n*, in every piece. The request is five
bytes, so `EncodeAddress` keeps three digits. `cn_counter` is left out: it is
only printed. Actions of the peer and of the connector are external.

`BlockService` is what the rest of the module may rely on: one call is served at
a time, and a read returns the block it names. `BlockTransport!Service` maps the
program counters and semaphores to it.

### KernelModule
`sjfs_init`, `sjfs_exit`, the steps of `sjfs_mount` and `sjfs_fill_super`
(`AddCallback`, `MountSingle`, `GetDiskSuperblock`, `CheckMagic`,
`FillInodeBitmap`, `FillDatablockBitmap`, `GetDiskInode`, `FillRoot`) and the two
halves of `sjfs_kill_sb` (`KillLitterSuper`, `DelCallback`). The disk is three
facts: is the magic right, is bit 7 of the first bitmap byte set, how many data
block bitmaps are there. A NULL from `sjfs_mount` is dereferenced by the VFS, and
unchecked allocations are written to: both end in "oops", a thread that stops
with what it holds. `sjfs_get_disk_superblock` copies a block into four bytes
(`sizeof(SJFS_BLOCKSIZE)`, `sjfs.c:85`); the outcome is open, so the step may
oops, or the magic read may be wrong. A block read returns only while the helper is
bound and answers (`Served`); the committed `do_work` does not answer (`answers` is
FALSE), and any helper may end in the middle of a mount (`HelperExits`: a failed
`poll`, a signal, an exit before it is bound). A read without an answer leaves its
thread in "lost".

### HelperProcess
One program counter per invocation, from the lock file (`Protect`), options
(`ParseOptions`), the four parts of `format`, opening the image and the socket to
the loop (`Poll`, `Recv`, `DoWork`). Any system call may fail and any process may
be killed (`Kill`). When `open` or `flock` of the pid file fails for another reason
than a lock that is taken, `main` goes on without the lock (`GoesUnprotected`), which
`unprotected` records: the properties about a single instance are about executions
without it. The disk image is its length; the stream that `format` writes
is buffered, so when it is cut short, or a flush in the middle fails, any beginning
of the image may be there (`Flushed`); `short` has the processes whose `format` had
such a failure and did not notice it.

The helper uses `BLOCK_SIZE`, `MIN_BLOCKS`, `OPCODE_READ`, `address`, ... which
no header defines (`blocks.h` and `ipc.h` have them with the prefix `SJFS_`, or
not at all), and passes a `cn_msg` to `do_work`: as committed it does not
compile. It is modelled under the evident reading of those names.

### FileTransport
Backup plan a (`src/backup_plans/a`), which sends file reads and writes instead of
block reads. One program counter per kernel thread and one per peer; the peer runs
the callback in its own context, as in `BlockTransport`.

| Source | Action |
|---|---|
| `init_sjfs_fs`, `exit_sjfs_fs` | `InitModule` (each of its two registrations may fail), `ExitModule` |
| `sjfs_fops_read` 77, 78 | `Read`, `ReadDownCb` |
| 80-91 | `ReadSend` (without memory nothing is sent) |
| 93, 94, 96, 98 | `ReadAwaitCb`, `ReadUpCb`, `ReadCopy`, `Return` |
| `sjfs_fops_write` | `Write`, `WriteSend`, `Return` |
| `cn_sjfs_callback` 51, 58, 60, 63, 64 | `CallbackTrylock`, `CallbackAlloc`, `CallbackCopy`, `CallbackUp`, `CallbackReturn` |
| `main` of `sjfs_helper.c` | `Recv`, `RecvFails` |

A request is a number with a count of bytes; a buffer is its size and whose answer
it holds. The committed helper drops every request, because a `break` stands before
its `do_work` (`sjfs_helper.c:189-191`); `answering` is the set of peers, possibly
empty, that answer instead (external). What differs from `BlockTransport`: the
message is allocated between the downs and the ups, the answer goes to a buffer
that the callback allocates and publishes through a global pointer, and the
callback is registered with the module, not with the mount. `rmmod` passes static
semaphores to `kfree`, so its outcome is open ("oops" or unloaded); a callback that
is under way when the module goes, its return included, is left without code
("oops"). A write is sent when `copy_from_user` returned `count`: that is a write of
no bytes, without any failure, or one whose first byte faults (`WriteSend`). The
helper may not have received such writes when a read request comes, and its socket
is full: `overrun` records a read request that no answering peer had room for.

### InodeTable
`sjfs_iops_create`, `sjfs_iops_unlink` and `sjfs_iops_rename` of `sjfs.c` over the
bitmap in memory. `Scan` is the loop of `sjfs.c:209`, whose condition `Searching`
goes on while a number *has* been found. It is written in closed form, without
recursion, so that it can be proved about: after the bytes below *i* the number is
that of the last of them with a free bit (`Found`), and the loop ends at the first
byte where `Searching` fails. The sizes of a byte, of the scan, of the
cache and of an `int` are parameters, and the memory after the cache is part of the
state, changed by others at any time (`Elsewhere`). `InodeByte` is the byte as
written, not divided by eight. A write outside the memory of the model may go
unnoticed or end in an oops, which leaves the directory locked (`oops`). The VFS
holds the directory's lock during each operation, so an operation is one step.
`create` uses `inode_byte`, `inode_bit` and `SJFS_INODE_SIZE` without declaration;
it is modelled with those of `unlink` and `SJFS_INODESIZE`.

### InodeTree
The in-memory file systems: `src/ramfs_test` and the directory operations of
backup plans a and b. The plans have the prototype's operations and also mkdir and
symlink, which the prototype refuses (`variant`); the code is otherwise the same,
so each definition is mapped to one of the three copies. An inode has a type and
`i_nlink`; `entry` is the dentries, `pinned` those with the extra `dget`, `open`
the inodes that processes hold. `Mknod`, `Mkdir`, `Symlink`, `FillSuper` and
`KillSb` are the repository's code; `Link`, `Unlink`, `Rmdir` and `Rename` are its
wrappers with what libfs does for them; the checks of the VFS (`Vacant`,
`Occupied`, `MayRename`) are external. The VFS locks the directory, so an
operation is one step, except `sjfs_symlink`, which allocates twice: between
`Symlink` and `SymlinkDone` or `SymlinkFails` other directories change and this
one may be moved. Errors that change nothing are stuttering steps. Superblocks
share nothing, so one is enough. Contents, inode numbers and times are left out.

## 3. Runs

| Run | Instance | Result |
|---|---|---|
| `transport_safety` | 3 threads, 1 peer, blocks 1 and 8194, 2 pieces, answers of exact and of excess length, 1 lost send | holds |
| `transport_service` | 2 threads, 1 peer, no loss, fair | no lost wakeup, all calls return, implements `BlockService` |
| `transport_faults` | 2 threads, 2 peers, 2 failed allocations, fair | no lost wakeup, all calls return |
| `transport_second_helper` | 2 threads, 2 peers | `UnneededMessageIgnored` violated |
| `transport_no_memory_senders` | 3 threads, 1 failed allocation | `OneSender` violated |
| `helper_process` | 2 invocations at a time, 3 in all, 5 command lines, 2 messages, 2 faults, fair | holds (316 482 states) |
| `module_mounts` | 3 threads, 5 disks, helper absent or bound, answering or not, 2 faults, fair | holds (7348 states) |
| `file_transport` | 2 threads, 2 peers of which none, one or two answer, requests of 2 lengths (one is 0), 2 insmods, 1 fault | holds (5.0 million states) |
| `inode_table` | 2 files, bytes of 2 bits, a scan of 2 bytes, a cache of 3, overflow in byte 4, all contents | holds (46 648 states) |
| `inode_bitmap` | the same | `BitmapRecordsFiles` violated |
| `inode_tree` | 4 inodes, 2 names, 1 failed allocation, both variants | holds |
| `module_early_mount` | mount right after insmod, fair | `EarlyMountSettles` violated |

Why the bounds are enough for the interesting cases. Three threads: one inside,
one in the queue of `cn_sem` and one about to enter. Two addresses: an answer to
the wrong request is visible. Two pieces: a torn copy is visible. An inbox of
one: with one request under way a larger one is never used by a single peer, and
with two peers one of them falling behind drops requests, as a full socket does.
Two processes and three starts: the loser of the lock race, a successor after an
exit or kill, and a late third. A pointer of two bytes there keeps the lengths of
an image that was cut short few; the size of a piece is not what the properties
depend on, and the proofs are for any. Two faults: a failed mount after a failed mount,
which is what leaves a callback behind. In `module_mounts` disks have no, one or
two data block bitmaps, which covers the empty loop. Four inodes are a root, a
directory in a directory and something to move over it; two names, two links to
one file. In `file_transport` two lengths make a buffer that is too short visible,
and two insmods a callback that is called after rmmod or left behind by a failed
insmod. In `inode_table` the mapping ends with the cache (the scan faults) or two
bytes past the overflow (it ends with a negative number, at once or one full byte
later); the order of the sizes, scan < cache < overflow, is the code's.

What `file_transport` shows. Mutual exclusion holds whatever fails, unlike in the
socket level, because every path to `up(&cn_sem)` goes through the `down`. With a
single process that answers a read gets the bytes it asked for, or nothing when the
buffer could not be allocated. `OnlyReturnLosesCode` is about unloading:
`cn_del_callback` does not wait for a callback under way, and what keeps the code in
memory is the open file of the reader. That is enough up to the callback's
`up(&cb_sem)`, and no further: the woken reader may return and close the file, and
`rmmod` take away the code, while the callback has its return before it. The model
has that step and the property states exactly this limit. `NoStrandedReader` says
when a reader waits for good: nobody answers, something failed (a request was not
sent), or writes of no bytes filled the socket when the request was sent (`overrun`).

What `inode_table` and `inode_bitmap` show. No file ever gets the root's number 0
(`TypeOK`), and when the scanned bytes are full `create` refuses and does not search
on (`FullTableRefuses`). But the loop that is to "get next free inode number"
(`sjfs.c:208`) goes on when it has one and only ends with a number that overflowed,
and the bit that create is to set (`sjfs.c:231`, "set the inode bitmap bit") is not
in the bitmap: `BitmapRecordsFiles` fails with the first file. The theorems
`NumbersUnrecorded` and `BitmapUnchanged` say that this is so for every file and
every size.

What `helper_process` shows. `SingleInstance`, `ServedDiskIsStable` and
`ServesItsFormat` hold until an instance goes on without the lock. `ServesItsFormat`
is about crashes: an instance started with `-n` serves exactly what it formatted,
also after an earlier `format` was killed or could not write; after an `fwrite` that
failed unnoticed the image is shorter, and never has anything of another one. That
its length is a pointer per kilobyte and not what was asked for is in Observations.
`StartSettles` has both cases of the race: the loser of the lock ends although the
winner stays in its loop for good, and an instance that runs without the lock blocks
nobody.

What `inode_tree` shows. `i_nlink` is kept in two places, by mkdir here and by
rmdir and rename in libfs; `LinkCounts` says that after any sequence of them it
agrees with the tree, with directories that are removed while open included.
`NoLeakedInode` is about the failed `page_symlink`, overwriting renames, files
unlinked while open, and unmounting; `EntriesPinned` about the extra `dget`, which
is what keeps a file in existence.

Fairness. `FairSpec` of `BlockTransport` gives weak fairness to the steps of a
call under way (the kernel runs runnable threads; the semaphore wakes sleepers in
order) and to a peer's steps (it serves its socket in a loop). Nobody is obliged
to call. `HelperProcess` gives weak fairness to the steps of each process in which no
call fails, and none to deliveries, starts and kills; `KernelModule` to threads inside a mount or
unmount and to the helper's way to `bind`.

Deadlock is checked where all calls return. It is switched off in
`transport_safety` and `file_transport` (a lost request blocks for good), in `HelperProcess` (all
invocations may have ended) and in `KernelModule` (an oops may leave the module
unusable).

What the violation runs show:

* `transport_second_helper`: the callback takes a held `cb_sem` for a waiting
  reader. A second process's answer to the previous read comes late: the next reader
  has its own answer and was woken, but holds `cb_sem` until its `up` (line 60).
  There the late answer overwrites the buffer, and the reader copies out the previous
  block. The lock file of the helper is what keeps this from happening.
* `transport_no_memory_senders`: after a failed `kzalloc` the unpaired
  `up(&cn_sem)` admits two threads.
* `module_early_mount`: `UMH_WAIT_EXEC` does not wait for `bind`; the first
  request is lost and the mount sleeps for good, although the helper is bound later
  and would have answered.
* `inode_bitmap`: see above.

`MountSettles` is the positive side of `module_early_mount`: a mount ends as long as
the helper is bound, answers and does not end; an unmount, and the cleanup of a mount
that failed, ends in any case.

## 4. Proofs

All theorems hold for any number of threads, peers, processes, inodes or names and
any bounds on faults. The constants' assumptions are `TransportAssumption`,
`FileAssumption`, `HelperAssumption`, `ModuleAssumption`, `TableAssumption` and
`TreeAssumption`, which TLC evaluates in every run. A theorem that needs more says so
in its `ASSUME`. Every safety property of a passing run is stated by a theorem.

`SemaphoreProofs` has the lemmas on `down`, `up` and `down_trylock` that the proofs
about both transports use: who sleeps afterwards, and that nobody sleeps twice.

`BlockTransportProofs`
* `TypeCorrect`: `[]TypeOK`. `TypeOK` alone is not inductive: that a thread's
  `memcpy` stays inside the block needs `CopyProgress`, which ties its progress to
  the program counter.
* `Exclusive`: `[]MutualExclusion`, if no allocation fails. The invariant `CnInv`
  says that `cn_sem` counts 0 or 1, that its sleepers are distinct and are
  threads in front of the critical section, and that a count of 1 means nobody
  is inside. Distinctness is needed because `up` wakes the head of the queue: a
  thread queued twice would still sleep.
* `ReadsAreRight`, `SignalIsBinary`, `CallbackOnlyForWaiter`: under
  `ServiceAssumption` (no failed allocation, one peer, full-length answers), a
  read of a block with a three-digit number returns it, `cb_sem` never counts 2,
  and the buffer changes only for a waiting reader; any request may be lost, and
  other threads may ask for numbers that do not fit. The
  invariant `CbInv` describes, for each place of the thread inside, the state of
  `cb_sem`, the peer and the buffer: before the send everything is quiet; then
  the request or the answer is pending and carries what the thread's own address
  was encoded to; then it is in the buffer and stays there. The violation runs drop
  two of the assumptions, one at a time.
* `NobodyStranded`: `[]NoStrandedReader` under `DeliveryAssumption` (there is a peer
  and no request is lost). Allocations may fail and any number of peers may answer,
  so `CnInv` and `CbInv` are not available: exchanges may overlap. `WakeInv` is
  weaker and survives that: there is always a unit of `cb_sem`, a peer with a request
  or an answer under way, or an awake thread that still has its `up` to do. Again the
  sleepers must be distinct, or an `up` would leave its thread asleep.

`BlockServiceProofs`
* `TransportImplementsService`: `Spec => ImplementsBlockService`, under
  `ServiceAssumption` and `ThreeDigits` (no number is cut off by `EncodeAddress`).
  Initial states map to initial states and, from the invariant of
  `BlockTransportProofs`, each action maps to a step of the service or a stutter:
  only the call, getting `cn_sem` (by `down` or from the `up` of the thread before),
  the last piece of the copy (`Fetch`) and the return are visible; the exchange
  through `cb_sem` and the callback is stuttering. `CbInv` is needed where the copy
  ends: what has been copied must be the block that was asked for.

`FileTransportProofs`
* `TypeCorrect`; the invariant ties the packet and the answer to the program
  counters, since what is sent and what the callback allocates come from them.
* `Exclusive`: `[]MutualExclusion`, with no assumption on faults, loads or peers.
  Its `CnInv` is that of `BlockTransport` and one more fact: threads are inside a
  call only while the module is loaded, because `insmod` resets the semaphore.
* `NobodyStranded`: `[]NoStrandedReader`, with no assumption: the property itself
  asks for a peer that answers, no fault and no overrun so far. `RouteInv` says
  that a loaded module has its callback, that readers send requests and writers do
  not, and that without a fault every helper is alive; `WakeInv` is the one of
  `BlockTransport`, for a loaded module, with a read request, and not just any
  message, in the socket of a peer that answers.
* `ReadsAreRight`, `CodeOutlivesCallback`: `ReadGetsOwnAnswer` and
  `OnlyReturnLosesCode`, for a finite set of peers of which at most
  one answers (`OneAnswers`, part of the properties), whatever fails and however
  often the module is loaded. The invariant `CbInv`: outside an exchange nothing is
  pending but perhaps the return of the last callback, and `Phase` gives for each
  place of the reader inside what is under way.
  More than in `BlockTransport` has to be said: the buffer is new in each exchange
  and may be missing (`NULL`) when there was no memory; a socket may hold write
  requests, which nobody answers, beside at most one read request; and since the
  module cannot be removed with a reader inside, no answer is pending when it goes.

`HelperProcessProofs`
* `TypeCorrect`; `OneInstance` (`[]SingleInstance`) and `ServedDisk`, with no
  assumption: the properties are about executions in which no instance went on
  without the lock. The invariant: a process past the protection is in `lock`, and
  `lock` has at most one member.
* `FormatServed`: `[]ServesItsFormat`, for every size and pointer size.
  `FormatInv` is the loop invariant of `format`: when `i` stands at *k* blocks, the
  image has *k* pieces, or fewer bytes if an `fwrite` failed; the lock keeps other
  instances off the image in between.

`KernelModuleProofs`
* `TypeCorrect`; `Linked`, `NoOrphanCallback`, `MountsAlone`. The invariant
  `LinkInv`: at most one thread is between `cn_add_callback` and
  `cn_del_callback`, that thread implies a registered callback, a superblock
  implies a registered callback, and a live superblock implies that no such
  thread exists. No assumption on faults: threads that stopped in an oops are
  part of the argument.

`InodeTableProofs`
* `TypeCorrect` and `FullRefuses` (`FullTableRefuses`), for every size of byte,
  scan, cache and `int` that `TableAssumption` allows and every contents of the
  memory. `FullScan`: without a free bit in the scanned bytes the loop ends right
  after them, with 0.
* `NumbersUnrecorded` and `BitmapUnchanged`: the finding of `inode_bitmap` in its
  general form. They are not what the code promises but the opposite: no file ever
  has a number of the bitmap, and no bit of the bitmap ever changes. `ScanResult`:
  the loop runs out of the memory, or ends with 0 (none free) or with a number that
  overflowed, never with a positive one. `TableInv` has what the theorems need of
  each other: all file numbers are negative, and the mapped memory starts at byte 0;
  therefore `InodeByte` of a file number never hits it and no bit changes.

`InodeTreeProofs`
* `Pins` (`[]EntriesPinned`): inductive with the types of the dentries.
* `TypeCorrect`, `LinksCounted` (`[]LinkCounts`) and `NothingLeaked`
  (`[]NoLeakedInode`), from one invariant `TreeInv`. None of them is inductive
  alone: that `i_nlink` stays a natural number needs `LinkCounts`; `LinkCounts` of
  a removed or replaced directory needs that it has only one dentry (`EntryInv`);
  that nothing is lost needs that what is removed is empty, that an inode in
  memory has a holder (`HeldInv`), and that a symlink under way holds its
  directory (`MakingInv`), which therefore cannot be removed, although it can be
  moved. `ReachInv` says every inode with a dentry is below the root; `Above` is a
  statement on sets closed under "is an entry of", so that no induction is needed,
  and the case of `Rename` shows that, with the check of `MayRename`, moving a
  directory makes no cycle. Counting uses the cardinality theorems of the library.

Only model-checked:
* liveness (`CallsReturn`, `MountSettles`, `StartSettles`, `MessagesConsumed`): the
  installed provers do not handle fairness;
* the properties of the violation runs, which are false.

## 5. Observations

Read off the code while modelling; they need no exploration, so no run is spent
on them.

* `sjfs_write_block` sends nothing, although its comment (`sjfs.c:69`) says it
  "writes a block to disk (handles all the socket calling)".
* `do_work` answers no read request (`main.c:169` is commented out): with the
  helper as committed the first `sjfs_read_block` never returns. The runs above
  assume a peer that answers.
* `format` writes `sizeof` a pointer instead of a block (`main.c:82`, `99`),
  compares a byte count with a size "in KB" (`main.c:98`, `229`) and leaves
  `magic` zero, which `sjfs_fill_super` refuses (`sjfs.c:396`); `blocks.h:44`
  says `magic` "should always be equal to SJFS_MAGIC".
* The data block bitmaps start at block 2 + 8192 (`sjfs.c:410`), and the request has
  room for three digits (`sjfs.c:44`): a mount that reads them gets block 819
  instead of 8194, although `sjfs_read_block` "reads a block from disk (handles all
  the socket calling)" (`sjfs.c:34`).
* When the pid file cannot be opened, `flock(-1)` fails with `EBADF`, which is not
  checked for (`main.c:210-213`), and two instances may run; the comment says "only
  allow a single instance of this program to be run at any given time". The model
  has this (`GoesUnprotected`), and the properties exempt it.
* `sjfs_iops_create`: besides what `inode_bitmap` shows, two creates in a row get the
  same number, since the bit of the first is set elsewhere; ENOSPC, "no inode was
  free" (`sjfs.c:218`), is returned when the first four bytes are full, of 1024, and
  the new inode is then leaked. `sjfs_iops_rename` returns 0 without looking at the
  target: a file that is moved over keeps its number.
* `sjfs_set_disk_inode` uses the number modulo the block size as an offset
  (`sjfs.c:139`), `sjfs_get_disk_inode` the number times the size of an inode
  without reducing it to the block (`sjfs.c:114`); only inode 0 is read. `inode_t`
  is "fill to 2**x = 64 bytes" (`blocks.h:65`), but its size is 200 bytes where
  `long` has eight, and 16 do not fit in a block.
* Backup plan a: a write is sent only when `copy_from_user` copied nothing
  (`a/sjfs.c:122-123` takes its result for the bytes copied), so writes of no bytes
  are sent, others are not, and the former can fill the helper's socket before a
  read; `rmmod` right after a read can free the code of a callback that has only its
  return left (`a/sjfs.c:63-64`, `334`); nothing keeps a second process from
  answering, and its callback may then replace the buffer between the allocation and
  the copy of the first one (`a/sjfs.c:58-60`); answer buffers and
  `data` are never freed; a reader whose message cannot be allocated waits all the
  same (`a/sjfs.c:80-93`); in the unreachable `do_work` the test of `fseek` is
  inverted and the file is opened "wb", which truncates it.
* With one peer that answers, the branch of `cn_callback` that ignores a message is
  never taken: only a second answer reaches it.
* When `sget` fails `sjfs_mount` leaves the callback registered (`leaked` in
  `KernelModule`), and every later mount fails; `CallbackHasOwner` exempts this
  case.

## 6. Not modelled

* File operation stubs of `sjfs.c` (no state), attribute operations and lookup (they
  call the VFS's own functions), the printing callback of backup plan b.
* `netlink_send` of both helpers and `do_work` of plan a's: never reached.
* Disk layout: declarations, and arithmetic whose results are never used beyond
  inode 0 (see Observations).
* File contents and the page cache of the in-memory file systems, build files.
* The composition of `KernelModule` with `BlockTransport`. The calls of
  `sjfs_fill_super` are synchronous and cannot be interrupted, mounts exclude each
  other (`MountsAlone`), and nothing else calls `sjfs_read_block` while a superblock
  is being filled, so a mount is one thread of `BlockTransport` that calls again and
  again: the composed states add nothing to the product of the two.

## 7. Plan

1. Done: all modules above and their runs.
2. Done: proofs of every safety property of a passing run and of the refinement of
   `BlockService`.
3. Next: properties of steps that the proofs above use inside their invariants and
   that deserve a statement of their own, such as `NobodyStranded` with lost requests
   (a stranded reader only after a loss), and shorter proofs where cases repeat.
