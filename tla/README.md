# A TLA+ model of diskmon

diskmon builds a stack of block devices (files, RAID 6, LVM, dm-crypt, caches,
mirrors) by name from its arguments and runs a read-only consistency check of
the ext2/3/4 file system on top of it. The check is multi-threaded: one thread
reads the inode tables ahead, one compresses the map of cluster owners, and up
to `hard_child_limit` threads walk the block trees of single inodes while the
main thread scans the inode table. All of them synchronise with a lock of the
program's own, built on the Linux futex.

The project models the threads and the data they share, the passes of the
check from the super block to the rescue of files, the drivers below it, and
the libraries they stand on. It has TLA+ modules that TLC checks on small
instances, and proofs that TLAPS checks for every value of the constants.

Paths below are relative to the root of the repository.

## 1. Inventory

| component | source | state | operations | modules |
|---|---|---|---|---|
| btlock | `btlib/btlock.c`, `btlib/futex.h`, `btlib/x86/btatomic.h` | `locked`, `num_waiters`, `tid`, the kernel's queue | lock, unlock, wait, wake | `BtLock`, `Mutex`, proved |
| background cluster checks | `fs/ext2/ext2.c` 1096-1492, `fs/ext2/fsck.c` | five queues of jobs, list of threads, `live_child` | queue, start, register, work, take the next job, reap | `JobPool`, proved |
| table reader and main loop | `fs/ext2/threads.c`, `fs/ext2/ext2.c` 167-503, `fs/ext2/fsck.c` 1299-1517 | ring of inode tables, `prereaded`, `table_reader_group`, `group`, `inode_num` | read ahead, check a group, end of the scan, shutdown of the com cache thread | `TableReader`, proved |
| cluster owner map cache | `fs/ext2/com_cache.c`, `fs/ext2/bitmap.c` | LRU list, directory, counters, dirty marks, a lock per entry | get, load, move to the front, access, release, compress, drop | `ComCache`, proved |
| super block and descriptors | `fs/ext2/fsck.c` 160-1126 | the super block in use, the table found, reports | search, compare, repair, assert | `SuperBlock`, proved |
| inode tables | `fs/ext2/ext2.c` 191-503 and 1496-2062, `fs/ext2/fsck.c` 1128-1479 | the inode in hand, types, calculated inode map, marks | read a table with its errors, check and repair an inode, compare the maps | `InodeCheck`, proved |
| block and extent trees, cluster marks | `fs/ext2/ext2.c` 505-1270, `fs/ext2/bitmap.h` | counters and the current run of an inode, the owners | walk, count, collect, mark | `InodeTree`, `ChkBlock` |
| directory graph, problem contexts | `fs/ext2/fsck.c` 1517-2100, `fs/ext2/pc.h` | entries per inode, parents, `loop_protect`, problems | dot entries, parents, loops, link counts, paths | `DirGraph` |
| rescue and allocation map | `fs/ext2/ext2.c` 2100-2600, `fs/ext2/fsck.c` 2100-2300 | buffers of indirect clusters, the file being written, the calculated map | copy a file, build and compare the map | `DumpFile` |
| device registry, main program | `bdev/bdev.c`, `bdev/bdev.sh`, `main.c`, `bdev/dos/dos.c`, `bdev/fs/fs.c` | devices by name, who owns a name | register, rename, look up, stack, destroy | `Registry` |
| plugins | `bdev/bdev.c`, `crypt/crypt.c`, `bdev/dmcrypt/iv/iv.c`, `main.c` | arrays of drivers, ciphers, initial vectors | look up, load, construct, undo, destruct | `Plugins` |
| cache driver | `bdev/cache/cache.c` | info and data files, lookup set, lock | populate, read, write, restart | `CacheDev`, proved |
| raid6 driver | `bdev/raid6/*.c` | roles of the components, buffers, parities | assemble, map, read and recover | `Raid6`, `RaidLayout`, `RaidGF` |
| mirror, loop, looperr, blindread, dump, dc, dmcrypt, lvm drivers | `bdev/*/*.c` | position, chunk, buffers, segments | read, write, scan, compare, map | `BlockDevice` and one module each |
| AES | `crypt/cipher/aes.c` | key schedules | expand, encrypt, decrypt | `Aes` |
| trees, reference counters, objects | `btlib/avl*.c`, `btlib/refcounter.c`, `btlib/object.c` | nodes and list, counters in chunks, types | insert, remove, find; get, inc, dec | `Avl`, `RefCounter` |
| thread creation | `btlib/btthread*` | - | create, terminated? | as the callers see it |
| lvm-conf-extract, string utilities | | hardly any | I/O, parsing | not modelled |

### How the parts interact

    main thread --- ind_lock, ind[] ------------> workers (0 .. hard_child_limit)
      |   ^                                           |
      |   '-- table_reader_empty --- table reader     |  get_com_cache_entry
      '------ table_reader_full ----->  |             |
      |                                 v             v
      '--------------------------> cluster owner map cache <--> com cache thread
             com_cache_thread_lock, debug_lock, one lock per entry

    fsck --> bdev_read --> cache | raid6 | mirror | lvm | dmcrypt --> ... --> loop
                                (found by name in the registry of devices)

* The main thread and the reader share a ring of `INODE_TABLE_ROUNDROUBIN`
  inode tables. `prereaded` counts the tables ahead; two btlocks, used with
  wait and wake, put each of them to sleep until the other has gone on.
* The main thread queues the inodes with indirect blocks and starts workers;
  a worker that is done serves the queues itself before it ends.
* Every thread marks clusters through the cache. The com cache thread writes
  dirty entries back and drops clean ones, or the callers do it if it is off;
  its locks are then off, too.
* At the end of pass 3 the main thread waits for the workers; passes 4 to 6
  run alone, over the entries and owners that pass 3 collected.
* A device holds the devices it stands on; every access goes down the stack.
  What an access returns is the number of blocks done; where it is none, loop
  and looperr return 0, a cache, and dmcrypt on it, -1.
  The cache driver renames the device below it and takes its name.

### What is hard

Threads that end at the moment somebody counts on them; a hand-over of a lock
between threads; wake-ups that coalesce, and a reset that may swallow one; a
list whose neighbours move between a test and the lock; entries that must stay
in memory while in use and must leave it otherwise; threads that cannot be
created. Two files that belong together and are written one after the other.
Runs of clusters and chunks of blocks that are cut, halved, collected and
flushed. Copies, of super blocks and of components of an array, that
contradict each other. Graphs and trees from a disk that obeys no rule.
`PROJECT.json` lists each at its line under `hazards`, with the properties that
watch it. Nothing of this kind is tested in the repository.

## 2. Modules

| module | models | extends or uses |
|---|---|---|
| `Mutex` | the promise of a lock: at most one holder, which may pass it on | |
| `BtLock` | `btlock_lock`, `btlock_unlock`, one step per shared access and system call | implements `Mutex` |
| `JobPool` | queues, workers, reaping | locks as in `Mutex` |
| `TableReader` | reader, main loop, shutdown handshake | `btlock_wait`/`wake` step by step |
| `ComCache` | the cache, its clients and its thread | locks as in `Mutex` |
| `SuperBlock` | passes 1 and 2, the numbers and flags | |
| `InodeCheck` | pass 3 but for clusters and threads | extends `SuperBlock` |
| `InodeTree` | the trees of an inode, read in the two ways of the code | |
| `ChkBlock` | pass 3 for the clusters of inodes, several threads | extends `InodeTree` |
| `DumpFile` | passes 5 and 6 for them | extends `ChkBlock` |
| `DirGraph` | passes 4a to 5 for directories | |
| `CacheDev` | the cache driver over runs of the program that crash | |
| `RaidGF`, `RaidLayout` | arithmetic of a stripe; where a block is | |
| `Raid6` | assembling and reading an array | both |
| `BlockDevice` | a device with bad blocks | |
| `Mirror`, `Blindread`, `Dump`, `DeviceCompare`, `Loop`, `Lvm`, `DmCrypt` | one driver each | `BlockDevice` |
| `Registry`, `Plugins` | devices by name; drivers, ciphers and initial vectors by name | |
| `Aes`, `Avl`, `RefCounter` | libraries | |
| `...Proofs` | theorems about `BtLock`, `JobPool`, `TableReader`, `ComCache`, `SuperBlock`, `InodeCheck`, `CacheDev` | `Lemmas`, TLAPS |
| `Lemmas` | finite sets, quotients and remainders | |
| `MC...` | the instances for TLC | |

The composition is by contract. `BtLock` is shown to implement `Mutex`; the
other modules use locks as `Mutex` specifies them, and treat what is done under
a global lock (`ind_lock`, `CC_LOCK`) as one step, because mutual exclusion
makes it one. What the code reads or writes *without* its lock keeps a step of
its own. `JobPool` assumes that the reader delivers each group (strong fairness
of `EnterGroup`), which is `Terminates` of `TableReader`; `TableReader` has the
workers as a number that goes up and down as `JobPool` lets it. `ChkBlock` takes
an access to the owner map as one step, which is what `ComCache` shows of it;
`InodeCheck` begins where `SuperBlock` ends, and `DumpFile` where `ChkBlock`
does, in one state space each. `MCStorage`, `MCPasses` and `MCDevices` put
components that do not interact side by side: one of them is there, and the
variables of the others stay as they are.

Definitions introduced by a comment `Variant:` are not part of the
specification. Each is a mistake somebody could make in that place; replacing
the definition after it by the variant makes TLC find one of the properties
violated. `PROJECT.json` lists the pairs under `mutants`.

### BtLock

`pc[t]` is the next instruction of thread `t` in the two functions; the other
variables are the fields of `struct btlock_lock`. `FutexWait` and `FutexAgain`
are the compare-and-queue of the kernel, one step (`futex.h` 12-24).
`FutexInterrupted` is a futex_wait that returns for another reason; the code
does not look. `Pass` stands for a lock that is locked by one thread and
unlocked by another, as `t->lock` of a queued job is. The lock is not fair and
the model does not claim it: a thread that arrives late may overtake a sleeper.

### JobPool

A `struct thread` has the name of the inode it was made for. `lock[t]` is its
lock, `isc[t]` the inode it works on, which changes when the worker takes over
another job (`TakeNext`); `list` is what lies between `thread_head` and
`thread_tail`. The three reaping loops (`try_clone`, start of a group, end of
the scan) are one set of actions with three labels. Abstracted: what
`do_chk_block` finds out (it only counts that it ran), the priorities, the
progress bars. `NumInodes` counts inodes in use: free ones never get into
`cluster_scan_inode`. `live_child` here counts workers; in the code the table
reader is counted too while it runs, which `TableReader` models.

### TableReader

`slot[s]` is the group whose complete inode table is in slot `s` of the ring,
`Torn` while it is being read. `inode_num` is counted in groups. The waits and
wakes are the code of `btlock_wait` and `btlock_wake`: `Sleep` (futex_wait),
`Reset` (the store of -1), `Wake` (the increment), `FutexWake`. `locked` has two
values, as only the step from -1 to 0 matters. `++live_child` is a load and a
store (`LoadChild`, `StoreChild`). `CreateFails` makes the main thread read the
tables itself; then the macros TRE_*, TRF_* do nothing (`IfReader`).
The program installs no signal handlers, so futex_wait does not return early
here. Abstracted: what is in a table, unreadable blocks, the marks on clusters.

### ComCache

The owners in a group of clusters are abstracted to whether a copy has all the
stores: `behind` are the groups whose compressed copy lacks one, `lost` those
whose entry in memory does. A client is any thread of the check. `CheckPrev`
and `Relink` are the two halves of `comc_move_front`: the test of `walk->prev`
before the lock, and the rest under it. `Release` reads `num_in_use` without
the lock. `com_cache_work` is `ScanFinds`/`ScanFindsNothing`, `Compress`,
`StoreCompressed`, `Written`; it gives up `CC_LOCK` between them. Without a
thread the client itself runs it (`CallWork`, `WorkReturns`). The model stops
where the program would (`failed`): an access through NULL, a failed assertion.

`CC_LOCK` and `CCE_LOCK` do nothing if `allow_com_cache_thread` is false. The
module is about the two kinds of program where that is harmless (`CacheScope`):
the thread runs, with any number of clients, or the main thread alone uses the
cache (`OnlyMainThread`), as in a build without `THREADS` or without
`ALLOW_CONCURRENT_CHK_BLOCK_FUNCTION`. It says nothing of several workers
without the thread: the `conf.h` of the repository is such a build, and a
program that cannot start the thread goes on like that (`fsck.c` 1307-1309).

### SuperBlock, InodeCheck

A file system is a record: the numbers of its super block, and for every group
whether the copies are the same, differ, name another group or cannot be read.
Where they are found is computed as the code does it (`SearchedAt`, `CopyAt`) and
compared with where they were written (`WrittenAt`); what is found anywhere else
is garbage. One action per group of pass 1b and pass 2, one for each block of
checks behind them. The feature bits are sets of numbers, so that a bit cleared
in the wrong word (`ClearRecover`) does what it does. `InodeCheck` goes on with
`st` as it is left and reads the tables group by group; the slot of a table keeps
what was in it where the code does not fill it.

### InodeTree, ChkBlock, DumpFile

The disk says what each cluster would be as a pointer block, as an extent block
and as a directory. The recursion of `chk_block` is the sequence of calls still
to be made. A worker collects adjacent clusters in `batch` and flushes them at a
gap or at the end of an entry of the map; a flush is one step per access to the
map, in the order of `bitmap.h`, so that the steps of two workers and of the
marks of the tables interleave. `DumpFile` goes on alone with the owners found:
one buffer per level, kept from one position to the next as the code keeps it.
The number of a block wraps at `LbaBlocks` as `lba` does at 2^32, and a block
that cannot be written ends the file (`WriteFails`). The calculated map goes on
behind the last cluster up to `MapEnd` (`Padding`, `fsck.c` 2203-2206).

### DirGraph

An entry is parent, name and whether pass 4b made it up; the disk may hold any
four of the entries of the instance. The passes 4a to 4c are one step each,
passes 4d and 5 one step per inode on a walk.

### CacheDev

A run of the program is `bdev_init` step by step, accesses by several clients
under the lock, and an end at any step (`Crash`) or by destruction. The
directory and the files survive. `Promote` and `Touch` are what the operator
does between two runs. Every rename, creation, write and unlink may fail, the
unlinks of files that are given up included. The loop that reads old blocks
ahead is one step per entry (`GetOld`, `ReadAhead`, `GetCopy`); `pos` is the
position in the data file, which need not be that of the entry after a read has
failed (`SeekAfterError`). Such a read sets `shaky`, and the promises end there:
an entry that could not be read is looked up all the same, and the access
through index -1 (`cache.c` 527) ends the program (`failed`).

### Raid6, RaidLayout, RaidGF

`SkipMissing` to `Register` look at one argument after the other, in the order given, as
`raid6_init` does; roles, slots and `layoutmapping` are the code's. An access is
cut by `Bounds` and `Cut`, and each round reads its stripes column by column.
Any block may fail, up to a bound. Several threads read at the same time if the
array is `shared`; the space for blocks nobody asked for is one for all of them.
A block is one byte and really computed with:
P, Q and the recoveries are those of `RaidGF`. What the components hold comes from the
formulas in the comment at `raid6.c:1384`, so that layout and cutting are
compared with a definition of another kind.

### Drivers and libraries

`BlockDevice` is a device whose set of bad blocks the drivers do not know. It
answers 0 when its first block fails, or -1 if it is `stacked` on another one:
`bdev_read` of a cache does (`cache.c` 654), dmcrypt passes it on and has a -1
of its own (`CipherFails`), and the functions made by `bdev.sh` answer so where
a driver has no such operation. `Blindread`, `Dump` and `DeviceCompare` look for
-1 or only for all the blocks. `Mirror` and `Lvm` take it for a number of
blocks, as the code does: see Findings. `Mirror` lets blocks go bad during a read. `DeviceCompare`, `Blindread` and
`Dump` have their chunks as the code cuts them. `Loop` has two threads at one
descriptor. `Lvm` takes the disks in any order and any layout of two volumes;
its accesses have no error and ignore maps (`ext2.c` passes such maps only for
one block at a time).
`DmCrypt` uses a permutation of four values for the cipher; the real one is
`Aes`, where bytes are numbers and the tables are generated as the code does.
`Registry` has the names as cells of a heap with the number of times they were
freed. `Avl` has the nodes with their list; the recursive functions of the code
are recursive operators. `RefCounter` has the counters in their chunks.
`Plugins` has the three arrays and the shared objects of the repository.

## 3. Runs

| run | instance | shows |
|---|---|---|
| `btlock` | 3 threads | exclusion, no lost wake-up, the assertion of unlock, `Mutex` implemented with its liveness |
| `jobpool` | 4 inodes in 2 groups, 2 levels, 2 workers | no job lost or done twice, threads counted and listed, the scan ends |
| `jobpool_lost` | same | **violated**: a job can be left in the queues |
| `comcache` | 2 clients, 4 groups, limits 4 and 3, thread | no store lost, no entry freed in use, list and counters agree, no deadlock |
| `comcache_seq` | the main thread alone, 5 groups, limits 3 and 2 | the limit is kept, accesses return |
| `comcache_crash` | as `comcache` | **violated**: `walk->prev` can be NULL when it is used |
| `tablereader` | 5 groups, ring of 2, 1 worker | tables are complete when read, no wake-up lost, the scan ends |
| `storage` | cache: 2 blocks, 1 reader, 1 writer, room for 1 block; arrays of 3, 4 and 5 components, one of them with 2 readers | the files agree after any crash, no start is refused before a write, reads give the right block and never go through index -1; roles are held by the newest, accesses return what was written |
| `passes` | 5 inodes in a graph of 4 entries; 2 inodes over 8 clusters | loops, orphans and link counts found; owners, holes, rescued files and the cluster map right |
| `devices` | 3 mirrors, devices of up to 5 blocks that answer 0 or -1, 4 arguments, 8 keys, 3 types | accesses, scans, registry and libraries right, every call returns |
| `superblock` | 4 groups with any damage; 16 inodes in 2 groups | the table found is one, differences told, numbers fit, inodes and marks right |
| `cipher` | keys of 4, 6, 8 words | **violated**: the schedule is not Rijndael's |

### Bounds

* `btlock`: three threads are one holder, one sleeper and one that barges in.
  There is no other bound; the proofs cover any number.
* `jobpool`: with two workers and four inodes two jobs wait behind the limit, a
  worker takes a second job, ends, is reaped and replaced, and the order of the
  two levels matters. Any clone may fail.
* `comcache`: four groups and room for four with three dirty: entries are
  written out, dropped and loaded again while both clients use the same or
  different ones. Clients and groups are symmetric (no temporal property is
  checked in that run).
* `comcache_seq`: one group more than the limit and temporal properties, so no
  symmetry.
* `tablereader`: five groups and a ring of two wrap around twice; one worker
  (`MaxWorkers`) is started and reaped at any time.
* `storage`: two blocks and room for one make the cache refuse one; a
  write (`MaxWrites`: no more once any block has had so many) and two counted
  reads (`MaxAccesses`) tell old contents from new. The number of runs and crashes is not bounded. Arrays: every
  combination of ages, roles, spares and missing components of a RAID 5 of
  three, of ages and missing ones of a RAID 6 of four; two failing blocks in a
  RAID 6 of five in each of four layouts; all pairs of edges of an access
  over two chunks of three columns, with chunks of 4, 8 and 16 blocks; and a
  complete RAID 5 of chunks of two blocks that two threads read. Chunks of 4
  are the smallest in which the count of columns, lowered once per column read
  to its end, does not go below zero in the 8 rounds of `raid6.c` 2512.
* `passes`: five inodes are the root, two directories, a file and one that varies:
  enough for a loop of two, one hanging from it, and an orphan. Eight clusters
  of two blocks with two pointers each give every depth of tree, and an entry of
  the owner map has two clusters. `WordBlocks`, `LbaBlocks` and `MapEnd` are small
  and prime to the rest, so that files and clusters lie on both sides of them.
* `devices`: a chunk of three in devices of up to five blocks is halved, cut and
  aligned in every way; eight keys give trees of four levels, and the single and
  double rotations of insertions and removals at each of them. `MaxDrift` ends a
  read from a mirror that has gone back that far before the device. `MaxDecay`, `MaxArgs`, `MaxLoads`, `MaxTrees`, `LvAccess` bound what happens in
  one behaviour; `MayFail` which of the compared devices have bad blocks.
* `superblock`: four groups are one without a copy and three with, or all with;
  each of the tables in each state. `U32` is 2^20 in place of 2^32, above every
  number of the super blocks but those whose count of groups wraps.

### Fairness

The threads are threads of one process under a preemptive scheduler, so each
that can run is eventually run: weak fairness of every thread's steps. In
`BtLock` this only holds inside the functions: nobody has to call them or to
give a lock back. In `ComCache` a client need not ask for another group.
`EnterGroup` of `JobPool` is strongly fair: while the main thread waits for a
group it alternates between looking for it and `try_clone`, and the reader
delivers it (`TableReader`). futex_wait that returns early is never relied on.
In `devices` the step of a driver is weakly fair, as a thread that reads a
device goes on; `EveryCallReturns` leaves out the reads of a mirror that
answered -1, which really need not end; the going bad of blocks and the calls to libraries are not.
The other modules promise safety only: their loops are over inodes and groups.

`CHECK_DEADLOCK FALSE` stands where the program ends (end of the scan or of a
pass, or the model of the cache after a failure); `NobodyStuck` checks the owner
map cache for deadlock instead.

### Findings

1. `jobpool_lost`: the loop that served the queues at the end of the scan is
   commented out (`fs/ext2/fsck.c` 1487-1492); what is queued after the last
   worker looked is never checked.
2. `comcache_crash`: `comc_move_front` tests `walk->prev` at line 137 before it
   takes `CC_LOCK` at 141.
3. `cipher`: the loop that copies the key ends before the first word
   (`crypt/cipher/aes.c` 385).

What the modules also show, with no run of its own, is stated in them as a
property that does not hold, and in `hazards` as a note:

* `TableReader`: `ShutdownAssertion` without a reader (`com_cache.c:452`),
  `NoChildLeft` (`fsck.c:1515`), `GroupsEndWithInodes` for a group whose inode table is not in
  use: its inodes are not counted, and the main loop goes past the last group
  (`fsck.c:1439`).
* `ComCache`: `LimitKept` with the com cache thread, which drops one entry and sleeps.
  Several clients without the thread would have no locks at all; that is outside
  of the module.
* `Mirror`: a mirror that answers -1 (a cache with an unreadable block) is
  taken to have delivered -1 blocks (`mirror.c` 195-205): the read goes back by one
  block and asks for one more. With the other mirror good it gets that block, goes
  back again, and does not end; if all of them answer -1 it goes on before the first
  block, and with a good one would write in front of the caller's buffer. `Right` and `EveryCallReturns` do not
  hold of such a read (`st.minus`); no line of the repository says what a driver
  returns when it fails, so there is none to hold against it.
* `Lvm`: a segment whose disk answers -1 is passed over and counted as -1 blocks
  (`lvm.c` 1295-1298), and one that delivers less than it should is passed over as
  well (`st.hole`): what comes after is in the right place in the buffer, and the number
  returned is not that of the blocks delivered.
* `Raid6`: an access to three or more columns that begins and ends inside one chunk
  is read in 8 rounds whatever the size of the chunk (`raid6.c` 2512, `EightRounds`):
  with chunks of 16 blocks a part of the buffer stays as it was, with chunks of 4 more
  blocks are counted than were asked for. `ReadsRight` leaves these out. With two
  readers and a missing component `ReadsRight` does not hold either: what one of them
  recovers from lies in `d_space` and `p_space`, where the other one reads
  to (`raid6.c` 1516-1532).
* `DumpFile`: of a device with more than 2^32 blocks the wrong ones are rescued, and the
  file goes to `rescued/ok` (`ext2.c` 2513). `DumpFaithful` is about the others.
* `SuperBlock`: `RecoverRemoved`; the bit is cleared in another word (`fsck.c:1012`).
* `InodeCheck`: `TypesKnown`; inodes never used get no type (`ext2.c:1556`).
* `DirGraph`: `LoopMembersMarked`; and that a parent misses its entry is recorded but
  never printed (`fsck.c` 1984-2100).
* `ChkBlock`: `EmptyOnlyIfComplete`; a directory of which blocks could not be read may be
  called empty.
* `CacheDev`: `ReadsCurrent`; the block stays in the cache when it is written
  (`cache.c:473`). `OldDataServes` only promises some version of the right block.
  That the lock taken in `bdev_init` is never given back without an old info file
  is no violation of it either: the clients wait for ever (`cache.c:355`).
* `Registry`: a name is freed twice on the way `bdev_destroy` takes (`bdev.sh:38`,
  `bdev.c:131`). The module counts it, and `RegistryRight` only speaks of the
  devices still registered.

## 4. Proofs

`BtLockProofs` proves, for every finite set of threads (`ThreadsAssumption`):

* `Invariant`: `Spec => []IInv`, where `IInv` is `TypeOK`, `MutualExclusion`,
  `NoStrandedWaiter` and two facts they need: `WaitersCounted` (`num_waiters` is
  the number of threads between their increment and their decrement) and
  `LockedIffHeld` (`locked` is 0 iff some thread holds the lock).
  `NoStrandedWaiter` is not inductive without the first: when an unlocker reads
  `num_waiters = 0` and leaves, the proof needs that nobody is asleep. It is
  what rules the lost wake-up out.
* `TypeCorrect`, `MutexSafe`, `AssertionHolds`, `NoLostWakeup` follow from it.
* `Refinement`: `Spec => Abstract!Safety`. `InitMaps` and `NextMaps` are its two
  halves; the step that needs the invariant is `TryTake`: a successful cmpxchg
  means that nobody holds the lock.

The lemmas about cardinalities (`CountEnter`, `CountLeave`, `CountSame`) say
how `num_waiters` follows a thread that enters or leaves.

`JobPoolProofs` proves, for any number of inodes, levels of the queues and
workers (`PoolAssumption`):

* `Invariant`: `Spec => []IInv`. `ScannedOnce` is not inductive: that `Work` does
  not check an inode twice depends on where the worker's `isc` came from, which
  is the queue, which is the main thread's scan. So `IInv` follows a job along
  its way. `AheadUntouched`, `QueuedUntouched` and `InHandUntouched` say that a
  job which nobody runs has not been run and is in no worker's `isc`;
  `QueuedOnce` that it waits in one place; `BusyApart` that two workers never
  have the same one. For the threads, `HeldBack` says that the lock of a struct
  is held from the time it is queued until its thread is linked, and
  `ListedOnce` that the list has every other running thread, once.
* `TypeCorrect`, `NoJobTwice` (`ScannedOnce`) and `RunningIsListed`
  (`RunsOnlyRegistered`) follow from it.
* `EveryJobAccounted` (`JobsAccounted`): `IInv` gives that a job is in at most one
  place, and `NoneLost`, proved on top of it, that it is in at least one.
* `LimitKept` (`ChildrenCounted`): the count of the threads that are not reaped
  follows creation and reaping; `RoomForOne` carries the test of the limit from
  `CloneNext` to the creation. With `RunningIsListed` it is `WorkersAccounted`
  (`WorkersCounted`, which the run checks).

`BestLevel` is a `CHOOSE` of a maximum; that it exists (`HighestLevel`) is shown
without induction, from the well-founded order of finite sets. `TailElements`,
`AppendElements` and `WithoutElement` say what the code's list operations do to
the elements; `JobsStay`, `ListStays`, `HeldStays`, `PlacedStays` and
`CountStays` deal with the many steps that leave a part of the state alone.
The theorems hold in every state the main thread reaches, pass 4 included; that
a queue may still have jobs then is finding 1, and no contradiction: such a job
is accounted for as queued.

`TableReaderProofs` proves, for any number of groups, any size of the ring and
any number of workers (`ReaderAssumption`), with and without the reader:

* `Invariant`: `Spec => []IInv`, the conjunction of `Places` (which labels the three
  threads can be at, with what they have done in the kernel), `Counts`
  (`prereaded` is the distance between the reader and the main loop, plus one while the
  reader has not yet published what it counted), `NothingMissed` and `Handshake`.
* `NoSleeperForgotten` (`NoLostWake`) follows from `NothingMissed`, which is stronger
  in two places. Not only a sleeper must be waited for, but also a thread that
  has not yet tested the lock; and for each state of the lock the invariant says what
  the other one has still to do: store the lock, or call the kernel. An early
  return of futex_wait is a step like the others.
* `ShutdownHandshake` (`HandshakeWorks`): the lock of the reader is used a second time
  for the com cache thread. `Handshake` follows the last wake of the main loop from
  the end of the scan, where the lock is left open, to `reset_wait`, which
  therefore does not block.
* `TablesStay` (`TableIsThere`) and `GroupsEnd` (`GroupsEndWithInodes`), if every inode table is
  in use (`Uninitialized = {}`). That is a hypothesis and not an assumption: of other
  file systems the inodes fall behind the groups, and `GroupsEndWithInodes` fails as
  described under Findings. `Ring` says that the slots hold the groups from the one
  being checked to the last one read; two groups that are less than
  `INODE_TABLE_ROUNDROUBIN` apart have different slots (`SlotsDiffer`).

The lemmas `CountsKept`, `Rest` and `Others` deal with the steps that leave a part of the
state alone. `SleepStep`, `ResetStep`, `WakeStep` and `FutexWakeStep` prove each
part of btlock_wait and btlock_wake once for all four of their users.

`ComCacheProofs` proves, for any number of groups, any limits with
`MAX_COMC_DIRTY < MAX_COMC_IN_MEMORY` and any number of clients below the smaller one, with the com cache thread, or for the main
thread alone without it (`CacheAssumption`, `CacheScope`):

* `Invariant`: `Spec => []IInv`. `UsedEntriesStay` is not inductive: that
  com_cache_work does not drop what a client uses depends on who has which lock.
  `ClientsHold` says that a client has the lock of its entry from the look-up to the
  release, except while it waits for it, and is the only one that has; `WorkHolds`
  the same of com_cache_work for the entry it writes out; `ListHolds` that what is in
  memory is in the list, once, or being loaded by a client that asked for it;
  `DataHolds` that an access which is not written out yet is in an entry that is
  dirty and in the list.
* `StoresKept` (`NothingLost`), `EntriesStay` (`UsedEntriesStay`) and `ListConsistent`
  (`ListIsConsistent`) follow from it.
* `LimitIsKept` (`LimitKept` and `OneTooMany`), of a program whose main thread alone uses
  the cache (`OnlyMainThread`, the hypothesis of the theorem): com_cache_work then runs
  inside the one client that asks for an entry (`WorkAlone`), so nothing moves under
  its hands. The limit is only passed by the entry it was called for, and by one;
  that there is then one to drop, or to write out and drop, is `LastDroppable`. It is
  not a statement about workers without the thread, which have no locks.

`SuperBlockProofs` proves, for file systems of every number and size of groups and
every number in the super block, those included whose count of groups wraps
(`FileSystemsAssumption`, `U32Assumption`):

* `TableIsRight` (`TableRight`): pass 1b uses a group descriptor table unless all
  of them are lost, and leaves out no initialised inode table. The search makes
  its promise only step by step, so the invariant has two halves: while it goes
  on, every group with a copy that was passed by has lost it (`PassedByLost`, which
  after the first pass covers all groups, so that the later passes, which look
  where no table is, can do no harm); once it ended, `TableInUse`.
* `PlacesAgree`: the place in blocks of 512 bytes where the search looks is where
  mke2fs wrote the table, for every size of clusters; it needs that only
  clusters of 1 KiB begin with cluster 1, which the assumption says.
* `CopiesTold` (`DifferencesReported`): `ReportsInv` says that before group n is
  compared the reports are those of the groups below n; `CopiesFound` is
  `PlacesAgree` for pass 2, which computes the two places in another way.
* `NumbersOfPass3` (`NumbersFit`): `NumbersInv` carries what recheck_compat_flags has
  tested through the steps that change other fields (the flags, the times, and the
  inodes of revision 0), to the assertions before pass 3. What is left is
  arithmetic: `ClustersFit`, `TableFits`, and `LastPart` of `Lemmas`.

`InodeCheckProofs` goes on to the end of pass 3, for every content of the inode tables,
of which any block may be unreadable (`TablesAssumption`; `Describes`: there is an inode
record for each inode, and no group has more inodes never used than inodes):

* `MarksOfPass3` (`MarksRight`): the clusters marked for the copies are those they were
  written to. `HandedOn` carries from passes 1 and 2 what pass 3 computes with: numbers
  as on the device, the offset of the copies, and whether they are sparse. `Placed`
  says where the loop is: the group of the next inode (`Row`) is never ahead of the
  one that is counted, and is that one if no group is skipped. `Marked` is then
  `MarksRight` for the groups begun so far; `MarksOfGroup` shows that the cluster
  found by counting blocks from the start of the device (`MarkedAt`) is the one with the
  copy of that group.
  The property is about file systems with inodes and with features only if their
  revision has any: without inodes the loop ends before the first group, and a super
  block of revision 0 has no feature bits whatever is in their place.
* `InodesOfPass3` (`InodesRight`), whose parts have an argument each. `Once` says that
  every inode is looked at once; `HaveFree` that while `have_free` is set there
  is an inode never used before this one with none in use between, which is what
  `NeverUsedClaims` needs of it. `RepairsSettle` needs no other part: that a repaired inode
  is left alone by a second repair is a fact about `Repaired`. `Known` gives for the
  inodes passed by what `ScanRight` says of all of them; it holds
  if all groups are initialised (of others the inodes fall behind the groups) and
  either no block has inodes of two groups, as `ScanRight` demands, or none is lost,
  as `CleanMapAccepted` does.
  `CleanMapAccepted` follows from it and from the maps read so far.

The lemmas `...Does` say once what each action does to the record `scan`; `Moved` and
`CheckingAt` are what the four kinds of looking at an inode have in common.

`CacheDevProofs` proves, for any blocks, readers, writers and capacity of the cache
(`CacheDevAssumption`: at least one block fits, and no client has the name of a state
of the lock), over any number of runs with a crash or a failed operation anywhere:

* `Invariant`: `Spec => []IInv`. `FilesAgree` is about the two files a start has opened, and
  says nothing of those that lie in the directory or of what the run will write. `IInv`
  has three parts.
  `DiskInv`: every pair of files that a start may still come to take together agrees
  (`PairsAgree`): the pair being written, the one that is complete, and both mixtures
  that are there when only one of the two was renamed. `Restarts` says that the
  missing half is there to be renamed, `UpPlace` which files each step of
  bdev_init can count on being gone.
  `MemInv`: nothing is in memory until the lookup set is populated (`Started`); the set
  points into the lists and the lists name the block (`Lookup`); `num_blocks_cached`
  is the number of old blocks in memory, which have all been read (`Counted`); the
  client with the lock still has the entry it goes on with (`Holder`).
  `LinkInv`: the new files have the entries of the new list, but for the one whose data
  is written and whose info entry is not (`Writing`), which is how a crash between the
  two writes leaves a longer data file and never a longer info file; the old list
  follows the entries of the old file, and the place in the data file keeps
  pace with `next_read_index` (`OldData`).
* `TypeCorrect`, `FilesBelongTogether` (`FilesAgree`) and `NoStartRefused` (`StartsAgain`)
  follow from it, and `EachBlockOnce`: an info file never names a block twice, so that
  avl_add while populating never meets a block it already has.
* `ServesOldData` (`OldDataServes`). That a client gets its own block is in `IInv`. That no
  access goes through index -1 needs what the counts in the files say, in any run that
  wrote them: `CountInv` has that every entry of an info file but the last was counted
  (`EveryCounted`), as the next one is only added by the client with the lock, after
  the count of this one was written; populating leaves out a last entry without
  accesses, and an entry is no longer looked up after its last access (`LeftToRead`).

`UnlinkEffect` and `RenameEffect` say what the calls do to the directory, `ReplaceOld`,
`AddNew` and `CountNew` what a read, a first and a later access do to the lists;
`...Kept` and `...Keeps` deal with the steps that leave a part alone.

Model-checked only:

* all liveness, that of `Mutex` included, and `NobodyStuck` of `ComCache`: fairness and
  ENABLED are beyond the prover;
* `LimitKept` with the com cache thread, where it is not true: a wake-up drops one entry;
* `NothingLeftBelowLimit` of `JobPool`;
* `RolesHeld` and `ReadsRight` of `MCStorage`, and the properties of `MCPasses` and
  `MCDevices`. They are about modules with recursive operators or bitwise arithmetic
  (`Avl`, `Lvm`, `InodeTree` and what extends it, `RaidGF` and `Raid6`, `Aes`), with
  which the prover cannot work, or stated in a module that composes such with others.

## 5. Plan

What is left, in this order:

1. `MirrorProofs`: every block of a read from the mirror that delivered it, for any
   number of mirrors.
2. `RaidLayout`: the roles of a chunk are a permutation.
3. `Registry`: the names of registered devices are alive and differ (`Right`).

At most twelve runs are kept: the runs of findings that are settled give way
to those of new modules.

## 6. Not modelled

* The lexer of LVM metadata, partition tables, arguments, strings, messages and
  progress bars: parsing and formatting. `lvm-conf-extract` only copies text.
* The rescue of directories, links and devices in pass 5: each is one system call
  on what `DumpFile` and `DirGraph` compute. `ext2_dump_file_by_path` and
  `ext2_redump_file` have no callers.
* What cannot be reached: `raid6_component_read` (it ends at its first statement),
  the search for silent failures in a stripe (behind an `assert_never_reached`,
  which `Raid6` has as the end of the program), `main.c` behind `exit(0)`, and
  `ebsiv.c`, which is not built.
* Checksums: the code does not compute those of group descriptors, and ignores what
  those of LVM metadata say. The conversions of `endian.c`, on little endian machines.
* Memory ordering is taken to be that of x86 with the barriers the code has. Failing
  memory allocations end the program or the call, and are modelled where they
  leave something behind (`Plugins`, `RefCounter`, `Registry`).

The modelled build is that of `fs/ext2/conf.h.example`, with all three kinds of
threads; its other options (`USE_COMC_THREAD_TO_READ`, `COMC_IN_MEMORY` off, the
lock made of pipes) are not modelled. The `fs/ext2/conf.h` of the repository
differs: it keeps the concurrent cluster checks but turns the table reader and
the com cache thread off, and with the latter every lock of the cache
(`com_cache.c` 109-117). `BtLock` and `JobPool` apply to that build as they
stand; `ComCache` does not: several workers that share the unlocked cache are
outside of `CacheScope`.

Of the disaster reads of `Lvm` and `Raid6`, what the error map gets is modelled in
`Raid6` only; that `lvm.c` 1304 does not advance `ignore_map` from one segment to
the next, and dmcrypt's lack of such a read, are not.
