# A TLA+ model of fsarchiver

fsarchiver saves file systems (`savefs`) or directories (`savedir`) to an
archive and restores them (`restfs`, `restdir`); `archinfo` shows what an
archive holds. All of them run as a pipeline of threads around one queue. This
directory models that pipeline, the volumes it writes, the contents and the
attributes of files on their way through it, and what happens to the
partitions; it checks the models with TLC, and proves with TLAPS the safety of
the queue, of the save and the restore pipeline, of the volumes, of the
attributes and of what is done to the partitions, for every value of their
parameters. Paths below are relative to `src/src/` unless they
begin with `src/`.

## The system

| Part | State | Operations | Interacts with |
|---|---|---|---|
| queue (`queue.c`) | linked list of headers and blocks, `blkcount`, `itemcount`, `curitemnum`, `endofqueue`, a mutex and a condition | add, take for processing, replace, dequeue, destroy, set and get the end | all threads |
| synchronisation (`syncthread.c`) | `g_stopfillqueue`, `g_aborted`, `g_secthreads`, `g_fsbitmap` | setters, getters, `get_interrupted()`, `get_abort()` (pending signals) | all threads |
| compression threads (`thread_comp.c`) | a private copy of one block | take, compress or decompress, replace, exit | queue |
| writer thread (`thread_archio.c`, `archwriter.c`) | archive file, current volume | open, write, split, footer, drain after an error, remove | queue, file system |
| reader thread (`thread_archio.c`, `archreader.c`) | position in the archive | read header or block, skip damage, change volume, close the queue | queue, file system |
| save (`oper_save.c`, `regmulti.c`) | walk over the trees, group of small files, counters of errors | create threads, analyse, walk, queue objects, shut down | queue, threads |
| restore (`oper_restore.c`, `regmulti.c`, `datafile.c`) | file being rebuilt, group, counters | create threads, read headers, rebuild objects, drain, shut down | queue, threads |
| data structures (`dico.c`, `writebuf.c`, `strdico.c`, `strlist.c`, `dichl.c`) | dictionaries, buffers, lists | add, get, encode, decode | everything |
| file systems (`filesys.c`, `fs_*.c`, `devinfo.c`) | none of their own; the superblocks and the mounts of the machine | detect, read features, mkfs, mount, unmount by external programs | save, restore |
| command line (`fsarchiver.c`, `options.c`, `oper_probe.c`) | options | parse, dispatch, list devices | operations |

What is hard: the order of items although several threads process blocks at
once; the shutdown, which differs between save and restore and depends on
flags, on a thread counter and on the end of the queue; errors found by a
thread that does not decide; damaged archives, after which the restore code
meets items it does not expect; Ctrl+C at any time. Files and attributes that
other programs change while they are read; items that reach the queue in
another order than they were read, because small files wait for a group;
attributes that undo each other when they are restored (an owner the
capabilities, a file the time of its directory); formats that depend on the
versions of tools; error paths that must undo a mount. `PROJECT.json` lists
these hazards at their lines.

What makes the parts correct:

* queue: counters agree with the list, memory is bounded, the end is final, a
  block is processed once and never freed while a thread works on it;
* save: it ends; items are written in order; a footer means that nothing is
  missing; success means a whole archive; failure leaves nothing behind;
* volumes: together they hold the items of one archive in order; the end of
  the archive means that all of it was read; none is too large; those of an
  older archive are neither mixed in nor lost;
* restore: it ends; nothing wrong is reported as right; damage costs only what
  was damaged and is reported; excluded paths are left alone;
* files: what is counted as restored has the contents and the links it had,
  whatever way it was stored; a failure costs one file;
* attributes: what is counted has the attributes it had, its times in whole
  seconds; directories keep their times; what is written can be read; a change
  by another program during the save costs no more than what it changed;
* partitions: what is mounted is not formatted, and nothing stays mounted; the
  file system that is created is the one that was saved, or asked for.

## Modules

| Module | Models |
|---|---|
| `Queue` | `queue.c`: every function under the mutex is one action, the condition of its wait loop the guard |
| `Threads` | `syncthread.c` and `thread_comp.c`; the properties of the queue |
| `QueueProtocol` | the queue under its most general client: any order of calls next to the compression threads; the inductive invariant |
| `QueueProofs`, `SaveProofs`, `RestoreProofs`, `VolumesProofs`, `PartitionsProofs`, `AttributesProofs` | the theorems about `QueueProtocol`, `SavePipeline`, `RestorePipeline`, `Volumes`, `Partitions` and `Attributes` |
| `SaveWholeProofs`, `RestoreWholeProofs` | on top of `SaveProofs` and `RestoreProofs`, the theorems that relate the whole tree or archive to the result |
| `Transfer` | what a pipeline promises: a FIFO transfer with each item processed exactly once |
| `SavePipeline` | `oper_save()`, `thread_writer_fct()`, compression threads |
| `RestorePipeline` | `oper_restore()`, `thread_reader_fct()`, decompression threads |
| `Volumes` | `archwriter.c`, `writebuf.c`, `archreader.c`: an archive is saved in volumes, where an older one may have left some, and read again |
| `FileData` | the contents: `createar_save_file()`, `regmulti.c`, `dichl.c`, `compress_block_generic()` and its reverse, `datafile.c`, the rebuilding of files |
| `Attributes` | `createar_item_xattr()` and `_winattr()` next to programs that set, change and remove attributes, `dico.c` and its form in a header, `restore_attr_everything()` and the functions that create objects |
| `ExtFs` | `fs_ext2.c`: feature flags, types, the arguments of mke2fs and what it creates; operators without state |
| `XfsFs` | `fs_xfs.c`: features and the arguments of mkfs.xfs, in the same way |
| `Partitions` | `filesys.c`, the mounting part of `oper_save.c`, the arguments and the formatting in `oper_restore.c` |
| `MCQueue`, `MCSave`, `MCRestore`, `MCVolumes`, `MCFileData`, `MCAttributes`, `MCPartitions` | small instances; `MCSave` and `MCRestore` also extend `QueueProtocol`, so that TLC can check that the pipelines implement it |

`Queue <- Threads <- {QueueProtocol, SavePipeline, RestorePipeline}`; both
pipelines instantiate `Transfer`. `ExtFs <- XfsFs <- Partitions`. The other
modules are views of the same operations that meet in what `Transfer` promises:
the pipelines show that items arrive in order, each processed once, so that
`Volumes`, `FileData` and `Attributes` can treat the queue as a sequence.
`Volumes` takes the items that the writer thread writes one after the other and
shows what happens to them in the files. `FileData` has the bytes of the files
and `Attributes` what the headers say about them; in `Partitions` all of this is
one step. `SavePipeline` and `RestorePipeline` see the archive as one sequence
of items.

### State and actions

An item is a record: type, status, number and `info`. `info` stands for a
`blkinfo` or a `headinfo`; in the pipelines it is a record of the magic, the
file system id, the object, a position, a count and, for a block, whether its
contents are clear, packed or lost (`zeroed`). The pipelines have no bytes: an
MD5 comparison is modelled there by what decides it, whether the blocks written
are those of the file, all of them and intact (`file.intact`, `filepos`).
`FileData` has the bytes.

Every step of a thread between two accesses to shared state is one action,
named after the thread (`main_`, `writer_`, `reader_`, `thread_comp_`); its
guard is the program counter of the thread and the condition of the code. A
function of the queue that returns an error leads to its own disjunct
(`DequeueFails`). What can go wrong outside the program is named by a fault;
`Faults` says which of them an instance allows (in `RestorePipeline` each
member of `Jobs` has its own, with the paths that are excluded and those that
exist before):

* save: `abort` (Ctrl+C), `pthread` (a thread cannot be created), `analyse`
  (mount or first walk fails), `attr` (an object cannot be opened or its
  attributes not read), `read`, `truncate`, `lstat` (fatal in the walk),
  `ignored` (`opendir()` fails, or `lstat64()` with `-A`), `exists` (the
  archive is there already), `create`, `write`, `footer`, `comp` (a
  compression thread gives up);
* restore: `abort`, `pthread`, `usage` (wrong arguments for this archive),
  `mkfs` (also mount and umount), `open`, `attr`, `write`, `header` and `data`
  (damage to the archive), `io`, `missing` (a volume is not found), `unpack`,
  `comp`;
* volumes: `create`, `write` (a buffer is written in part or not at all),
  `unlink`, `crash` (of the open volume any end may be missing; those that
  `archwriter_close()` has closed are on disk), `moved` (a volume is elsewhere
  and the user types a path, the right one or not);
* files: `attr`, `open`, `read`, `truncate` during the save; `damage` of a
  block and `lose` (a damaged header) in the archive; `create` and `nospace`
  during the restore;
* attributes: other programs set, change or remove an attribute between any two
  calls of the save (`races`), also one that was missing or has been removed;
  `create`, `lchown`, `lsetxattr` fail in the restore;
* partitions: `mount`, `xattr`, `statvfs`, `save` fail in savefs, `mkfs`,
  `tune`, `mount`, `objects` in restfs; a partition may be busy at each of the
  four attempts to unmount it, or `umount` fails in another way, which ends the
  attempts.

In `Volumes` a file is a sequence of entries: the header of a volume, its
footer, an ordinary header, the header of a block and the data of a block. An
entry has the id of its archive and its number; it can be read or not, and a
write that fails leaves some of the entries of its buffer. The writer is one
thread, so its steps are the calls that touch a file. Removal can follow a
failure, or an archive that is complete when the main thread reports an error;
the restoration reads what is found after the writer has ended, whatever the
reason.

In `FileData` a directory is a sequence of entries in the order of `readdir()`;
a file is a sequence of bytes, zero or not, and an entry may be another link to
an earlier file. One action saves an entry of each kind: an empty or large
file with its own blocks, a small file that joins the group, a link to a path in
`dichl`. The group is queued when either limit asks for it, and at the end of
the walk. A block is packed with the answers that the libraries give
(`opt.results`) and unpacked with the password of the restore. The restore has
one action for each call that can fail, and writes zeros as holes, with a final
`ftruncate`. The checksum of a file is its contents.

In `Attributes` the save reads the attributes of one object in the steps of the
code: `lstat`, the list of names, and for each name its size and then its
value, with other programs in between. `xattrs` is what the objects have now,
`seen` the history of all the values they have had. The size may be 0, which
makes the second call a question for the size alone, or -1 if the attribute has
vanished: `createar_item_winattr()` tests for that, `createar_item_xattr()`
goes on with a buffer of no bytes and no limit. If the attribute has a value
again when it is read, memory outside the buffer is read or written
(`Overruns`); what the program does then is undefined, so that the model either
stops in the phase `undefined` or goes on, with any contents (`junk`) where the
buffer was not filled. A time is a record of the seconds modulo 2^32, the
multiple of 2^32 that is left (`era`, negative before 1970) and the fraction of
a second: the save casts it to a u32 and the restore sets whole seconds
(`Carried`). The names that are still to be read are a set, of which any may
come next, since `llistxattr()` promises no order; the names of an ntfs are a
fixed list. A dictionary is a sequence of items with a size of 16 bits. The
restore creates the objects in the order of the archive, the directories above
them that are missing first (`mkdir_recursive()`); every call that the kernel
couples to another attribute has that effect (a new entry changes the time of
its directory, `lchown` removes the set-user-id bit and the capabilities).
`JobType` says which trees there are: directories come before what is in them
and files before their links, symbolic links have no set-user-id bit, an object
has no more names than the buffer of 4096 bytes of `llistxattr()` can hold
(2047, each of one character and its zero), unless `listfits` says that the
list is longer than the buffer.

In `Partitions` a partition has a superblock (type, revision, flags, UUID) and
contents that are none, part, or all of a file system. `mounts` holds those of
the user and those of fsarchiver. The steps of savefs are the mounting of each
argument with every early return, the saving, and the unmounting; those of
restfs the arguments, then mkfs, mount, objects and umount for each. An
attempt of `generic_umount()` succeeds, finds the partition busy, or fails in
another way and is the last one. The text of `uuid=` in an argument may be
anything; `Uuid` uses it if it is a UUID, as the code does if it has 36
characters. A job is a
machine with its tools and the two command lines. mke2fs, tune2fs, mkfs.xfs and
xfs_admin are external: their operators say what they do with the arguments
that the code gives them, and which features they enable by themselves.

A pending signal is seen by `get_abort()` at the next call: the variable
`aborted` is true from the moment the signal arrives. All of `queue.c` runs
under the mutex except one read of the end of the queue at `queue.c:417`,
which chooses between two negative return values that no caller tells apart. The
functions that add to the queue test `endofqueue` before they wait for room
and not again after it (`queue.c:213`, `288`), while the action has both
conditions in one step: the thread that fills a queue is the one that closes
it, so that the end cannot be set while it waits.

Definitions with a suffix (`queue_not_full_OffByOne`, ...) are faulty variants
of the code. Nothing uses them; each shows that one property would notice such
a mistake (`mutants` in `PROJECT.json`).

## Runs

Passing runs (`tlc -config X.cfg MCxxx`):

| cfg | Question | Distinct states |
|---|---|---|
| `Queue` | Do the counters, the limit, the ownership of blocks and the end of the queue hold for any client, with two threads and up to 4 items? Is `QueueInv` an invariant? | 24 421 |
| `SaveFs` | savefs of two file systems, two compression threads, faults of threads, mount, walk, archive and user, an archive that exists already: does it end, in order, report a fatal error and leave nothing behind? Is `SaveInv` an invariant? | 202 185 |
| `SaveDirs` | savedir of two directories, faults of files, writer and compression thread: is a complete archive complete, and success a whole archive? | 1 618 216 |
| `RestDir` | restdir with up to two damaged items anywhere, with Ctrl+C, with every fault of the destination, of the archive and of the threads, with exclusions: no silent corruption, only the damaged files lost, excluded ones untouched? | 1 040 470 |
| `RestFs` | one of two file systems from two volumes, two decompression threads, a damaged block, missing volume, Ctrl+C: order, use of the queue, termination? Is `RestoreInv` an invariant? | 75 449 |
| `Volumes` | volumes with and without `-s` and `-o`, next to any of the volumes of an older archive, with failures, a crash at any step, a volume that was moved: are the items read those of one archive in order, is a saved archive readable, is the old one kept, does a failure leave nothing, does a volume fit? Is `VolumesInv` an invariant? | 192 132 |
| `FileData` | up to four files and links of all kinds, groups at both limits, holes, every answer of the compression libraries, passwords, one fault: is what is counted right, a clean round trip the same tree, and does a fault cost one file? | 1 168 584 |
| `Attributes` | two trees with extended attributes of all sizes, two changes by other programs during the save, one failing call of the restore: does what is counted have its attributes, do directories keep their times, and do the changes cost no more than what they change? | 374 464 |
| `Partitions` | ext2, ext3, ext4 and XFS with many combinations of flags, every conversion between the ext types, old and new tools, large devices; two file systems mounted or not, right and wrong arguments, with a UUID or what is not one; one fault and busy partitions: is nothing mounted formatted, nothing left mounted, and what is created what was asked for? Is `PartitionsInv` an invariant? | 609 880 |

Some invariants are conjunctions of named parts, each with its own comment:
`QueueInv` (the type, `CountersMatch`, `QueueBounded`, `InProgressIsHeld` and
what the proof needs), `ArchiveIsRestorable` (type, `LinkAfterFile`,
`GroupInBounds`), `CountedKeepsAttributes` (`CountedKeepsStd`,
`CountedKeepsXattrs`), `RacesAreHarmless` (`NoInventedValue`,
`VanishedIsNoError`, `OverrunNeedsRace`), `DicoIsReadable` (type,
`NothingLeftOut`), `CreatedIsFaithful` (`FlagsKept`, `LargeIsAddressable`,
`XfsFormatKept`). `SaveInv`, `RestoreInv`, `VolumesInv` and `PartitionsInv` are
the inductive invariants of the proofs; each contains the type invariant of its
module, and `PartitionsInv` implies `CommandsCleanUp`
(`BadArgumentTouchesNothing` and `NothingLeftMounted`).

`QSpec` as a property of `SaveFs` and `RestFs` says that the pipelines only do
to the queue what `QueueProtocol` allows; therefore the theorems about `QSpec`
hold for them. `TransferSpec` is the refinement of `Transfer`: `sent` is what
was queued, `got` what was written (save) or taken by the main thread
(restore), and delivery is promised until the receiving end gives up.

Runs that end in a violation, each a place where the code does not do what a
comment or a document says (`findings` in `PROJECT.json` quotes both):

| cfg | Property | What TLC finds |
|---|---|---|
| `SaveCompHang` | `SaveEnds` | a failing compression thread tells nobody (`get_stopfillqueue` for `set_stopfillqueue`), the program hangs |
| `SaveLateWriteError` | `SuccessIsWhole` | a write error after the last check gives exit status 0 |
| `FileDevices` | `CountedIsRight` | the dictionary of hard links uses `st_rdev`, which is 0 for a file, instead of `st_dev`: of two files on two devices below one directory with the same inode number, one is restored as a link to the other |

The passing properties are stated so that they exclude exactly these cases and
the ones below: `CleanSuccessIsWhole` assumes that the writer did not fail and
no walk ended early; `RestoreEndsOnceStarted` that the decompression threads
have begun to run when the queue is emptied; `FileData.cfg` has one device.
`CHECK_DEADLOCK FALSE` stands in the runs in which a hang can happen, and
nowhere else: `SaveDirs` and `SaveCompHang` (a compression thread dies),
`RestDir` and `RestFs`, where the main thread may begin to empty the queue
before a decompression thread has counted itself.

### Other disagreements

These were met while modelling, and have no run of their own; the change to a
configuration that shows each of them is given.

* The queue holds `blkmax + 1` blocks (`queue.c:220` waits while
  `blkcount > blkmax`), where `src/internals/MULTITHREADING:41-43` says that
  the thread which fills the queue waits when the limit is reached.
  `QueueBounded` states the limit of the code; `blkcount <= blkmax` fails.
* `createar_oper_savedir()` ignores a walk that ended with a fatal error
  (`oper_save.c:1157`), unlike savefs (`oper_save.c:1146`):
  `FatalErrorIsReported` fails in `SaveDirs`.
* If the reader thread cannot be created (`oper_restore.c:1418`) nobody closes
  the queue and the program hangs, against
  `src/internals/MULTITHREADING:115-117`: `RestoreEndsOnceStarted` fails in
  `RestFs` with the fault `pthread`.
* A damaged header costs files that are not damaged, against
  `src/README:64-65`: the footer of a file is replaced by the header of the
  next object (`oper_restore.c:848`). `OnlyDamagedIsLost` fails with the fault
  `header`.
* Two lost headers can restore a file with the contents of another one: when the
  blocks and the footer of file A are unreadable, and so is the header of file B
  behind them, the blocks and the footer of B follow the header of A; their
  checksum is the one in that footer, so A is written with the contents of B and
  counted (`oper_restore.c:848`, which does not compare the path in the footer),
  against `src/internals/FILEFORMAT:178-179`, "Because of the md5 checksum, we
  can be sure that the program is aware of the corruption if it happens".
  `NoSilentCorruption` excludes this case (`Usurped`) and fails without it when
  `MaxCorrupt` allows four damaged items; `CountedIsRight` fails in `FileData`
  with four faults.
* An object whose header is damaged is missing from the result and the exit
  status is 0: the reader thread counts it in a local variable nobody reads
  (`thread_archio.c:178`), where `src/internals/FILEFORMAT:178-179` says that
  "we can be sure that the program is aware of the corruption if it happens".
  `CleanRestoreIsWhole` without its condition `damaged = {}` fails in
  `RestDir`.
* The main thread stops emptying the queue when no decompression thread is
  counted (`oper_restore.c:1607`), also before a thread has counted itself, and
  joins it for ever (`oper_restore.c:1612`). `RestoreEnds` fails in `RestDir`
  with `oper = "ARCHINFO"`, `fsbitmap = {}`, `MaxCorrupt = 0` and `Jobs <-
  InfoJobs`: archinfo only reads the first headers between creating the threads
  and the shutdown.
* A file that could not be read to its end is in the archive without its
  footer. If it is excluded from the restore, it takes the next header for its
  footer and does not look at what it is (`oper_restore.c:849`), nor is it
  counted as an error: the next object is missing with exit status 0, against
  `src/README:64-65`. The theorems about whole archives (`WholeArchive`) leave
  this case out.
* An excluded file that is in the destination is deleted if its blocks do not
  all reach the main thread, because of Ctrl+C, a damaged header or an archive
  that cannot be read: `delfile` is obeyed whether the file is excluded or not
  (`oper_restore.c:878`), where `src/doc/fsarchiver.8:142-143` only says that it
  is excluded. `ExcludedIsUntouched` without its condition on faults fails in
  `RestDir`.
* A directory, link or device that is excluded leaves its function by the exit
  for errors (`oper_restore.c:352`, `440`, `497`, `548`) and is counted as one,
  so that restdir with `-e` may report failure although nothing failed; an
  excluded file is not counted (`oper_restore.c:883`).
* The footer of a volume is written after the test of its size
  (`archwriter.c:333`), so a volume can exceed the size of option `-s` by its
  footer, where `src/internals/FILEFORMAT:39-40` says that it is always a bit
  smaller. `VolumeFits` states what the code does.
* `oper_restore.c:1606` says that no decompression thread works when the queue
  is emptied. The reader may add a block after `queue_count_items_todo()` has
  returned 0; what saves the code is that `queue_destroy_first_item()` waits
  for a block in PROGRESS, which `QSpec` in `RestFs` checks.
* A read error in a large file leaves its header in the queue without all its
  blocks and without its footer (`oper_save.c:195-199`). The restore then takes
  the header of the next object for the footer, and that object is lost too,
  against `src/README:64-65`. `FailureCostsOne` fails in `FileData`;
  `OnlyFailedIsLost` excludes this case.
* A conversion of ext file systems removes and adds flags but does not see that
  the flags left do not make the type (`fs_ext2.c:264`): an ext4 without a
  journal that is restored with `mkfs=ext3` is formatted, detected as ext2 and
  then refused; so is an ext4 whose only ext4 flags this mke2fs does not know.
  `src/doc/fsarchiver.8:78-79` promises the conversion.
  `ConversionIsMountable` fails in `Partitions`; `FormattedIsMountable` has the
  condition `TypeCarried`.
* The table of features calls `sparse_super2`, `fast_commit` and `orphan_file`
  features of ext4 (`fs_ext2.c:53-95`), but they are compatible flags, which do
  not make a file system an ext4 (`fs_ext2.c:264`): one that has them and no
  other ext4 flag is an ext2 or ext3, and is restored without them. `FlagsKept`
  says so with `Ext4Compat`.
* The root directory of a file system does not keep its times: it is saved on
  purpose (`oper_save.c:760`), but its path ends in a slash, so that it is its
  own parent directory, and the times that the destination had before are put
  back after those of the archive (`oper_restore.c:568`). `RootTimesKept` fails
  in `Attributes`.
* An object that fails after it was created leaves its directory with a new
  time, and a second link that fails leaves the file without its capability:
  hence the conditions of `TimesKept` and `Undisturbed`.
* A list of names of extended attributes that is longer than 4095 bytes is
  treated as empty (`oper_save.c:279`): all are lost without an error (the
  condition `listfits`).
* An attribute that has vanished when `createar_item_xattr()` asks for its size
  has the size -1, and there is no test for it (`oper_save.c:285-299`), where
  its twin has one (`oper_save.c:353`). If another program sets the attribute
  again before its value is read, `lgetxattr()` is called with a buffer of no
  bytes and no limit and writes the value beyond it. An attribute that is empty
  when its size is read and longer when its value is read is stored with what
  lies behind the buffer, because a size of 0 asks for the size again. `phase #
  "undefined"` fails in `Attributes`. `OverrunNeedsRace` says that nothing else
  leads there, `FromSource` in `NoInventedValue` has the junk that may be
  restored; nothing is promised of a program whose memory was overwritten.
* Times are cast to a u32 of seconds (`oper_save.c:445`, `449`) and restored
  without a fraction (`oper_restore.c:301-303`): the part below a second is
  always lost, and a time before 1970 or after 2106 comes back as another one,
  against `src/README:34-35`, "It will preserve all the standard Unix file
  attributes (permissions, timestamps, ...)". With the time itself for
  `Carried`, `CountedKeepsStd` and `TimesKept` fail in `Attributes`.
* A directory that cannot be opened is left out and not counted
  (`oper_save.c:757`), so that the exit status is 0.
* An ext3 that the user has mounted as ext4 is saved as ext4, since the type is
  taken from the mount.
* savefs ends with 0 although a partition it mounted stays mounted, because it
  is busy or because `umount2()` failed in another way, after which there is no
  further attempt (`filesys.c:336`, `oper_save.c:1402`). A `uuid=` that is not
  of the length of a UUID is ignored without a message (`fs_ext2.c:233`, `398`;
  `fs_xfs.c:228`), so that the restored file system has neither this UUID nor
  that of the archive but one that the tool makes up, against
  `src/doc/fsarchiver.8:84-86`: `RestoredIsAsked` fails in `Partitions` without
  its condition that the argument is a UUID. A header that is not the end of
  the file system where the end is expected ends the restore of it with 0
  (`oper_restore.c:1332`). The same destination for two file systems is
  accepted: `RestoredIsAsked` has a condition for it.
* Only the current volume is recognised as part of the archive that is being
  written (`oper_save.c:593`): earlier volumes in a directory that is saved are
  saved as well.

### Bounds

* `blkmax = 1` makes a full queue, with two blocks, happen in every run; the
  theorems hold for every limit.
* One compression thread where threads are not the question, two where they
  are: two are enough for blocks to overtake each other and for one thread to
  exit while another works.
* The trees hold each kind of object, a file of two blocks, an empty file, and
  more small files than fit in one block (three with `MaxSmallFiles` 2, where
  the code has 512).
  The archives hold the same and, for restfs, two volumes and two file systems.
* `MaxCorrupt` (at most 2 damaged items) lets a lost header and a misplaced
  block meet, at every pair of positions.
* `MaxItems = 4` in `Queue.cfg`: numbers grow without bound otherwise.
* In `Volumes.cfg`, sizes of 1 and 4 for headers and 3 for a block, with a
  volume of 4, make volumes that are exactly full, that an item would exceed by
  one, and an item that is larger than a volume; with four items (`MaxItems`)
  there are up to four volumes. The older archive has three volumes and four
  items, so that its volumes have the numbers of new ones.
* `RestDir.cfg`: each job allows the faults that may meet, because all of them
  at once are too many states.
* `FileData.cfg`: blocks of 4 bytes, a threshold of 3, groups of up to three
  files. Four files of one and two bytes fill a group to the byte, to the file,
  beyond either, and start a second one; files of four zeros and of five bytes
  that end in a hole have one and two blocks. The answers of the libraries and
  the passwords do not depend on other files, so those runs have one file.
* `Attributes.cfg`: sizes 0, 1, 20, 65535 and 65536, around the limit of 16
  bits; races to the sizes 0, 30 and 65536, around the sizes that were read and
  beyond the limit (`RaceSizes`), or to no attribute at all; two races
  (`MaxRaces`), enough to remove an attribute and set it again, or to change
  two; they concern one inode, a file with one link or two (`RaceInodes`),
  since each object is saved for itself. Times are a whole second, one with a
  fraction, one before 1970 and one beyond 2106. The trees have a link and its
  file in different directories, and directories two deep.
* `Partitions.cfg`: three devices and up to two file systems, so that two can
  have one destination; four UUIDs, one of them made up by a tool, a text that
  is no UUID, and three contents, so that two file systems cannot be mistaken
  for each other; versions of the tools just before and at each decision of the
  code (e2fsprogs none, 1.39, 1.40.8, 1.41, 1.42, 1.47; xfsprogs none, 3.1,
  3.2, 4.2, 4.3, 5.10, 6.15).
* No symmetry is used, because runs check temporal properties.

### Fairness

Weak fairness of each thread: it is scheduled by the kernel, and every wait in
`queue.c` is a loop around `pthread_cond_timedwait` of one second, so that a
condition that holds is noticed even if no broadcast comes. The user is not
obliged to press Ctrl+C, but one who is asked for a volume answers. Nothing
obliges an environment fault to happen or to stay away. `Volumes`, `FileData`,
`Attributes` and `Partitions` are sequential programs next to faults; only
safety is checked of them and they state no fairness.

## Proofs

All theorems hold for every value of the constants that their module's named
assumptions allow; TLC evaluates these assumptions in the runs. Every inductive
invariant is checked by TLC on a small instance first, and is what the runs
above name.

### The queue

`QueueProofs`, for every `blkmax \in Nat`, every set `CompThreads` and every set
`Info`, finite or not (`QueueAssumption`):

| Theorem | Statement |
|---|---|
| `QueueCorrect` | `QSpec => []QueueInv` |
| `TypeCorrect` | `QSpec => []QueueTypeOK` |
| `CountersAreExact` | `QSpec => []CountersMatch` |
| `LimitHolds` | `QSpec => []QueueBounded` |
| `BlocksHaveOneOwner` | `QSpec => []InProgressIsHeld` |
| `EndIsFinal` | `QSpec => EndOfQueueIsFinal` |
| `EachBlockOnce` | `QSpec => ProcessedOnce` |

The argument: `CountersMatch` alone is not inductive, because `blkcount` must
not become negative when a block leaves, and a block must not be counted twice,
which needs that items have different numbers. `ItemsAreConsecutive` gives
that: the numbers in the list are consecutive and end below `curitemnum`. It
also makes the search of `queue_replace_block()` by number find one item.
`InProgressIsHeld` needs `BusyHasBlock` (a thread that works has the number of
a block), and `HeadersAreDone`, because only a block may become DONE by
`queue_replace_block()`; the functions that remove the head refuse an item in
PROGRESS, so the owner always finds its block. The lemmas `AddStep`,
`RemoveStep`, `TakeStep`, `PutStep` and `PcStep` show that each kind of step
preserves `QueueInv`, `NextInv` sorts the actions of `QNext` into them.
`EachBlockOnce` uses that numbers identify items across a step.

### The save pipeline

`SaveProofs`, for every list of trees, every set of threads and limit, and every
set of faults:

| Theorem | Statement |
|---|---|
| `SaveCorrect` | `Spec => [](QueueInv /\ SaveInv)` |
| `SaveImplementsQueue` | `Spec => QSpec`: the refinement of the queue protocol |
| `SaveTransfersInOrder` | `Spec => T!Init /\ [][T!Next]_(T!vars)`: the safety part of `TransferSpec` |
| `FooterIsTrue` | `Spec => []FooterMeansAll` |
| `FailureRemovesArchive` | `Spec => []FailureLeavesNothing` |
| `FatalIsReported` | `Spec => []FatalErrorIsReported` for `archtype = "FILESYSTEMS"` |
| `SaveEndIsFinal` | `Spec => EndOfQueueIsFinal` |

Assumptions: `SaveAssumption` (the trees are sequences of objects, a group holds
at least one file) and `SaveInfoAssumption` (the queue can hold what is built
for these trees, in every form a block takes). `FatalIsReported` is about savefs
only; savedir ignores a fatal walk, as said above.

Each step is shown to be one that `QNext` allows, so that `QueueProofs` gives
`QueueInv` of the pipeline. `SaveInv` then links the ends of the pipeline:
`QueueHoldsSent` says that item number `n` is the `n`-th one queued, in the
form that its status says, and that a thread works on a copy of exactly that;
`ArchiveHoldsSent` that what has left the queue is what the archive holds, or
the writer has in its hands. Together they give the order of the transfer.
`FooterMeansAll` needs both and `EndsInv`: the writer sees the end only after
the main thread has closed the queue and the list is empty. `WalkInv` and
`GroupInv` keep the indices of the walk inside the trees, so that what is
queued has its type. `SecthreadsInv` counts the threads that run, which keeps
the unsigned counter from passing below zero.

`SaveWholeProofs` goes from the trees to the queue:

| Theorem | Statement |
|---|---|
| `SuccessSavesAll` | `~Fault("ignored") => (Spec => []CleanSuccessIsWhole)` |

With `ignored`, which the code does not count (see above), an object may be
missing from a save that succeeds, so that the theorem needs its condition;
every other fault may happen. `IdAssumption` says that an id stands for one
path. The invariant is `SaveWholeInv`, on top of `SaveInv`: `OnceInv`, an
object has at most one header, and none before the walk has passed it or while
it waits in the group; `InHandInv`, the last items queued are those of the file
or of the group in hand; `SavedInv`, as long as nothing goes wrong, what the
walk has passed is queued in restorable form, or waits in the group;
`WalkEndInv`, the walk ends only after the last object, with nothing left in
the group, or with an error that is reported. `ArchiveHoldsSent` of `SaveInv`
then carries this from the queue to the archive. TLC checks `SaveWholeInv` in
the instances of `SaveFs` and `SaveDirs`.

### The restore pipeline

`RestoreProofs`, for every archive, every damage, every selection of file
systems and exclusions, and every set of faults:

| Theorem | Statement |
|---|---|
| `RestoreCorrect` | `Spec => [](QueueInv /\ RestoreInv)` |
| `RestoreImplementsQueue` | `Spec => QSpec`, the drain included |
| `RestoreTransfersInOrder` | `Spec => T!Init /\ [][T!Next]_(T!vars)` |
| `CorruptionIsReported` | `Spec => []NoSilentCorruption` |
| `RestoreEndIsFinal` | `Spec => EndOfQueueIsFinal` |

Assumptions: `RestoreAssumption` and `ArchiveAssumption`. The first also says
what restdir selects (`oper_restore.c:1401`). The second says what every archive
has that `SavePipeline` writes: an object has one header, under its own number.
It does not say that the items come in the right order, so the theorems also
hold for archives of which items are missing.

`NoSilentCorruption` is not inductive: that a counted file is right must
survive the later steps, so no object may come twice (`ObjectsComeOnce`), and
what the main thread works on must be new and not counted (`WorkInv`).
`FileInv` carries the rebuilding: without an error the blocks written so far are
the first blocks of the file, and all of them at its end. `BadInv` says that a
file with wrong contents is still open, or its error is noted.

`RestoreWholeProofs` relates the whole archive to the result:

| Theorem | Statement |
|---|---|
| `RestoreFollowsArchive` | `WholeArchive => (Spec => [](Sound /\ WholeInv))`, with `Sound` the invariants of `RestoreCorrect` |
| `CleanRestoresAll` | `WholeArchive => (Spec => []CleanRestoreIsWhole)` |
| `ExclusionIsRespected` | `WholeArchive => (Spec => []ExcludedIsUntouched)` |
| `OnlyTheDamagedIsLost` | `SoundArchive => (Spec => []OnlyDamagedIsLost)` |

`WholeArchive` is the grammar of an archive of which the save read every file to
its end: blocks and footers where their header announces them, `DATF` where the
objects of a file system end. An archive for which it does not hold is one of
the cases above in which a restore loses objects without an error. `WholeInv`
says how the main thread moves along the archive. `FlowInv`: between the header
of a file and its footer, what has been taken last is the block before the one
that is expected, so that a file that cannot be written, or is excluded, does
not leave items that are taken for others. `CameInv`: what is still to come
is not of a file system that is done, and at the end there is nothing to come.
`SettledInv`: an object that has come has been restored, or an error is noted.
`ReaderEndInv` says why the reader stopped.

`OnlyTheDamagedIsLost` needs the rest of the grammar, `SoundArchive`: the
headers of the file systems come first, each file system begins with its
`FSYB`, an object is followed by another one or by `DATF`, the header of a
small file by the next one of its group and the last of them by the block of
the group. An assumption of `MCRestore` makes TLC check it, and with it
`WholeArchive`, on both archives. The invariant `OnlyDataInv` says what holds
as long as only blocks are damaged: no error of the call (`ret`, `errors`) is
noted, and each object that has come is counted, at work, or one of its items
was damaged (`Hurt`). `ClearInv`: a block that was not damaged is unpacked.
`PathInv`: the main thread reaches each of its places with the last item of
something taken (`Complete(LastPos)`), so that the grammar says what comes
next. `ContentsInv`: a file of sound blocks gets all of them in their order.
`GroupInv`: the headers of a group follow each other in the archive, so that
the block which comes next is theirs. A damaged block only leads to an error of
its own file, or of the files of its group, because it still has its place in
the queue: this is where damage to a header differs (see the disagreements
above). TLC checks `OnlyDataInv` on the archives of `RestDir` and `RestFs` with
up to two damaged blocks.

### Volumes

`VolumesProofs`, for every size of headers, blocks and volumes, every number of
items, every older archive and every set of faults:

| Theorem | Statement |
|---|---|
| `VolumesCorrect` | `Spec => []VolumesInv` |
| `ReadsOneArchive` | `Spec => []ItemsOfOneArchive` |
| `EndIsTrue` | `Spec => []EndMeansWhole` |
| `CompleteIsReadable` | `Spec => []SavedIsReadable` |
| `FailureIsClean` | `Spec => []FailureRemovesAll` |
| `SplitIsRight` | `Spec => []VolumeFits` |
| `OldArchiveIsSafe` | `Spec => OldVolumesAreKept` |

Assumptions: `VolumesAssumption` (a volume is not of the size of its own header:
option `-s` counts megabytes) and `OldVolumesAssumption` (the older volumes were
written by this program).

The centre is `FilesInv`: each file that is found is the beginning of a volume
(`WellFormed`), and each pair of files fits (`GoesOn`: where one of them is the
successor of the other, its items begin after the last one of the other). It
holds of whatever mixture of new and old volumes is on disk, because only
volumes with the same archive id are compared. It is kept by a crash, which cuts
the end of a file off, since a beginning of a beginning is one. `BufferInv` and
`CurrentInv` give it for the volume that is being written: a volume is only
split for an item that waits, and never before it holds one. `ReaderInv` says
what the reader knows at its position, `DoneInv` and `ReadableInv` that all
volumes of a complete archive can be found. `VolumeFits` is proved from
`VolumesInv` as a second invariant; `OldVolumesAreKept` step by step.

### Partitions

`PartitionsProofs`, for every set of devices, every machine and pair of command
lines, every set of feature flags, every version of the tools, and any number of
faults:

| Theorem | Statement |
|---|---|
| `PartitionsCorrect` | `PartitionsSpec => []PartitionsInv` |
| `CommandsAlwaysCleanUp` | `PartitionsSpec => []CommandsCleanUp` |
| `RestoreIsAsked` | `PartitionsSpec => []RestoredIsAsked` |
| `FormattedIsAlwaysMountable` | `PartitionsSpec => []FormattedIsMountable` |
| `CreatedIsAlwaysFaithful` | `PartitionsSpec => []CreatedIsFaithful` |
| `MountedIsNeverFormatted` | `PartitionsSpec => NeverFormatsMounted` |

Assumptions: `JobsAssumption` (what the user has mounted is of the format of
its partition; a partition can be mounted, so it is no journal of another one;
an XFS of version 4 has no features; ntfs is not formatted, which is not
modelled), `ContentsAssumption` and `FaultsAssumption`.

The lemmas about flags come first and need no state. `ConversionGivesType`: what
`extfs_mkfs` asks for and mke2fs makes of it is detected as the type that was
asked for, whatever the saved flags were, if they can carry it.
`SameTypeKeepsFlags`, `LargeDevice` and `XfsCreated` are the parts of
`CreatedIsFaithful`. `FormatInv` ties the partition between mkfs and mount to
these operators. For the mounts, `DevinfoInv` says that `devinfo[]` knows what
savefs has mounted, and that what it has still to unmount is there; `BusyInv`
that a mount which was left behind was busy at each attempt or could not be
unmounted for another reason. `NothingLeftMounted`
follows. `RestoredInv` is the argument for `RestoredIsAsked`: what has been
restored stays as it is, since later file systems have other destinations.
`NeverFormatsMounted` follows from `FormatInv`, because only `restfs_mkfs`
changes a format and nothing is mounted between the test and mkfs.

### Attributes

`AttributesProofs`, for every tree, every set of names, sizes and times, any
number of changes by other programs, which may set, change and remove every
attribute at any moment, and of failing calls:

| Theorem | Statement |
|---|---|
| `AttributesInvariant` | `Spec => []AttrInv` |
| `HeadersAreReadable` | `Spec => []DicoIsReadable` |
| `AttributesAreKept` | `Spec => []CountedKeepsAttributes` |
| `DirectoriesKeepTimes` | `Spec => []DirTimesKept` |
| `RacesCostNothing` | `Spec => []RacesAreHarmless` |

`AttributesAreKept` and `DirectoriesKeepTimes` are about the times that the
conversions make of those that were saved (`Carried`). `RacesCostNothing` says
which changes can make the save touch memory outside its buffer, and that
attributes that are only removed cost nothing else.

Assumption: `AttributesAssumption` (`JobType`, described above). `AttrInv` has
one part for each stage. `SourceInv`: the history `seen` holds what the
attributes are, and of one that nobody changes nothing else. `ReadInv`: while
an object is read, the size that was read is that of a value it had, or -1 of
one it had not (`SizeInv`), so that memory outside the buffer can only be
touched after a race (`OverrunInv`); the
dictionary has two items for each name that was stored, and together with the
names still to be read it is complete unless an error is noted; the bound on
the number of names keeps the number of items within its 16 bits.
`ArchiveInv`: headers come in the order of the tree, each complete, and what is
missing was counted. `RestInv`: `KeptIn`, what is counted has its attributes in
the destination, and `TimesIn`, a directory has its own time if no object in it
failed. The difficulty of the last two is what a step does to other objects: a
new entry changes the time of its directory, a link the attributes of a file
that was restored before. The lemmas on `Grows` and `Restored` describe one
restored object by what it may change, and the order of the archive (files
before links, directories before entries) does the rest. TLC checks `AttrInv` in
the instance of `Attributes.cfg`.

### Only model-checked

* Liveness, which is beyond the prover: `SaveEnds`, `RestoreEndsOnceStarted`
  and the fairness part of `TransferSpec`.
* The properties of `FileData`: their invariant is not written yet. Offsets in
  a group are a recursive sum, and facts about it need induction.

## Not modelled

* The algorithms of the libraries (compression, encryption, checksums): they
  answer, and a checksum tells different contents apart.
* The file systems btrfs, jfs, ntfs, reiserfs, reiser4 and vfat: the same steps
  with fewer decisions. Labels and mkfs options of the user.
* Patterns of options `-e` (a path is excluded or not), and the layout of paths.
* In `Attributes`, errors of `lgetxattr()` other than an attribute that is not
  there and a buffer that is too small, and other programs that change the
  standard attributes, or that create and remove files; `SavePipeline` and
  `FileData` have files that vanish or shrink.
* Option `-o` (overwrite) in `SavePipeline`; `Volumes` has the option.
* In `Volumes`, damage in the middle of a file (see `RestorePipeline`), volumes
  that are not regular files, and file formats of other versions.
* The cost estimate and the progress display.
* Failures of `malloc` other than in the compression threads, and of mutexes.
* The unlocked access to the path of the current volume from two threads.
* `oper_probe.c`, `options.c`, the parsing in `fsarchiver.c`, `devinfo.c`,
  `logfile.c`: input and output, see `components` in `PROJECT.json`.

## Plan

Done: the proofs about the queue, both pipelines with the whole archive,
`Volumes`, `Partitions` and `Attributes`. Left: proofs about `FileData`, that is
the grammar of its archives and the invariant on groups and offsets behind
`CountedIsRight`.
