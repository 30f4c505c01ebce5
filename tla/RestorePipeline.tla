-------------------------- MODULE RestorePipeline --------------------------
(***************************************************************************)
(* restfs, restdir and archinfo: the reader thread of thread_archio.c reads *)
(* the archive and fills the queue, the decompression threads unpack the    *)
(* blocks, the main thread of oper_restore.c takes the items and rebuilds   *)
(* the files.  The module follows one call of oper_restore(), with damaged  *)
(* archives, the faults the code handles, and the way it shuts down.        *)
(***************************************************************************)
EXTENDS Threads

CONSTANTS
    oper,           \* "RESTFS", "RESTDIR" or "ARCHINFO"
    archtype,       \* "FILESYSTEMS" or "DIRECTORIES"
    Archive,        \* the items of the archive, with the volume footers
    fscount,        \* number of file systems in the archive
    fsbitmap,       \* g_fsbitmap: the file systems the user wants
    MaxCorrupt,     \* how many items of the archive are damaged at most
    Jobs            \* the circumstances of a call; each has:
                    \*   exclude: objects that option -e excludes
                    \*   present: objects whose path exists in the destination
                    \*   faults: what may go wrong

AllFaults == {"abort", "pthread", "usage", "mkfs", "open", "attr", "write",
              "header", "data", "io", "missing", "unpack", "comp"}

ASSUME RestoreAssumption ==
    /\ oper \in {"RESTFS", "RESTDIR", "ARCHINFO"}
    /\ archtype \in {"FILESYSTEMS", "DIRECTORIES"}
    /\ Archive \in Seq(Info)
    /\ fscount \in Nat /\ fsbitmap \subseteq Nat \ {0}
    /\ oper = "RESTFS" => archtype = "FILESYSTEMS"
    /\ oper = "RESTDIR" => archtype = "DIRECTORIES" /\ fsbitmap = {1}
    /\ MaxCorrupt \in Nat
    /\ \A j \in Jobs : /\ j.faults \subseteq AllFaults
                       /\ j.present # {} => oper = "RESTDIR"

\* A block that has been unpacked, or lost, is still one the queue can hold;
\* the headers of objects say of which kind they are; an archive has one header
\* for each object, whose number is its name; and the blocks and the footer of a
\* large file come after its header, before that of another object.
ASSUME ArchiveAssumption ==
    /\ Archive # <<>>
    /\ Info \subseteq [magic: STRING, fsid: Nat, obj: Nat, off: Nat, cnt: Nat, form: STRING]
    /\ \A info \in Info :
          IF info.magic = "BLKH"
          THEN decompress_block_generic(info) \subseteq Info
          ELSE info.form # "packed"
    /\ \A info \in Info : info.magic = "OBJT" => info.form \in {"node", "unique", "multi"}
    /\ \A p, q \in DOMAIN Archive :
          Archive[p].magic = "OBJT" /\ Archive[q].magic = "OBJT" /\ Archive[p].obj = Archive[q].obj
             => p = q
    /\ \A p \in DOMAIN Archive : Archive[p].magic \in {"BLKH", "FILF"} =>
          \E q \in 1 .. p - 1 :
             /\ Archive[q].magic = "OBJT" /\ Archive[q].cnt > 0
             /\ Archive[q].obj = Archive[p].obj /\ Archive[q].fsid = Archive[p].fsid
             /\ Archive[p].magic = "FILF" => Archive[q].form = "unique"
             /\ Archive[q].form = "unique" => \A r \in q + 1 .. p - 1 : Archive[r].magic # "OBJT"

\* Item r follows item p in the archive, volumes aside.
Follows(p, r) ==
    /\ p < r /\ Archive[r].magic # "VOLF"
    /\ \A x \in p + 1 .. r - 1 : Archive[x].magic = "VOLF"

\* The archive of a save that read every file to its end: after the header of a
\* large file come its blocks and its footer, the last volume ends it, file
\* systems come one after the other, each with its DATF after its objects, and
\* directories have one DATF after all objects.
WholeArchive ==
    /\ Archive[1].magic = "MAIN"
    /\ \A p \in DOMAIN Archive :
          /\ Archive[p].magic = "VOLF" /\ Archive[p].cnt = 1 => p = Len(Archive)
          /\ archtype = "FILESYSTEMS" => Archive[p].fsid <= fscount
          /\ archtype = "DIRECTORIES" /\ Archive[p].magic = "OBJT" => Archive[p].fsid = 1
          /\ archtype = "FILESYSTEMS" /\ Archive[p].magic \in {"OBJT", "DATF"} => Archive[p].fsid # 0
    /\ \A p, q \in DOMAIN Archive :
          /\ Archive[p].magic = "DATF" /\ p < q =>
                IF archtype = "DIRECTORIES" THEN Archive[q].magic # "OBJT"
                ELSE Archive[q].fsid = 0 \/ Archive[q].fsid > Archive[p].fsid
          /\ /\ Archive[q].magic = "OBJT" /\ Archive[q].form = "unique" /\ Archive[q].cnt > 0
             /\ p = q \/ (Archive[p].magic = "BLKH" /\ Archive[p].obj = Archive[q].obj)
             => LET k == IF p = q THEN 0 ELSE Archive[p].off + 1
                IN  \E r \in DOMAIN Archive :
                       /\ Follows(p, r)
                       /\ Archive[r].fsid = Archive[q].fsid /\ Archive[r].obj = Archive[q].obj
                       /\ IF k < Archive[q].cnt
                          THEN Archive[r].magic = "BLKH" /\ Archive[r].off = k
                          ELSE Archive[r].magic = "FILF"

\* The item at position p is the last one of an object, or of what comes before
\* the objects of a file system.
Complete(p) ==
    LET x == Archive[p]
    IN  \/ x.magic \in {"FSYB", "DIRS", "FILF"}
        \/ x.magic = "OBJT" /\ (x.form = "node" \/ (x.form = "unique" /\ x.cnt = 0))
        \/ /\ x.magic = "BLKH"
           /\ \A q \in DOMAIN Archive :
                 Archive[q].magic = "OBJT" /\ Archive[q].obj = x.obj => Archive[q].form # "unique"

\* The headers after the main header: one for each file system, or one
Heads == IF archtype = "FILESYSTEMS" THEN fscount ELSE 1

\* The rest of the grammar: the main header and those of the file systems come
\* first; the file systems come in their order, each begins with its FSYB; an
\* object is followed by another one or by DATF, the header of a small file by
\* the next one of its group, and the last one by their block.
SoundArchive ==
    /\ WholeArchive
    /\ Heads < Len(Archive)
    /\ \A p \in DOMAIN Archive :
          /\ p \in 2 .. Heads + 1 <=>
                Archive[p].magic = IF archtype = "FILESYSTEMS" THEN "FSIN" ELSE "DIRS"
          /\ p <= Heads + 1 => Archive[p].fsid = 0
          /\ Archive[p].magic = "BLKH" => Archive[p] =
                [Block(Archive[p].fsid, Archive[p].obj, Archive[p].off) EXCEPT !.form = "packed"]
          /\ Complete(p) => \E r \in DOMAIN Archive :
                /\ Follows(p, r)
                /\ Archive[r].magic \in {"OBJT", "DATF"}
                /\ Archive[r].magic = "OBJT" /\ Archive[r].form = "multi" => Archive[r].off = 0
                /\ IF archtype = "FILESYSTEMS" THEN Archive[r].fsid = Archive[p].fsid
                   ELSE Archive[r].fsid \in {0, 1}
          /\ Archive[p].magic = "OBJT" /\ Archive[p].form = "multi" => \E r \in DOMAIN Archive :
                /\ Follows(p, r) /\ Archive[r].fsid = Archive[p].fsid
                /\ Archive[p].off < Archive[p].cnt
                /\ IF Archive[p].off + 1 < Archive[p].cnt
                   THEN Archive[r] = [Archive[p] EXCEPT !.obj = Archive[r].obj, !.off = @ + 1]
                   ELSE Archive[r].magic = "BLKH"
    /\ archtype = "FILESYSTEMS" =>
          /\ \A p \in DOMAIN Archive :
                Archive[p].fsid = 0 /\ Archive[p].magic # "VOLF" => p <= fscount + 1
          /\ \A p, q \in DOMAIN Archive :
                p < q /\ Archive[q].fsid # 0 => Archive[p].fsid <= Archive[q].fsid
          /\ \A f \in 1 .. fscount : \E p \in DOMAIN Archive :
                /\ Archive[p].magic = "FSYB" /\ Archive[p].fsid = f
                /\ \A q \in DOMAIN Archive : Archive[q].fsid = f => p <= q

VARIABLES
    job,        \* the circumstances of this call
    mainpc,     \* where the main thread is
    fsi,        \* the file system it works on
    file,       \* the regular file it rebuilds
    group,      \* the headers of the small files it rebuilds together
    disk,       \* what is at the path of each object: "absent", "old", "good", "bad"
    counted,    \* the objects counted as restored (cnt_xxx)
    errors,     \* objects with a wrong file system id
    totalerr,   \* errors have been counted (totalerr > 0)
    ret,        \* the ret of oper_restore()
    readerpc,   \* where the reader thread is
    pos,        \* its position in the archive
    ritem,      \* the item it is about to queue
    damaged,    \* history: positions of the archive that were damaged
    sent,       \* history: everything the reader has queued
    origin,     \* history: the position in the archive of each item of sent
    got         \* history: everything the main thread took before it stopped

workvars == <<fsi, file, group, disk, counted, errors, totalerr>>
mainvars == <<mainpc, workvars, ret, got>>
readervars == <<readerpc, pos, ritem, damaged, sent, origin>>
vars == <<job, queuevars, syncvars, compvars, mainvars, readervars>>

Excluded == job.exclude
Present == job.present
Fault(f) == f \in job.faults

Objs == {Archive[p].obj : p \in {q \in DOMAIN Archive : Archive[q].magic = "OBJT"}}

\* extractar_restore_obj_regfile_unique() at its beginning
NewFile(head) == [head |-> head, data |-> <<>>,
                  minorerr |-> FALSE, delfile |-> FALSE, fatalerr |-> FALSE]

Init ==
    /\ job \in Jobs
    /\ ThreadsInit
    /\ mainpc = "create"
    /\ fsi = 1
    /\ file = NewFile(NoInfo)
    /\ group = <<>>
    /\ disk = [o \in Objs |-> IF o \in Present THEN "old" ELSE "absent"]
    /\ counted = {}
    /\ errors = 0 /\ totalerr = FALSE /\ ret = 0
    /\ readerpc = "none"
    /\ pos = 1
    /\ ritem = NoInfo
    /\ damaged = {}
    /\ sent = <<>> /\ origin = <<>> /\ got = <<>>

-----------------------------------------------------------------------------
(* The reader thread: thread_reader_fct() *)

wanted(info) == info.fsid \in fsbitmap

\* The items that go to the queue
queued(info) ==
    info.magic # "VOLF" /\ (wanted(info) \/ (info.magic # "BLKH" /\ info.fsid = 0))

reader_start ==
    /\ readerpc = "created"
    /\ readerpc' = "open"
    /\ inc_secthreads
    /\ UNCHANGED <<queuevars, compvars, mainvars, pos, ritem, damaged, sent, origin>>

\* Opens the first volume and reads its header and the main header, without
\* which nothing can be done.
reader_open ==
    /\ readerpc = "open"
    /\ \/ readerpc' = "add" /\ ritem' = Archive[1] /\ pos' = 2
       \/ Fault("io") /\ readerpc' = "end" /\ UNCHANGED <<ritem, pos>>
    /\ UNCHANGED <<queuevars, syncvars, compvars, mainvars, damaged, sent, origin>>

\* queue_add_block() or queue_add_header(): a block with a bad checksum has
\* been replaced by zeros, and needs no decompression.
reader_add ==
    /\ readerpc = "add"
    /\ IF ritem.magic = "BLKH"
       THEN queue_add_block(ritem, IF ritem.form = "packed" THEN "TODO" ELSE "DONE")
       ELSE queue_add_header(ritem)
    /\ sent' = Append(sent, ritem)
    /\ origin' = Append(origin, pos - 1)
    /\ ritem' = NoInfo
    /\ readerpc' = "loop"
    /\ UNCHANGED <<syncvars, compvars, mainvars, pos, damaged>>

Reading == readerpc = "loop" /\ ~stopfillqueue /\ pos <= Len(Archive)

\* archreader_read_header() and archreader_read_block() find a sound item.
reader_read ==
    /\ Reading
    /\ LET item == Archive[pos]
       IN /\ readerpc' = IF item.magic = "VOLF" THEN IF item.cnt = 1 THEN "end" ELSE "volume"
                         ELSE IF queued(item) THEN "add" ELSE "loop"
          /\ ritem' = IF queued(item) THEN item ELSE NoInfo
    /\ pos' = pos + 1
    /\ UNCHANGED <<queuevars, syncvars, compvars, mainvars, damaged, sent, origin>>

\* A header is damaged: OLDERR_MINOR, or its magic is not recognised.  The
\* next valid magic is searched, so if it was the header of a block, that
\* block is lost with it, and if it was the footer of a volume, the end of
\* the file is reached.
reader_skip_damaged ==
    /\ Reading
    /\ Fault("header")
    /\ Cardinality(damaged) < MaxCorrupt
    /\ damaged' = damaged \cup {pos}
    /\ readerpc' = IF Archive[pos].magic = "VOLF" THEN "end" ELSE "loop"
    /\ pos' = pos + 1
    /\ UNCHANGED <<queuevars, syncvars, compvars, mainvars, ritem, sent, origin>>

\* Faulty variant: a bad checksum ends the restoration.
reader_zero_damaged_Fatal ==
    /\ Reading
    /\ Fault("data")
    /\ Cardinality(damaged) < MaxCorrupt
    /\ Archive[pos].magic = "BLKH" /\ wanted(Archive[pos])
    /\ damaged' = damaged \cup {pos}
    /\ readerpc' = "end"
    /\ UNCHANGED <<queuevars, syncvars, compvars, mainvars, pos, ritem, sent, origin>>

\* The data of a block do not match their checksum.
reader_zero_damaged ==
    /\ Reading
    /\ Fault("data")
    /\ Cardinality(damaged) < MaxCorrupt
    /\ Archive[pos].magic = "BLKH" /\ wanted(Archive[pos])
    /\ damaged' = damaged \cup {pos}
    /\ ritem' = [Archive[pos] EXCEPT !.form = "zeroed"]
    /\ readerpc' = "add"
    /\ pos' = pos + 1
    /\ UNCHANGED <<queuevars, syncvars, compvars, mainvars, sent, origin>>

\* The archive cannot be read any further, or ends without a footer, or the
\* main thread has asked to stop.
reader_give_up ==
    /\ readerpc = "loop"
    /\ stopfillqueue \/ pos > Len(Archive) \/ Fault("io")
    /\ readerpc' = "end"
    /\ UNCHANGED <<queuevars, syncvars, compvars, mainvars, pos, ritem, damaged, sent, origin>>

\* Opens the next volume; if its file is not there, the user is asked for a
\* path once the queue is empty.
reader_volume ==
    /\ \/ readerpc = "volume"
       \/ readerpc = "prompt" /\ queue_count = 0
    /\ \/ readerpc' = "loop"
       \/ Fault("io") /\ readerpc' = "end"
       \/ Fault("missing") /\ readerpc = "volume" /\ readerpc' = "prompt"
    /\ UNCHANGED <<queuevars, syncvars, compvars, mainvars, pos, ritem, damaged, sent, origin>>

\* Faulty variant: the reader leaves without closing the queue.
reader_end_NotClosed ==
    /\ readerpc = "end"
    /\ readerpc' = "leave"
    /\ UNCHANGED <<queuevars, syncvars, compvars, mainvars, pos, ritem, damaged, sent, origin>>

\* The label thread_reader_fct_error, where every path ends.
reader_end ==
    /\ readerpc = "end"
    /\ queue_set_end_of_queue
    /\ readerpc' = "leave"
    /\ UNCHANGED <<syncvars, compvars, mainvars, pos, ritem, damaged, sent, origin>>

reader_exit ==
    /\ readerpc = "leave"
    /\ readerpc' = "exited"
    /\ dec_secthreads
    /\ UNCHANGED <<queuevars, compvars, mainvars, pos, ritem, damaged, sent, origin>>

Reader ==
    /\ \/ reader_start \/ reader_open \/ reader_add \/ reader_read
       \/ reader_skip_damaged \/ reader_zero_damaged \/ reader_give_up
       \/ reader_volume \/ reader_end \/ reader_exit
    /\ UNCHANGED job

-----------------------------------------------------------------------------
(* The main thread: oper_restore() *)

Goto(pc) == mainpc' = pc

Local == UNCHANGED <<queuevars, got>>

\* The label do_extract_error
Error == ret' = -1 /\ Goto("stop")

\* The first item is taken by the main thread: dequeued, or skipped.
Taken == got' = Append(got, queue[1].info)

TakeHeader == queue_dequeue_header /\ Taken
TakeBlock == queue_dequeue_block /\ Taken

\* queue_dequeue_header() or _block() returns FSAERR_WRONGTYPE, with the item
\* left where it is, or FSAERR_ENDOFFILE.
DequeueFails(type) ==
    /\ (HeadReady /\ queue[1].type # type) \/ queue_get_end_of_queue
    /\ Local

main_create_decomp ==
    /\ mainpc = "create"
    /\ \E t \in CompThreads :
          /\ comppc[t] = "none"
          /\ \/ comppc' = [comppc EXCEPT ![t] = "created"] /\ UNCHANGED <<mainpc, ret>>
             \/ Fault("pthread") /\ Error /\ UNCHANGED comppc
    /\ Local
    /\ UNCHANGED <<syncvars, blknum, blkinfo, workvars, readervars>>

main_create_reader ==
    /\ mainpc = "create"
    /\ \A t \in CompThreads : comppc[t] # "none"
    /\ \/ readerpc' = "created" /\ Goto("mainhead") /\ UNCHANGED ret
       \/ Fault("pthread") /\ Error /\ UNCHANGED readerpc
    /\ Local
    /\ UNCHANGED <<syncvars, compvars, workvars, pos, ritem, damaged, sent, origin>>

\* extractar_read_mainhead() and the checks that follow it: format, version,
\* password, type of the archive, file systems asked for.
main_mainhead ==
    /\ mainpc = "mainhead"
    /\ \/ /\ TakeHeader
          /\ \/ queue[1].info.magic = "MAIN" /\ Goto("fsinfo") /\ UNCHANGED ret
             \/ (queue[1].info.magic # "MAIN" \/ Fault("usage")) /\ Error
       \/ DequeueFails("HEADER") /\ Error
    /\ UNCHANGED <<syncvars, compvars, workvars, readervars>>

\* The FSIN header of every file system, or the DIRS header.
main_fsinfo ==
    /\ mainpc = "fsinfo"
    /\ fsi <= IF archtype = "FILESYSTEMS" THEN fscount ELSE 1
    /\ \/ /\ TakeHeader
          /\ IF queue[1].info.magic = IF archtype = "FILESYSTEMS" THEN "FSIN" ELSE "DIRS"
             THEN fsi' = fsi + 1 /\ UNCHANGED <<mainpc, ret>>
             ELSE Error /\ UNCHANGED fsi
       \/ DequeueFails("HEADER") /\ Error /\ UNCHANGED fsi
    /\ UNCHANGED <<syncvars, compvars, file, group, disk, counted, errors, totalerr, readervars>>

\* The password and the destination directory are checked before the files.
main_begin ==
    /\ mainpc = "fsinfo"
    /\ fsi > IF archtype = "FILESYSTEMS" THEN fscount ELSE 1
    /\ fsi' = 1
    /\ \/ /\ Goto(IF oper = "ARCHINFO" THEN "check" ELSE IF oper = "RESTFS" THEN "fs" ELSE "peek")
          /\ UNCHANGED ret
       \/ Fault("usage") /\ oper # "ARCHINFO" /\ Error
    /\ Local
    /\ UNCHANGED <<syncvars, compvars, file, group, disk, counted, errors, totalerr, readervars>>

\* The loop over the file systems
main_fs ==
    /\ mainpc = "fs"
    /\ IF fsi <= fscount /\ ~aborted
       THEN IF fsi \in fsbitmap THEN Goto("fsyb") /\ UNCHANGED fsi
                                ELSE fsi' = fsi + 1 /\ UNCHANGED mainpc
       ELSE Goto("check") /\ UNCHANGED fsi
    /\ Local
    /\ UNCHANGED <<syncvars, compvars, file, group, disk, counted, errors, totalerr, ret, readervars>>

\* extractar_filesystem_extract() up to the objects
main_fsyb ==
    /\ mainpc = "fsyb"
    /\ \/ /\ TakeHeader
          /\ \/ queue[1].info.magic = "FSYB" /\ Goto("peek") /\ UNCHANGED ret
             \/ (queue[1].info.magic # "FSYB" \/ Fault("mkfs")) /\ Error
       \/ DequeueFails("HEADER") /\ Error
       \/ Fault("mkfs") /\ Error /\ Local      \* the partition is in use
    /\ errors' = 0
    /\ UNCHANGED <<syncvars, compvars, fsi, file, group, disk, counted, totalerr, readervars>>

\* extractar_extract_read_objects(): the next header of an object, or the end
\* of the data; anything else in between is garbage and is skipped.
main_peek ==
    /\ mainpc = "peek"
    /\ \/ /\ queue_get_end_of_queue
          /\ Error /\ Local /\ UNCHANGED <<file, group, errors>>
       \/ /\ TakeHeader
          /\ queue[1].info.magic = "OBJT"
          /\ IF queue[1].info.fsid = fsi
             THEN /\ Goto(queue[1].info.form)
                  /\ file' = NewFile(queue[1].info)
                  /\ group' = <<queue[1].info>>
                  /\ UNCHANGED errors
             ELSE /\ errors' = errors + 1
                  /\ Goto("next")
                  /\ UNCHANGED <<file, group>>
          /\ UNCHANGED ret
       \/ /\ HeadReady /\ queue[1].info.magic = "DATF"
          /\ Goto("objend") /\ Local /\ UNCHANGED <<file, group, errors, ret>>
       \/ /\ HeadReady /\ queue[1].info.magic \notin {"OBJT", "DATF"}
          /\ queue_destroy_first_item /\ Taken
          /\ UNCHANGED <<mainpc, file, group, errors, ret>>
    /\ UNCHANGED <<syncvars, compvars, fsi, disk, counted, totalerr, readervars>>

excluded == file.head.obj \in Excluded

\* What extractar_restore_attr_everything() may return: owner, mode, times,
\* extended attributes and those of Windows are set, or one of them is not.
restore_attr == IF Fault("attr") THEN {0, -1} ELSE {0}

\* Faulty variant: a failure to restore it is not counted.
main_node_NotCounted ==
    /\ mainpc = "node"
    /\ \/ /\ ~excluded
          /\ disk' = [disk EXCEPT ![file.head.obj] = "good"]
          /\ counted' = counted \cup {file.head.obj}
       \/ (excluded \/ Fault("open")) /\ UNCHANGED <<disk, counted>>
    /\ Goto("next")
    /\ Local
    /\ UNCHANGED <<syncvars, compvars, fsi, file, group, errors, totalerr, ret, readervars>>

\* extractar_restore_obj_directory(), _symlink(), _hardlink(), _devfile(): an
\* object that is excluded leaves by the exit for errors, and is counted.
main_node ==
    /\ mainpc = "node"
    /\ \/ /\ ~excluded
          /\ disk' = [disk EXCEPT ![file.head.obj] = "good"]
          /\ \E res \in restore_attr :
                /\ counted' = IF res = 0 THEN counted \cup {file.head.obj} ELSE counted
                /\ totalerr' = (totalerr \/ res # 0)
       \/ /\ excluded \/ Fault("open")       \* symlink(), link() or mknod() fails
          /\ totalerr' = TRUE
          /\ UNCHANGED <<disk, counted>>
    /\ Goto("next")
    /\ Local
    /\ UNCHANGED <<syncvars, compvars, fsi, file, group, errors, ret, readervars>>

main_next ==
    /\ mainpc = "next"
    /\ Goto(IF aborted THEN "objend" ELSE "peek")
    /\ Local
    /\ UNCHANGED <<syncvars, compvars, workvars, ret, readervars>>

\* After the objects: the DATF header of a file system is taken, whatever it
\* is; the one of an archive of directories is left in the queue.
main_objend ==
    /\ mainpc = "objend"
    /\ IF archtype = "DIRECTORIES" THEN Goto("check") /\ Local /\ UNCHANGED <<fsi, ret>>
       ELSE IF errors > 0 THEN Error /\ Local /\ UNCHANGED fsi
       ELSE \/ /\ TakeHeader
               /\ \/ Goto("fs") /\ fsi' = fsi + 1 /\ UNCHANGED ret
                  \/ Fault("mkfs") /\ Error /\ UNCHANGED fsi   \* umount fails
            \/ DequeueFails("HEADER") /\ Error /\ UNCHANGED fsi
    /\ UNCHANGED <<syncvars, compvars, file, group, disk, counted, errors, totalerr, readervars>>
-----------------------------------------------------------------------------
(* A regular file: extractar_restore_obj_regfile_unique() *)

\* Faulty variant: the file is created even if it is excluded.
main_file_open_Excluded ==
    /\ mainpc = "unique"
    /\ disk' = [disk EXCEPT ![file.head.obj] = "bad"]
    /\ Goto("blocks")
    /\ Local
    /\ UNCHANGED <<syncvars, compvars, fsi, file, group, counted, errors, totalerr, ret, readervars>>

main_file_open ==
    /\ mainpc = "unique"
    /\ \/ /\ disk' = IF excluded THEN disk ELSE [disk EXCEPT ![file.head.obj] = "bad"]
          /\ Goto("blocks")
          /\ UNCHANGED file
       \/ /\ Fault("open") /\ ~excluded
          /\ file' = [file EXCEPT !.minorerr = TRUE]
          /\ Goto("footer")
          /\ UNCHANGED disk
    /\ Local
    /\ UNCHANGED <<syncvars, compvars, fsi, group, counted, errors, totalerr, ret, readervars>>

filepos == Len(file.data)

\* The loop over the blocks, and the attributes after it
main_file_loop ==
    /\ mainpc = "blocks"
    /\ IF filepos < file.head.cnt /\ ~get_interrupted
       THEN Goto("block") /\ UNCHANGED file
       ELSE /\ Goto("footer")
            /\ \E res \in IF excluded THEN {0} ELSE restore_attr :
                  file' = [file EXCEPT !.minorerr = (res # 0)]
    /\ Local
    /\ UNCHANGED <<syncvars, compvars, fsi, group, disk, counted, errors, totalerr, ret, readervars>>

\* A block of the file: taken if it is at the right offset, whoever it is of.
main_file_block ==
    /\ mainpc = "block"
    /\ LET lost == [file EXCEPT !.minorerr = TRUE, !.delfile = TRUE]
       IN \/ /\ TakeBlock
             /\ queue[1].info.off = filepos
             /\ file' = [file EXCEPT !.data = Append(@, queue[1].info)]
             /\ Goto("blocks")
          \/ /\ TakeBlock
             /\ queue[1].info.off = filepos /\ Fault("write") /\ ~excluded
             /\ file' = [lost EXCEPT !.fatalerr = TRUE]
             /\ Goto("footer")
          \/ /\ TakeBlock
             /\ queue[1].info.off # filepos
             /\ file' = lost
             /\ Goto("footer")
          \/ /\ DequeueFails("BLOCK")
             /\ file' = lost
             /\ Goto("footer")
    /\ UNCHANGED <<syncvars, compvars, fsi, group, disk, counted, errors, totalerr, ret, readervars>>

\* The blocks of the file that has this header, as they were saved
Blocks(head) == [n \in 1 .. head.cnt |-> Block(head.fsid, head.obj, n - 1)]

\* The checksum in footer foot is the one of the data: they are the contents of
\* the file the footer was written for.  Nothing in it says which file that is.
SameMd5(data, foot) ==
    \E p \in DOMAIN Archive :
       /\ Archive[p].magic = "OBJT" /\ Archive[p].obj = foot.obj
       /\ data = Blocks(Archive[p])

\* Faulty variant: the checksum is read and not compared.
main_file_footer_NoMd5 ==
    /\ mainpc = "footer"
    /\ \/ (file.fatalerr \/ file.head.cnt = 0) /\ Local
       \/ ~file.fatalerr /\ file.head.cnt # 0 /\ (TakeHeader \/ DequeueFails("HEADER"))
    /\ Goto("fileend")
    /\ UNCHANGED <<syncvars, compvars, fsi, file, group, disk, counted, errors, totalerr, ret, readervars>>

\* The footer holds the checksum of the file (an empty file has none).
main_file_footer ==
    /\ mainpc = "footer"
    /\ IF file.fatalerr \/ file.head.cnt = 0
       THEN Local /\ UNCHANGED file
       ELSE \/ /\ TakeHeader
               /\ LET foot == queue[1].info
                  IN file' = IF excluded \/ (foot.magic = "FILF" /\ SameMd5(file.data, foot))
                             THEN file
                             ELSE IF foot.magic # "FILF" THEN [file EXCEPT !.minorerr = TRUE]
                             ELSE [file EXCEPT !.minorerr = TRUE, !.delfile = TRUE]
            \/ DequeueFails("HEADER") /\ file' = [file EXCEPT !.minorerr = TRUE]
    /\ Goto("fileend")
    /\ UNCHANGED <<syncvars, compvars, fsi, group, disk, counted, errors, totalerr, ret, readervars>>

\* delfile removes the path, excluded or not.
main_file_end ==
    /\ mainpc = "fileend"
    /\ LET o == file.head.obj
       IN /\ disk' = [disk EXCEPT ![o] = IF file.delfile THEN "absent"
                                         ELSE IF @ = "bad" /\ file.data = Blocks(file.head)
                                         THEN "good" ELSE @]
          /\ counted' = IF excluded \/ file.minorerr THEN counted ELSE counted \cup {o}
          /\ totalerr' = (totalerr \/ (~excluded /\ file.minorerr))
    /\ IF file.fatalerr THEN Error ELSE Goto("next") /\ UNCHANGED ret
    /\ Local
    /\ UNCHANGED <<syncvars, compvars, fsi, file, group, errors, readervars>>

-----------------------------------------------------------------------------
(* A group of small files: extractar_restore_obj_regfile_multi() *)

main_group_header ==
    /\ mainpc = "multi"
    /\ Len(group) < file.head.cnt
    /\ \/ /\ TakeHeader
          /\ IF queue[1].info.magic = "OBJT"
             THEN group' = Append(group, queue[1].info) /\ UNCHANGED <<mainpc, ret>>
             ELSE Error /\ UNCHANGED group
       \/ DequeueFails("HEADER") /\ Error /\ UNCHANGED group
    /\ UNCHANGED <<syncvars, compvars, fsi, file, disk, counted, errors, totalerr, readervars>>

\* The block at r is the first one after position p of the archive: for the
\* header of a small file the one that its group shares.
BlockAfter(p, r) ==
    /\ p < r /\ Archive[r].magic = "BLKH"
    /\ \A x \in p + 1 .. r - 1 : Archive[x].magic # "BLKH"

\* The data of small file h are in block b, sound: its checksum matches.
InBlock(h, b) ==
    /\ b.form = "clear"
    /\ \E r \in DOMAIN Archive :
          /\ Archive[r] = [b EXCEPT !.form = "packed"]
          /\ \E p \in DOMAIN Archive : Archive[p] = h /\ BlockAfter(p, r)

\* The files of S for which fault f happens
Failing(f, S) == IF Fault(f) THEN SUBSET S ELSE {{}}

SmallFiles(ks) == {group[k].obj : k \in {j \in ks : group[j].form = "multi"}} \ Excluded

\* The first n files of the group are restored from blk, one by one: for the
\* header of another kind of file there are no data, a file with a bad checksum
\* is emptied, and if file n + 1 cannot be written, it is removed and everything
\* stops.
restore_files(n, blk) ==
    LET todo == SmallFiles(1 .. n)
        sound == SmallFiles({k \in 1 .. n : InBlock(group[k], blk)})
        removed == SmallFiles({n + 1} \cap DOMAIN group)
    IN \E unopened \in Failing("open", todo), noattr \in Failing("attr", sound) :
          /\ disk' = [o \in Objs |-> IF o \in sound \ unopened THEN "good"
                                     ELSE IF o \in todo \ (sound \cup unopened) THEN "bad"
                                     ELSE IF o \in removed THEN "absent" ELSE disk[o]]
          /\ counted' = counted \cup (sound \ (unopened \cup noattr))
          /\ totalerr' = \/ totalerr
                         \/ \E k \in 1 .. n : group[k].form # "multi"
                         \/ todo # sound \ (unopened \cup noattr)
          /\ \/ n = Len(group) /\ Goto("next") /\ UNCHANGED ret
             \/ removed # {} /\ Error

main_group_block ==
    /\ mainpc = "multi"
    /\ Len(group) >= file.head.cnt
    /\ \/ /\ TakeBlock
          /\ \E n \in 0 .. Len(group) :
                (n = Len(group) \/ Fault("write")) /\ restore_files(n, queue[1].info)
       \/ DequeueFails("BLOCK") /\ Error /\ UNCHANGED <<disk, counted, totalerr>>
    /\ UNCHANGED <<syncvars, compvars, fsi, file, group, errors, readervars>>

-----------------------------------------------------------------------------
(* The end of oper_restore() *)

\* Faulty variant: an interrupted operation counts as a success.
main_check_Missing ==
    /\ mainpc = "check"
    /\ Goto("stop")
    /\ Local
    /\ UNCHANGED <<syncvars, compvars, workvars, ret, readervars>>

main_check ==
    /\ mainpc = "check"
    /\ IF get_interrupted THEN Error ELSE Goto("stop") /\ UNCHANGED ret
    /\ Local
    /\ UNCHANGED <<syncvars, compvars, workvars, readervars>>

main_stop ==
    /\ mainpc = "stop"
    /\ set_stopfillqueue
    /\ Goto("wait")
    /\ Local
    /\ UNCHANGED <<compvars, workvars, ret, readervars>>

\* Polls until the pending blocks have been processed.
main_wait ==
    /\ mainpc = "wait"
    /\ ~queue_has_items_todo
    /\ Goto("drain")
    /\ Local
    /\ UNCHANGED <<syncvars, compvars, workvars, ret, readervars>>

\* The condition of the loop that empties the queue
main_drain ==
    /\ mainpc = "drain"
    /\ Goto(IF secthreads > 0 /\ ~queue_get_end_of_queue THEN "destroy" ELSE "joindecomp")
    /\ Local
    /\ UNCHANGED <<syncvars, compvars, workvars, ret, readervars>>

\* Faulty variant: the drain frees a block under a decompression thread.
main_destroy_InProgress ==
    /\ mainpc = "destroy"
    /\ (queue # <<>> /\ RemoveHead) \/ (queue_get_end_of_queue /\ UNCHANGED queuevars)
    /\ Goto("drain")
    /\ UNCHANGED <<syncvars, compvars, workvars, ret, got, readervars>>

main_destroy ==
    /\ mainpc = "destroy"
    /\ queue_destroy_first_item \/ (queue_get_end_of_queue /\ UNCHANGED queuevars)
    /\ Goto("drain")
    /\ UNCHANGED <<syncvars, compvars, workvars, ret, got, readervars>>

main_join_decomp ==
    /\ mainpc = "joindecomp"
    /\ \A t \in CompThreads : comppc[t] \in {"none", "exited"}
    /\ Goto("joinreader")
    /\ Local
    /\ UNCHANGED <<syncvars, compvars, workvars, ret, readervars>>

main_join_reader ==
    /\ mainpc = "joinreader"
    /\ readerpc \in {"none", "exited"}
    /\ Goto("done")
    /\ Local
    /\ UNCHANGED <<syncvars, compvars, workvars, ret, readervars>>

\* What oper_restore() returns.
exitstatus == IF ret # 0 \/ totalerr THEN -1 ELSE 0

Main ==
    /\ \/ main_create_decomp \/ main_create_reader \/ main_mainhead \/ main_fsinfo
       \/ main_begin \/ main_fs \/ main_fsyb \/ main_peek \/ main_node \/ main_next
       \/ main_objend \/ main_file_open \/ main_file_loop \/ main_file_block
       \/ main_file_footer \/ main_file_end \/ main_group_header \/ main_group_block
       \/ main_check \/ main_stop \/ main_wait \/ main_drain \/ main_destroy
       \/ main_join_decomp \/ main_join_reader
    /\ UNCHANGED job

-----------------------------------------------------------------------------
(* The decompression threads, the user, and the whole *)

Decomp(t) ==
    /\ \/ thread_comp_start(t)
       \/ thread_comp_take(t)
       \/ thread_comp_put(t, {r \in decompress_block_generic(blkinfo[t]) :
                                 r.form = "clear" \/ Fault("unpack")})
       \/ thread_comp_exit(t)
       \/ Fault("comp") /\ thread_comp_error(t)
    /\ UNCHANGED <<job, mainvars, readervars>>

User ==
    Fault("abort") /\ mainpc # "done" /\ Signal /\ UNCHANGED <<job, mainvars, readervars>>

Terminated == mainpc = "done" /\ UNCHANGED vars

Next == Main \/ Reader \/ (\E t \in CompThreads : Decomp(t)) \/ User \/ Terminated

\* Each thread is scheduled by the kernel, every wait in queue.c ends after a
\* second at the latest, and a user who is asked for a volume answers.
Fairness ==
    /\ WF_vars(Main)
    /\ WF_vars(Reader)
    /\ \A t \in CompThreads : WF_vars(Decomp(t))

Spec == Init /\ [][Next]_vars /\ Fairness

-----------------------------------------------------------------------------
(* Properties *)

MainPc == {"create", "mainhead", "fsinfo", "fs", "fsyb", "peek", "node", "next",
           "unique", "blocks", "block", "footer", "fileend", "multi", "objend",
           "check", "stop", "wait", "drain", "destroy", "joindecomp",
           "joinreader", "done"}

\* The type of every variable of the pipeline.
RestoreTypeOK ==
    /\ job \in Jobs
    /\ ThreadsTypeOK
    /\ mainpc \in MainPc
    /\ fsi \in Nat /\ errors \in Nat /\ totalerr \in BOOLEAN /\ ret \in {0, -1}
    /\ file \in [head: Info \cup {NoInfo}, data: Seq(Info), minorerr: BOOLEAN,
                 delfile: BOOLEAN, fatalerr: BOOLEAN]
    /\ group \in Seq(Info)
    /\ disk \in [Objs -> {"absent", "old", "good", "bad"}]
    /\ counted \subseteq Objs
    /\ readerpc \in {"none", "created", "open", "add", "loop", "volume",
                     "prompt", "end", "leave", "exited"}
    /\ pos \in 1 .. Len(Archive) + 1
    /\ ritem \in Info \cup {NoInfo}
    /\ damaged \subseteq DOMAIN Archive
    /\ sent \in Seq(Info) /\ origin \in Seq(DOMAIN Archive) /\ got \in Seq(Info)

\* What the main thread may get for an item of the archive.
Unpacked(info) ==
    IF info.form = "packed" THEN decompress_block_generic(info) ELSE {info}

\* Between the queue_add_xxx() of the reader thread and the queue_dequeue_xxx()
\* of the main thread, nothing is lost, repeated, reordered or left packed,
\* however the threads interleave and wherever the main thread skips items.
T == INSTANCE Transfer WITH Payload <- Info, Processed <- Unpacked,
                            closed <- endofqueue, failed <- stopfillqueue
TransferSpec == T!Spec

\* Everything that followed the header of object o in the archive is lost, up to
\* and including the header of another one: what comes next is of that one, its
\* footer too, and neither a block nor a footer says of which file it is.
Usurped(o) ==
    \E q \in DOMAIN Archive, p \in damaged :
       /\ q < p
       /\ Archive[q].magic = "OBJT" /\ Archive[q].obj = o
       /\ Archive[p].magic = "OBJT"
       /\ \A r \in q + 1 .. p : r \in damaged \/ ~queued(Archive[r])

\* A file is counted as restored only if its contents are those that were
\* saved, and a restoration that reports success leaves no file with wrong
\* contents, whatever is damaged, however the operation is interrupted, and
\* whichever blocks of other files turn up among its own: except for a file of
\* which the header alone is left and that takes over the contents of a file of
\* which the header alone is lost.
NoSilentCorruption ==
    /\ \A o \in counted : disk[o] = "good" \/ Usurped(o)
    /\ mainpc = "done" /\ exitstatus = 0 =>
          \A o \in Objs : disk[o] = "bad" => Usurped(o)

\* The objects the user has asked for
Requested ==
    {Archive[p].obj : p \in {q \in DOMAIN Archive :
        Archive[q].magic = "OBJT" /\ wanted(Archive[q])}} \ Excluded

\* If no item of the archive is damaged and oper_restore() reports success,
\* every object that was asked for is there, with its contents.
CleanRestoreIsWhole ==
    mainpc = "done" /\ exitstatus = 0 /\ damaged = {} /\ oper # "ARCHINFO" =>
        \A o \in Requested : disk[o] = "good"

\* The items of the archive that object o depends on: its own, and the block
\* it shares if it is a small file.
ItemsOf(o) ==
    {p \in DOMAIN Archive : Archive[p].obj = o} \cup
    {r \in DOMAIN Archive : \E p \in DOMAIN Archive :
        Archive[p].obj = o /\ Archive[p].form = "multi" /\ BlockAfter(p, r)}

Hurt(o) == ItemsOf(o) \cap damaged # {}

\* Nothing goes wrong but that blocks are damaged.
OnlyData == job.faults \subseteq {"data"}

\* Damage to the data of the archive costs the files that were damaged, and no
\* other.
OnlyDamagedIsLost ==
    mainpc = "done" /\ OnlyData /\ oper # "ARCHINFO" =>
        \A o \in Requested : ~Hurt(o) => disk[o] = "good"

\* Every item of the archive gets to the main thread.
Undisturbed == job.faults \cap {"abort", "header", "io", "comp"} = {}

\* What the user has excluded is neither written nor removed, whatever fails in
\* the destination or in the data, as long as every item of the archive gets to
\* the main thread.
ExcludedIsUntouched ==
    Undisturbed =>
        \A o \in Objs \cap Excluded : disk[o] = IF o \in Present THEN "old" ELSE "absent"

-----------------------------------------------------------------------------
(* The inductive invariant *)

Running(t) == comppc[t] \in {"loop", "busy"}

\* The counter of threads counts those that run, so it never falls below zero.
SecthreadsInv ==
    /\ IsFiniteSet({t \in CompThreads : Running(t)})
    /\ secthreads = Cardinality({t \in CompThreads : Running(t)})
                     + IF readerpc \in {"open", "add", "loop", "volume", "prompt", "end", "leave"}
                       THEN 1 ELSE 0

Stopped == mainpc \in {"wait", "drain", "destroy", "joindecomp", "joinreader", "done"}

\* The queue is closed by the reader alone, the flag is set by the main thread.
EndsInv ==
    /\ endofqueue <=> readerpc \in {"leave", "exited"}
    /\ stopfillqueue <=> Stopped
    /\ mainpc = "create" => readerpc = "none"
    /\ readerpc \in {"none", "created", "open"} => sent = <<>>

\* An item of the queue is what was queued under its number, unpacked once it
\* is done, and a thread works on a copy of that.
QueueHoldsSent ==
    /\ Len(sent) = curitemnum - 1
    /\ \A i \in DOMAIN queue :
          LET x == sent[queue[i].itemnum]
          IN  /\ queue[i].type = "BLOCK" <=> x.magic = "BLKH"
              /\ queue[i].status = "DONE" => queue[i].info \in Unpacked(x)
              /\ queue[i].status # "DONE" => queue[i].info = x /\ x.form = "packed"
    /\ \A t \in CompThreads : blknum[t] # 0 => /\ blkinfo[t] = sent[blknum[t]]
                                               /\ blkinfo[t].form = "packed"

\* What has left the queue has been taken, in order, until the main thread stops.
GotIsSent ==
    /\ Len(got) <= Len(sent)
    /\ \A n \in DOMAIN got : got[n] \in Unpacked(sent[n])
    /\ ~Stopped => Len(got) + Len(queue) = Len(sent)

\* No object comes twice: not in what is queued, not in what is still to be read.
ObjectsComeOnce ==
    /\ readerpc = "add" => ritem \in Info
    /\ \A i \in DOMAIN sent : sent[i].magic = "OBJT" =>
          /\ sent[i].obj \in Objs
          /\ \A j \in DOMAIN sent : sent[j].magic = "OBJT" /\ sent[i].obj = sent[j].obj => i = j
          /\ \A p \in DOMAIN Archive :
                p >= pos /\ Archive[p].magic = "OBJT" => sent[i].obj # Archive[p].obj
    /\ readerpc = "add" /\ ritem.magic = "OBJT" =>
          /\ ritem.obj \in Objs
          /\ \A j \in DOMAIN sent : sent[j].magic = "OBJT" => ritem.obj # sent[j].obj
          /\ \A p \in DOMAIN Archive :
                p >= pos /\ Archive[p].magic = "OBJT" => ritem.obj # Archive[p].obj

\* An item is the one at position p of the archive, or its data are lost.
ComesFrom(info, p) ==
    \/ info = Archive[p]
    \/ p \in damaged /\ Archive[p].magic = "BLKH" /\ info = [Archive[p] EXCEPT !.form = "zeroed"]

\* The items are queued in the order of the archive, and what was not queued was
\* damaged or not asked for.
OriginInv ==
    /\ Len(origin) = Len(sent)
    /\ \A n \in DOMAIN origin :
          /\ origin[n] < IF readerpc = "add" THEN pos - 1 ELSE pos
          /\ ComesFrom(sent[n], origin[n])
          /\ origin[n] = 1 \/ queued(Archive[origin[n]])
    /\ \A m, n \in DOMAIN origin : m < n => origin[m] < origin[n]
    /\ readerpc \in {"none", "created", "open"} => pos = 1
    /\ readerpc = "add" => /\ pos - 1 \in DOMAIN Archive
                           /\ ComesFrom(ritem, pos - 1)
                           /\ pos - 1 = 1 \/ queued(Archive[pos - 1])
    /\ \A p \in 1 .. pos - 1 :
          \/ p \in damaged /\ Fault("header")
          \/ ~queued(Archive[p])
          \/ \E n \in DOMAIN origin : origin[n] = p
          \/ readerpc = "add" /\ p = pos - 1

\* The objects that have come, and those among them that are not settled yet
TakenObjs == {got[n].obj : n \in {k \in DOMAIN got : got[k].magic = "OBJT"}}
Pending(info) ==
    /\ info \in Info /\ info.magic = "OBJT"
    /\ info.obj \in TakenObjs /\ info.obj \in Objs /\ info.obj \notin counted

InFile == mainpc \in {"unique", "blocks", "block", "footer", "fileend"}

\* What the main thread works on has just come and is not counted.
WorkInv ==
    /\ counted \subseteq TakenObjs
    /\ mainpc = "node" \/ InFile => Pending(file.head)
    /\ mainpc = "multi" =>
          /\ \A k \in DOMAIN group : Pending(group[k])
          /\ \A j, k \in DOMAIN group : group[j].obj = group[k].obj => j = k

\* The file has been opened, and all its data so far were its header's successors.
Written ==
    /\ ~excluded => disk[file.head.obj] = "bad"
    /\ filepos < Len(got)
    /\ got[Len(got) - filepos] = file.head
    /\ \A n \in DOMAIN file.data : got[Len(got) - filepos + n] = file.data[n]

\* A file without error so far has what came after its header; at its end it has
\* its own contents, or those of the file whose header was lost.
FileInv ==
    /\ InFile => /\ filepos <= file.head.cnt
                 /\ file.delfile \/ file.fatalerr => file.minorerr
    /\ mainpc \in {"unique", "blocks", "block"} => ~file.minorerr
    /\ mainpc = "unique" => file.data = <<>> /\ Len(got) > 0 /\ got[Len(got)] = file.head
    /\ mainpc = "block" => filepos < file.head.cnt
    /\ mainpc \in {"blocks", "block"} \/ (mainpc = "footer" /\ ~file.minorerr) => Written
    /\ mainpc = "fileend" /\ ~excluded /\ ~file.minorerr =>
          /\ disk[file.head.obj] = "bad"
          /\ file.data = Blocks(file.head) \/ Usurped(file.head.obj)

\* A file with wrong contents is being written, or an error has been noted.
BadInv ==
    \A o \in Objs : disk[o] = "bad" =>
       /\ o \notin Excluded
       /\ \/ totalerr \/ ret # 0
          \/ InFile /\ mainpc # "unique" /\ o = file.head.obj
          \/ Usurped(o)

\* What the safety of the pipeline rests on, next to QueueInv of QueueProtocol.
RestoreInv ==
    /\ RestoreTypeOK
    /\ SecthreadsInv
    /\ EndsInv
    /\ QueueHoldsSent
    /\ GotIsSent
    /\ ObjectsComeOnce
    /\ OriginInv
    /\ WorkInv
    /\ FileInv
    /\ BadInv
    /\ NoSilentCorruption

-----------------------------------------------------------------------------
(* What a restoration of a whole archive rests on *)

Ended == readerpc \in {"end", "leave", "exited"}

\* The reader leaves early only if it cannot read on or has been told to.
ReaderEndInv ==
    Ended => stopfillqueue \/ Fault("io") \/ Fault("header") \/ pos > Len(Archive)

\* What was taken last is the header of the file, or the block before filepos.
OnTrack ==
    LET last == Archive[origin[Len(got)]]
    IN  IF filepos = 0 THEN last = file.head
        ELSE last.magic = "BLKH" /\ last.obj = file.head.obj /\ last.off = filepos - 1

\* No item of the archive has been passed over.
NoneLost == damaged = {} \/ ~Fault("header")

\* The blocks of a file come one after the other, and then its footer: those of a
\* file that cannot be written, or is excluded, are taken all the same.
FlowInv ==
    /\ InFile => /\ file.head.form = "unique"
                 /\ \E q \in DOMAIN Archive : Archive[q] = file.head /\ wanted(file.head)
    /\ NoneLost =>
          /\ mainpc \in {"unique", "blocks", "block"} => OnTrack
          /\ mainpc = "footer" => \/ file.fatalerr \/ (endofqueue /\ queue = <<>>)
                                  \/ OnTrack /\ Len(got) > 0

\* A file that is excluded is never marked to be removed.
NotRemovedInv == Undisturbed => ~aborted /\ (InFile /\ excluded => ~file.delfile)

InObjects == mainpc \in {"peek", "node", "next", "multi", "objend"} \/ InFile

\* Where the operations go, and where objects of another file system are counted.
PlaceInv ==
    /\ InObjects => oper # "ARCHINFO"
    /\ mainpc \in {"fs", "fsyb"} => oper = "RESTFS"
    /\ oper = "RESTDIR" => errors = 0 /\ (InObjects => fsi = 1)
    /\ InObjects \/ ret # 0 \/ errors = 0

\* The objects the main thread works on
AtWork(o) ==
    \/ (mainpc = "node" \/ InFile) /\ o = file.head.obj
    \/ mainpc = "multi" /\ \E k \in DOMAIN group : o = group[k].obj

\* An object that has come has been restored, or this is going to be reported.
SettledInv ==
    NoneLost =>
       \A o \in TakenObjs \ Excluded :
          \/ o \in counted \/ totalerr \/ ret # 0 \/ errors > 0 \/ AtWork(o)
          \/ aborted /\ mainpc \in {"fs", "check"}

AllCame ==
    \A p \in DOMAIN Archive : Archive[p].magic = "OBJT" /\ wanted(Archive[p]) =>
        \E n \in DOMAIN got : origin[n] = p

\* The objects of a file system end with its DATF.
DatfInv ==
    mainpc = "objend" /\ ~aborted => Len(got) < Len(sent) /\ sent[Len(got) + 1].magic = "DATF"

\* What is still to come is not of the file systems before this one, and after
\* the last one there is nothing to come.
CameInv ==
    /\ oper = "RESTFS" /\ ~aborted /\ (InObjects \/ mainpc \in {"fs", "fsyb"}) =>
          \A p \in DOMAIN Archive : wanted(Archive[p]) /\ Archive[p].fsid < fsi =>
             \E n \in DOMAIN got : p <= origin[n]
    /\ oper # "ARCHINFO" /\ NoneLost /\ ret = 0
       /\ ((mainpc = "check" /\ ~aborted) \/ mainpc = "stop" \/ Stopped) => AllCame

WholeInv ==
    /\ ReaderEndInv
    /\ FlowInv
    /\ NotRemovedInv
    /\ ExcludedIsUntouched
    /\ PlaceInv
    /\ SettledInv
    /\ DatfInv
    /\ CameInv

-----------------------------------------------------------------------------
(* What damage to the data costs *)

\* The position of the last item taken
LastPos == IF got = <<>> THEN 0 ELSE origin[Len(got)]

\* Only blocks are damaged, and a block that was not damaged is unpacked.
ClearInv ==
    /\ \A p \in damaged : Archive[p].magic = "BLKH"
    /\ \A i \in DOMAIN queue : queue[i].type = "BLOCK" /\ queue[i].status = "DONE" =>
          queue[i].info.form = "clear" \/ origin[queue[i].itemnum] \in damaged

\* Between the objects, and before the file systems, the main thread has taken
\* the last item of something.
PathInv ==
    /\ mainpc \in {"create", "mainhead"} => got = <<>> /\ fsi = 1
    /\ mainpc = "fsinfo" => got # <<>> /\ LastPos = fsi /\ fsi <= Heads + 1
    /\ mainpc \in {"fs", "fsyb"} =>
          /\ got # <<>> /\ Archive[LastPos].fsid < fsi
          /\ Archive[LastPos].fsid = 0 => LastPos = Heads + 1
    /\ mainpc = "fsyb" => fsi \in fsbitmap /\ fsi <= fscount
    /\ InObjects => /\ got # <<>>
                    /\ oper = "RESTFS" => Archive[LastPos].fsid = fsi /\ fsi \in fsbitmap
    /\ mainpc \in {"peek", "next", "node", "fileend", "objend"} => Complete(LastPos)

\* A file whose blocks are sound gets all of them.
ContentsInv ==
    InFile =>
       /\ file.head.fsid = fsi /\ ~file.fatalerr
       /\ mainpc = "footer" => filepos = file.head.cnt /\ OnTrack
       /\ LET o == file.head.obj
          IN  ~Hurt(o) =>
                 /\ ~excluded => ~file.minorerr
                 /\ \A n \in DOMAIN file.data : file.data[n] = Block(file.head.fsid, o, n - 1)

\* A group is made of the headers that follow each other in the archive.
GroupInv ==
    mainpc = "multi" =>
       /\ Len(group) > 0 /\ Archive[LastPos] = group[Len(group)]
       /\ Len(group) <= file.head.cnt
       /\ \A k \in DOMAIN group :
             /\ group[k].form = "multi" /\ group[k].off = k - 1 /\ group[k].cnt = file.head.cnt
             /\ \E p \in DOMAIN Archive :
                   /\ Archive[p] = group[k] /\ p <= LastPos
                   /\ \A x \in p .. LastPos : Archive[x].magic # "BLKH"

\* As long as only blocks are damaged, what has come has been restored, or a
\* block of it was damaged.
OnlyDataInv ==
    OnlyData =>
       /\ ret = 0 /\ errors = 0 /\ ~aborted
       /\ ClearInv /\ PathInv /\ ContentsInv /\ GroupInv
       /\ \A o \in TakenObjs \ Excluded : o \in counted \/ AtWork(o) \/ Hurt(o)

\* oper_restore() returns.
RestoreEnds == <>(mainpc = "done")

\* oper_restore() returns, provided that the decompression threads have all
\* begun to run (and are counted in g_secthreads) when it empties the queue.
RestoreEndsOnceStarted ==
    [](mainpc = "drain" => \A t \in CompThreads : comppc[t] # "created") =>
        <>(mainpc = "done")

=============================================================================
