--------------------------- MODULE SavePipeline ----------------------------
(***************************************************************************)
(* savefs and savedir: the main thread of oper_save.c walks the files and   *)
(* fills the queue, the compression threads pack the blocks, the writer     *)
(* thread of thread_archio.c empties the queue into the archive.  The       *)
(* module follows one call of oper_save() from the creation of its threads  *)
(* to its return value, with the faults the code handles.                   *)
(***************************************************************************)
EXTENDS Threads

CONSTANTS
    archtype,       \* "FILESYSTEMS" (savefs) or "DIRECTORIES" (savedir)
    Trees,          \* for each argument, the objects found in it, in order
    MaxSmallFiles,  \* how many small files share one block
    Faults          \* what may go wrong in this instance

\* An object is a record: kind, which createar_item_stdattr() finds out, is
\* "node" (a directory, link, hard link or device: a header is all there is to
\* it), "unique" (a regular file of blks blocks) or "multi" (a small file).
Objects == [id: Nat \ {0}, kind: {"node", "unique", "multi"}, blks: Nat]

AllFaults == {"abort", "pthread", "analyse", "attr", "read", "truncate",
              "lstat", "ignored", "exists", "create", "write", "footer", "comp"}

ASSUME SaveAssumption ==
    /\ archtype \in {"FILESYSTEMS", "DIRECTORIES"}
    /\ Trees \in Seq(Seq(Objects))
    /\ MaxSmallFiles \in Nat \ {0}
    /\ Faults \subseteq AllFaults

\* The id of an object stands for its path: no two objects share it.
ASSUME IdAssumption ==
    \A f, g \in DOMAIN Trees : \A i \in DOMAIN Trees[f], j \in DOMAIN Trees[g] :
        Trees[f][i].id = Trees[g][j].id => f = g /\ i = j

\* Every header and block that the main thread builds for these trees, and
\* every form a block takes.
ObjectInfo(f, o) ==
    {Header("OBJT", f, o.id, k, n, o.kind) :
        k \in 0 .. IF o.kind = "multi" THEN MaxSmallFiles - 1 ELSE 0,
        n \in IF o.kind = "multi" THEN 1 .. MaxSmallFiles ELSE {o.blks}}
    \cup {[Block(f, o.id, b) EXCEPT !.form = form] :
            b \in 0 .. IF o.kind = "multi" THEN 0 ELSE o.blks - 1, form \in {"clear", "packed"}}
    \cup {Header("FILF", f, o.id, 0, 0, "head")}

SaveInfo ==
    {Header("MAIN", 0, 0, 0, Len(Trees), "head"), Header("DIRS", 0, 0, 0, 0, "head"),
     Header("DATF", 0, 0, 0, 0, "head")}
    \cup {Header("FSIN", 0, 0, f, 0, "head") : f \in DOMAIN Trees}
    \cup {Header(m, f, 0, 0, 0, "head") : m \in {"FSYB", "DATF"}, f \in DOMAIN Trees}
    \cup UNION {UNION {ObjectInfo(IF archtype = "FILESYSTEMS" THEN f ELSE 1, Trees[f][i]) :
                         i \in DOMAIN Trees[f]} : f \in DOMAIN Trees}

\* compress_block_generic(), in Threads, makes a packed block of a block.
ASSUME SaveInfoAssumption ==
    /\ SaveInfo \subseteq Info
    /\ \A info \in Info : info.off \in Nat /\ info.cnt \in Nat
    /\ \A info \in Info : info.magic = "BLKH" => compress_block_generic(info) \subseteq Info

VARIABLES
    mainpc,     \* where the main thread is
    fsi,        \* the argument it works on
    obji,       \* the object of that argument it works on
    blki,       \* how many blocks of that object it has queued
    regmulti,   \* small files collected for the next shared block
    last,       \* regmulti is being queued because the tree is finished
    fatal,      \* createar_save_directory() returned -1
    ret,        \* the ret of oper_save()
    totalerr,   \* there were errors that are not fatal (totalerr > 0)
    writerpc,   \* where the writer thread is
    witem,      \* the item the writer has dequeued
    archfile,   \* the archive file: "none", "old", "partial" or "complete"
    archive,    \* the items that have been written to it
    sent        \* history: everything the main thread has queued

walkvars == <<fsi, obji, blki, regmulti, last, fatal>>
mainvars == <<mainpc, walkvars, ret, totalerr, sent>>
writervars == <<writerpc, witem, archfile, archive>>
vars == <<queuevars, syncvars, compvars, mainvars, writervars>>

Fault(f) == f \in Faults

Init ==
    /\ ThreadsInit
    /\ mainpc = "create"
    /\ fsi = 1 /\ obji = 1 /\ blki = 0
    /\ regmulti = <<>>
    /\ last = FALSE /\ fatal = FALSE
    /\ ret = 0 /\ totalerr = FALSE
    /\ writerpc = "none"
    /\ witem = NoInfo
    /\ archfile \in IF Fault("exists") THEN {"none", "old"} ELSE {"none"}
    /\ archive = <<>>
    /\ sent = <<>>

-----------------------------------------------------------------------------
(* The main thread: oper_save() *)

AddHeader(info) == queue_add_header(info) /\ sent' = Append(sent, info)
AddBlock(info) == queue_add_block(info, "TODO") /\ sent' = Append(sent, info)

\* A step of the main thread that does not touch the queue.
Local == UNCHANGED <<queuevars, sent>>

Goto(pc) == mainpc' = pc

\* The thread is created, or pthread_create() fails and oper_save() gives up.
main_create_comp ==
    /\ mainpc = "create"
    /\ \E t \in CompThreads :
          /\ comppc[t] = "none"
          /\ \/ /\ comppc' = [comppc EXCEPT ![t] = "created"]
                /\ UNCHANGED <<mainpc, ret>>
             \/ /\ Fault("pthread")
                /\ ret' = -1 /\ Goto("finish")
                /\ UNCHANGED comppc
    /\ Local
    /\ UNCHANGED <<syncvars, blknum, blkinfo, walkvars, totalerr, writervars>>

main_create_writer ==
    /\ mainpc = "create"
    /\ \A t \in CompThreads : comppc[t] # "none"
    /\ \/ /\ writerpc' = "created" /\ Goto("mainhead")
          /\ UNCHANGED ret
       \/ /\ Fault("pthread")
          /\ ret' = -1 /\ Goto("finish")
          /\ UNCHANGED writerpc
    /\ Local
    /\ UNCHANGED <<syncvars, compvars, walkvars, totalerr, witem, archfile, archive>>

\* createar_write_mainhead()
main_mainhead ==
    /\ mainpc = "mainhead"
    /\ AddHeader(Header("MAIN", 0, 0, 0, Len(Trees), "head"))
    /\ Goto("fsinfo")
    /\ UNCHANGED <<syncvars, compvars, walkvars, ret, totalerr, writervars>>

\* Analysis of the arguments: one FSIN header per file system, which must be
\* mounted first, or one DIRS header.
main_fsinfo ==
    /\ mainpc = "fsinfo"
    /\ IF archtype = "FILESYSTEMS" /\ fsi <= Len(Trees)
       THEN /\ AddHeader(Header("FSIN", 0, 0, fsi, 0, "head"))
            /\ fsi' = fsi + 1
            /\ UNCHANGED mainpc
       ELSE /\ IF archtype = "FILESYSTEMS" THEN Local ELSE AddHeader(Header("DIRS", 0, 0, 0, 0, "head"))
            /\ fsi' = 1
            /\ Goto("tree")
    /\ UNCHANGED <<syncvars, compvars, obji, blki, regmulti, last, fatal, ret, totalerr, writervars>>

\* A file system cannot be mounted, or a first walk over a tree fails.
main_analyse_error ==
    /\ mainpc = "fsinfo"
    /\ Fault("analyse")
    /\ archtype = "DIRECTORIES" \/ fsi <= Len(Trees)
    /\ ret' = -1
    /\ Goto("finish")
    /\ Local
    /\ UNCHANGED <<syncvars, compvars, walkvars, totalerr, writervars>>

\* The loop over the arguments.
main_tree ==
    /\ mainpc = "tree"
    /\ IF fsi <= Len(Trees) /\ ~get_interrupted
       THEN /\ Goto(IF archtype = "FILESYSTEMS" THEN "fsyb" ELSE "object")
            /\ obji' = 1
            /\ UNCHANGED fsi
       ELSE /\ Goto(IF archtype = "FILESYSTEMS" THEN "check" ELSE "datf")
            /\ UNCHANGED <<fsi, obji>>
    /\ Local
    /\ UNCHANGED <<syncvars, compvars, blki, regmulti, last, fatal, ret, totalerr, writervars>>

Object == Trees[fsi][obji]

\* save.fsid, counted from 1: all directories belong to one file system.
fsid == IF archtype = "FILESYSTEMS" THEN fsi ELSE 1

main_fsyb ==
    /\ mainpc = "fsyb"
    /\ AddHeader(Header("FSYB", fsid, 0, 0, 0, "head"))
    /\ Goto("object")
    /\ UNCHANGED <<syncvars, compvars, walkvars, ret, totalerr, writervars>>

NextObject == obji' = obji + 1 /\ blki' = 0 /\ Goto("object")

\* A file that has become shorter is padded with zeros and counts as an error.
MaybeTruncated ==
    totalerr' \in {totalerr} \cup IF Fault("truncate") THEN {TRUE} ELSE {}

\* createar_item_stdattr(), _xattr() or _winattr() may fail; so may open64() on
\* a regular file, and the archive is not saved in itself.
attrerrors == IF Fault("attr") THEN {0, 1} ELSE {0}

\* createar_save_directory(): take the next object, unless the operation is
\* interrupted (the root itself is saved without that test).
main_object ==
    /\ mainpc = "object"
    /\ IF obji <= Len(Trees[fsi]) /\ (obji = 1 \/ ~get_interrupted)
       THEN \/ /\ \E n \in attrerrors :
                     IF n = 0
                     THEN Goto("save") /\ UNCHANGED <<obji, blki, totalerr>>
                     ELSE totalerr' = TRUE /\ NextObject
               /\ UNCHANGED <<last, fatal>>
            \/ /\ Fault("ignored")      \* opendir() fails, or lstat64() with option -A
               /\ obji' = IF obji = 1 THEN Len(Trees[fsi]) + 1 ELSE obji + 1
               /\ UNCHANGED <<mainpc, blki, last, fatal, totalerr>>
            \/ /\ Fault("lstat")        \* lstat64() without option -A, or unknown type
               /\ fatal' = TRUE /\ last' = TRUE /\ blki' = 0
               /\ Goto("flush")
               /\ UNCHANGED <<obji, totalerr>>
       ELSE /\ last' = TRUE /\ blki' = 0
            /\ Goto("flush")
            /\ UNCHANGED <<obji, fatal, totalerr>>
    /\ Local
    /\ UNCHANGED <<syncvars, compvars, fsi, regmulti, ret, writervars>>

\* createar_save_file() for everything but regular files
main_save_node ==
    /\ mainpc = "save" /\ Object.kind = "node"
    /\ AddHeader(Header("OBJT", fsid, Object.id, 0, Object.blks, Object.kind))
    /\ NextObject
    /\ UNCHANGED <<syncvars, compvars, fsi, regmulti, last, fatal, ret, totalerr, writervars>>

\* The limits in files and in bytes of the shared block, as one in files
regmulti_save_enough_space_for_new_file == Len(regmulti) < MaxSmallFiles

regmulti_save_addfile(header) == regmulti' = Append(regmulti, header)

\* createar_obj_regfile_multi(): a small file joins the shared block, after
\* that block has been queued if there is no room left in it.
main_save_multi ==
    /\ mainpc = "save" /\ Object.kind = "multi"
    /\ IF regmulti_save_enough_space_for_new_file
       THEN regmulti_save_addfile(Object.id) /\ NextObject /\ MaybeTruncated
       ELSE Goto("flush") /\ blki' = 0 /\ UNCHANGED <<regmulti, obji, totalerr>>
    /\ Local
    /\ UNCHANGED <<syncvars, compvars, fsi, last, fatal, ret, writervars>>

\* regmulti_save_enqueue(): the headers, then the block they share; called in
\* the middle of a tree, or by createar_save_directory_wrapper() at its end.
main_flush ==
    /\ mainpc = "flush"
    /\ \/ /\ blki < Len(regmulti)
          /\ AddHeader(Header("OBJT", fsid, regmulti[blki + 1], blki, Len(regmulti), "multi"))
          /\ blki' = blki + 1
          /\ UNCHANGED <<regmulti, last, mainpc>>
       \/ /\ blki = Len(regmulti)
          /\ IF regmulti = <<>> THEN Local ELSE AddBlock(Block(fsid, regmulti[1], 0))
          /\ regmulti' = <<>> /\ blki' = 0 /\ last' = FALSE
          /\ Goto(IF ~last THEN "save" ELSE IF archtype = "FILESYSTEMS" THEN "datf" ELSE "nexttree")
    /\ UNCHANGED <<syncvars, compvars, fsi, obji, fatal, ret, totalerr, writervars>>

\* createar_obj_regfile_unique(): header, blocks, footer
main_save_unique ==
    /\ mainpc = "save" /\ Object.kind = "unique"
    /\ AddHeader(Header("OBJT", fsid, Object.id, 0, Object.blks, Object.kind))
    /\ blki' = 0
    /\ Goto("file")
    /\ UNCHANGED <<syncvars, compvars, fsi, obji, regmulti, last, fatal, ret, totalerr, writervars>>

\* Faulty variant: a file that cannot be read is not counted as an error.
main_file_NotCounted ==
    /\ mainpc = "file"
    /\ IF get_interrupted \/ Object.blks = 0 \/ Fault("read")
       THEN NextObject
       ELSE Goto(IF blki < Object.blks THEN "block" ELSE "filf") /\ UNCHANGED <<obji, blki>>
    /\ Local
    /\ UNCHANGED <<syncvars, compvars, fsi, regmulti, last, fatal, ret, totalerr, writervars>>

\* The loop over the blocks: interrupted, unreadable, or one more block, or
\* the footer (an empty file has none).
main_file ==
    /\ mainpc = "file"
    /\ \/ /\ get_interrupted \/ (Fault("read") /\ blki < Object.blks)
          /\ totalerr' = TRUE
          /\ NextObject
       \/ /\ ~get_interrupted
          /\ IF Object.blks = 0 THEN NextObject
             ELSE /\ Goto(IF blki < Object.blks THEN "block" ELSE "filf")
                  /\ UNCHANGED <<obji, blki>>
          /\ UNCHANGED totalerr
    /\ Local
    /\ UNCHANGED <<syncvars, compvars, fsi, regmulti, last, fatal, ret, writervars>>

main_block ==
    /\ mainpc = "block"
    /\ AddBlock(Block(fsid, Object.id, blki))
    /\ blki' = blki + 1
    /\ Goto("file")
    /\ UNCHANGED <<syncvars, compvars, fsi, obji, regmulti, last, fatal, ret, totalerr, writervars>>

main_filf ==
    /\ mainpc = "filf"
    /\ AddHeader(Header("FILF", fsid, Object.id, 0, 0, "head"))
    /\ NextObject
    /\ MaybeTruncated
    /\ UNCHANGED <<syncvars, compvars, fsi, regmulti, last, fatal, ret, writervars>>

\* The end of createar_oper_savedir(), which ignores what the walk returned.
main_nexttree ==
    /\ mainpc = "nexttree"
    /\ fsi' = fsi + 1
    /\ Goto("tree")
    /\ Local
    /\ UNCHANGED <<syncvars, compvars, obji, blki, regmulti, last, fatal, ret, totalerr, writervars>>

\* Faulty variant: what createar_oper_savefs() returns is ignored.
main_datf_Ignored ==
    /\ mainpc = "datf"
    /\ AddHeader(Header("DATF", IF archtype = "FILESYSTEMS" THEN fsid ELSE 0, 0, 0, 0, "head"))
    /\ IF archtype = "DIRECTORIES" THEN Goto("check") /\ UNCHANGED fsi
       ELSE Goto("tree") /\ fsi' = fsi + 1
    /\ UNCHANGED <<syncvars, compvars, obji, blki, regmulti, last, fatal, ret, totalerr, writervars>>

\* The footer of the data: at the end of createar_oper_savefs() for each file
\* system, at the end of the loop for directories.
main_datf ==
    /\ mainpc = "datf"
    /\ AddHeader(Header("DATF", IF archtype = "FILESYSTEMS" THEN fsid ELSE 0, 0, 0, 0, "head"))
    /\ \/ archtype = "DIRECTORIES" /\ Goto("check") /\ UNCHANGED <<fsi, ret>>
       \/ archtype = "FILESYSTEMS" /\ fatal /\ Goto("finish") /\ ret' = -1 /\ UNCHANGED fsi
       \/ archtype = "FILESYSTEMS" /\ ~fatal /\ Goto("tree") /\ fsi' = fsi + 1 /\ UNCHANGED ret
    /\ UNCHANGED <<syncvars, compvars, obji, blki, regmulti, last, fatal, totalerr, writervars>>

\* The last look at the other threads before the result is decided.
main_check ==
    /\ mainpc = "check"
    /\ ret' = IF get_interrupted THEN -1 ELSE ret
    /\ Goto("finish")
    /\ Local
    /\ UNCHANGED <<syncvars, compvars, walkvars, totalerr, writervars>>

main_finish ==
    /\ mainpc = "finish"
    /\ queue_set_end_of_queue
    /\ Goto("joincomp")
    /\ UNCHANGED <<syncvars, compvars, walkvars, ret, totalerr, sent, writervars>>

main_join_comp ==
    /\ mainpc = "joincomp"
    /\ \A t \in CompThreads : comppc[t] \in {"none", "exited"}
    /\ Goto("joinwriter")
    /\ Local
    /\ UNCHANGED <<syncvars, compvars, walkvars, ret, totalerr, writervars>>

\* Faulty variant: only a complete archive is removed.
archwriter_remove_Complete == archfile' = IF archfile = "complete" THEN "none" ELSE archfile

\* archwriter_remove() deletes what archwriter_create() has created.
archwriter_remove ==
    archfile' = IF archfile \in {"partial", "complete"} THEN "none" ELSE archfile

main_join_writer ==
    /\ mainpc = "joinwriter"
    /\ writerpc \in {"none", "exited"}
    /\ IF ret # 0 THEN archwriter_remove ELSE UNCHANGED archfile
    /\ Goto("done")
    /\ Local
    /\ UNCHANGED <<syncvars, compvars, walkvars, ret, totalerr, writerpc, witem, archive>>

\* What oper_save() returns.
exitstatus == IF ret # 0 \/ totalerr THEN -1 ELSE 0

Main ==
    \/ main_create_comp \/ main_create_writer \/ main_mainhead \/ main_fsinfo
    \/ main_analyse_error \/ main_tree \/ main_fsyb \/ main_object
    \/ main_save_node \/ main_save_multi \/ main_save_unique \/ main_flush
    \/ main_file \/ main_block \/ main_filf \/ main_nexttree \/ main_datf
    \/ main_check \/ main_finish \/ main_join_comp \/ main_join_writer

-----------------------------------------------------------------------------
(* The writer thread: thread_writer_fct() *)

writer_start ==
    /\ writerpc = "created"
    /\ writerpc' = "open"
    /\ inc_secthreads
    /\ UNCHANGED <<queuevars, compvars, mainvars, witem, archfile, archive>>

\* The label thread_writer_fct_error: tell the main thread to stop.
WriterError == writerpc' = "drain" /\ set_stopfillqueue

\* archwriter_create() and archwriter_write_volheader()
writer_open ==
    /\ writerpc = "open"
    /\ \/ /\ archfile # "old"
          /\ archfile' = "partial"
          /\ writerpc' = "loop"
          /\ UNCHANGED syncvars
       \/ /\ archfile = "old" \/ Fault("create")
          /\ WriterError
          /\ UNCHANGED archfile
       \/ /\ archfile # "old" /\ Fault("write")
          /\ WriterError
          /\ archfile' = "partial"
    /\ UNCHANGED <<queuevars, compvars, mainvars, witem, archive>>

writer_take ==
    /\ writerpc = "loop"
    /\ queue_dequeue_first
    /\ witem' = queue[1].info
    /\ writerpc' = "write"
    /\ UNCHANGED <<syncvars, compvars, mainvars, archfile, archive>>

\* archwriter_dowrite_block() or archwriter_dowrite_header()
writer_write ==
    /\ writerpc = "write"
    /\ \/ /\ archive' = Append(archive, witem)
          /\ writerpc' = "loop"
          /\ UNCHANGED syncvars
       \/ /\ Fault("write")
          /\ WriterError
          /\ UNCHANGED archive
    /\ witem' = NoInfo
    /\ UNCHANGED <<queuevars, compvars, mainvars, archfile>>

\* The end of the queue: archwriter_write_volfooter() and archwriter_close()
writer_footer ==
    /\ writerpc = "loop"
    /\ queue_get_end_of_queue
    /\ \/ /\ archfile' = "complete"
          /\ writerpc' = "exited"
          /\ dec_secthreads
       \/ /\ Fault("footer")
          /\ WriterError
          /\ UNCHANGED archfile
    /\ UNCHANGED <<queuevars, compvars, mainvars, witem, archive>>

\* Faulty variants: the writer frees a block under a compression thread, or
\* frees the item and leaves it in the list.
writer_drain_InProgress ==
    /\ writerpc = "drain"
    /\ queue # <<>>
    /\ RemoveHead
    /\ UNCHANGED <<syncvars, compvars, mainvars, writervars>>

writer_drain_NotRemoved ==
    /\ writerpc = "drain"
    /\ queue # <<>>
    /\ UNCHANGED vars

writer_drain ==
    /\ writerpc = "drain"
    /\ queue_destroy_first_item
    /\ UNCHANGED <<syncvars, compvars, mainvars, writervars>>

writer_exit ==
    /\ writerpc = "drain"
    /\ queue_get_end_of_queue
    /\ writerpc' = "exited"
    /\ dec_secthreads
    /\ UNCHANGED <<queuevars, compvars, mainvars, witem, archfile, archive>>

Writer ==
    \/ writer_start \/ writer_open \/ writer_take \/ writer_write
    \/ writer_footer \/ writer_drain \/ writer_exit

-----------------------------------------------------------------------------
(* The compression threads, the user, and the whole *)

Comp(t) ==
    /\ \/ thread_comp_start(t)
       \/ thread_comp_take(t)
       \/ thread_comp_put(t, compress_block_generic(blkinfo[t]))
       \/ thread_comp_exit(t)
       \/ Fault("comp") /\ thread_comp_error(t)
    /\ UNCHANGED <<mainvars, writervars>>

User == Fault("abort") /\ mainpc # "done" /\ Signal /\ UNCHANGED <<mainvars, writervars>>

Terminated == mainpc = "done" /\ UNCHANGED vars

Next == Main \/ Writer \/ (\E t \in CompThreads : Comp(t)) \/ User \/ Terminated

\* Each thread is scheduled by the kernel, and every wait in queue.c ends
\* after a second at the latest to evaluate its condition again.
Fairness ==
    /\ WF_vars(Main)
    /\ WF_vars(Writer)
    /\ \A t \in CompThreads : WF_vars(Comp(t))

Spec == Init /\ [][Next]_vars /\ Fairness

-----------------------------------------------------------------------------
(* Properties *)

MainPc == {"create", "mainhead", "fsinfo", "tree", "fsyb", "object", "save",
           "flush", "file", "block", "filf", "nexttree", "datf", "check",
           "finish", "joincomp", "joinwriter", "done"}

\* The type of every variable of the pipeline.
SaveTypeOK ==
    /\ ThreadsTypeOK
    /\ mainpc \in MainPc
    /\ fsi \in Nat /\ obji \in Nat /\ blki \in Nat
    /\ regmulti \in Seq(Nat)
    /\ last \in BOOLEAN /\ fatal \in BOOLEAN
    /\ ret \in {0, -1} /\ totalerr \in BOOLEAN
    /\ writerpc \in {"none", "created", "open", "loop", "write", "drain", "exited"}
    /\ witem \in Info \cup {NoInfo}
    /\ archfile \in {"none", "old", "partial", "complete"}
    /\ archive \in Seq(Info) /\ sent \in Seq(Info)

\* What the archive holds of an item of the queue: blocks are packed.
Packed(info) ==
    IF info.magic = "BLKH" THEN compress_block_generic(info) ELSE {info}

\* Between the calls of queue_add_xxx() in the main thread and the calls of
\* archwriter_dowrite_xxx() in the writer thread, nothing is lost, repeated,
\* reordered or left uncompressed, however the threads interleave, and what
\* is queued is eventually written unless the writer gives up.
T == INSTANCE Transfer WITH Payload <- Info, Processed <- Packed, got <- archive,
                            closed <- endofqueue, failed <- stopfillqueue
TransferSpec == T!Spec

\* An archive that ends with the footer of its last volume holds everything
\* the main thread has queued: a reader can trust the "last volume" flag.
FooterMeansAll ==
    archfile = "complete" => Len(archive) = Len(sent) /\ endofqueue

\* Object o is at position p of s, in the form restore expects: a regular file
\* is its header, its blocks in order and its footer, with nothing in between; a
\* small file is one of a run of headers that name their number, with the block
\* they share behind them.
IsAt(o, s, form, p) ==
    /\ s[p].magic = "OBJT" /\ s[p].obj = o.id
    /\ o.kind = "unique" /\ o.blks > 0 =>
          /\ p + o.blks + 1 <= Len(s)
          /\ \A b \in 1 .. o.blks :
                s[p + b] = [Block(s[p].fsid, o.id, b - 1) EXCEPT !.form = form]
          /\ s[p + o.blks + 1] = Header("FILF", s[p].fsid, o.id, 0, 0, "head")
    /\ o.kind = "multi" =>
          LET first == p - s[p].off
              n == s[p].cnt
          IN /\ s[p].off < n /\ first >= 1 /\ first + n <= Len(s)
             /\ \A k \in 0 .. n - 1 :
                   s[first + k].magic = "OBJT" /\ s[first + k].off = k /\ s[first + k].cnt = n
             /\ s[first + n] = [Block(s[p].fsid, s[first].obj, 0) EXCEPT !.form = form]

AllSaved ==
    /\ archfile = "complete"
    /\ \A f \in DOMAIN Trees : \A i \in DOMAIN Trees[f] :
          Cardinality({p \in DOMAIN archive : IsAt(Trees[f][i], archive, "packed", p)}) = 1

\* If oper_save() reports success and the writer thread never gave up, every
\* object of every tree is in the archive, once and in restorable form.
CleanSuccessIsWhole ==
    mainpc = "done" /\ exitstatus = 0 /\ ~stopfillqueue /\ ~fatal => AllSaved

\* What the exit status says to the user: success means a whole archive.
SuccessIsWhole == mainpc = "done" /\ exitstatus = 0 => AllSaved

\* An error that ends the walk over a tree is fatal (only with option -A is it
\* not): the exit status says so.
FatalErrorIsReported == mainpc = "done" /\ fatal => exitstatus # 0

\* A save that fails as a whole leaves no archive of its own behind.
FailureLeavesNothing ==
    mainpc = "done" /\ ret # 0 => archfile \in {"none", "old"}

-----------------------------------------------------------------------------
(* The inductive invariant *)

\* The main thread is inside a tree; it has small files in hand.
InTree == mainpc \in {"object", "save", "flush", "file", "block", "filf"}

\* The indices of the walk point at an argument, an object and a block that
\* are there.
WalkInv ==
    /\ fsi \in 1 .. Len(Trees) + 1 /\ obji > 0
    /\ InTree \/ mainpc \in {"fsyb", "nexttree"} \/ (mainpc = "datf" /\ archtype = "FILESYSTEMS")
          => fsi <= Len(Trees)
    /\ mainpc = "nexttree" => archtype = "DIRECTORIES"
    /\ mainpc \in {"save", "file", "block", "filf"} \/ (mainpc = "flush" /\ ~last)
          => obji <= Len(Trees[fsi])
    /\ mainpc \in {"file", "block", "filf"} => Object.kind = "unique" /\ blki <= Object.blks
    /\ mainpc = "block" => blki < Object.blks
    /\ mainpc = "flush" => blki <= Len(regmulti)

\* The group holds small files of the tree that is walked.
GroupInv ==
    /\ Len(regmulti) <= MaxSmallFiles
    /\ ~InTree => regmulti = <<>>
    /\ \A k \in DOMAIN regmulti : \E i \in DOMAIN Trees[fsi] :
          Trees[fsi][i].kind = "multi" /\ Trees[fsi][i].id = regmulti[k]

Running(t) == comppc[t] \in {"loop", "busy"}

\* The counter of threads counts those that run, so it never falls below zero.
SecthreadsInv ==
    /\ IsFiniteSet({t \in CompThreads : Running(t)})
    /\ secthreads = Cardinality({t \in CompThreads : Running(t)})
                     + IF writerpc \in {"open", "loop", "write", "drain"} THEN 1 ELSE 0

\* How the ends of the pipeline depend on each other: the queue is closed by
\* the main thread alone, the flag is set by a writer that gives up, and the
\* archive is complete when the writer has seen the end.
EndsInv ==
    /\ endofqueue <=> mainpc \in {"joincomp", "joinwriter", "done"}
    /\ mainpc = "create" => writerpc = "none"
    /\ mainpc = "done" => writerpc \in {"none", "exited"}
    /\ writerpc \in {"none", "created", "open", "loop", "write"} => ~stopfillqueue
    /\ writerpc = "drain" => stopfillqueue
    /\ writerpc \in {"none", "created", "open"} => archfile \in {"none", "old"}
    /\ writerpc \in {"loop", "write"} => archfile = "partial"
    /\ archfile = "complete" => writerpc = "exited"
    /\ archtype = "FILESYSTEMS" /\ fatal =>
          \/ mainpc = "flush" /\ last
          \/ mainpc = "datf"
          \/ ret # 0 /\ mainpc \in {"finish", "joincomp", "joinwriter", "done"}

\* An item of the queue is what was queued under its number, in the form that
\* its status says, and a thread works on a copy of that.
QueueHoldsSent ==
    /\ Len(sent) = curitemnum - 1
    /\ \A i \in DOMAIN queue :
          LET x == sent[queue[i].itemnum]
          IN  /\ queue[i].type = "BLOCK" <=> x.magic = "BLKH"
              /\ queue[i].status = "DONE" => queue[i].info \in Packed(x)
              /\ queue[i].status # "DONE" => queue[i].info = x
    /\ \A t \in CompThreads : blknum[t] # 0 => blkinfo[t] = sent[blknum[t]]

\* What has left the queue is in the archive, or in the hands of the writer,
\* until the writer gives up.
ArchiveHoldsSent ==
    /\ Len(archive) <= Len(sent)
    /\ \A n \in DOMAIN archive : archive[n] \in Packed(sent[n])
    /\ writerpc \in {"none", "created", "open", "loop"} => Len(archive) + Len(queue) = Len(sent)
    /\ writerpc = "write" => /\ Len(archive) + 1 + Len(queue) = Len(sent)
                             /\ witem \in Packed(sent[Len(archive) + 1])

\* What the safety of the pipeline rests on, next to QueueInv of QueueProtocol.
SaveInv ==
    /\ SaveTypeOK
    /\ WalkInv
    /\ GroupInv
    /\ SecthreadsInv
    /\ EndsInv
    /\ QueueHoldsSent
    /\ ArchiveHoldsSent
    /\ FooterMeansAll
    /\ FailureLeavesNothing

-----------------------------------------------------------------------------
(* From the trees to what is queued: the invariant behind CleanSuccessIsWhole *)

\* The walk has passed object i of tree f.
Passed(f, i) ==
    /\ mainpc \notin {"create", "mainhead", "fsinfo"}
    /\ f < fsi \/ (f = fsi /\ mainpc # "tree" /\ i < obji)

InFile == mainpc \in {"file", "block", "filf"}
AtEnd == mainpc \in {"finish", "joincomp", "joinwriter", "done"}

\* Each object has at most one header, queued when the walk passes it; a small
\* file in hand has been passed, and its header has not been queued.
OnceInv ==
    /\ \A p, q \in DOMAIN sent :
          sent[p].magic = "OBJT" /\ sent[q].magic = "OBJT" /\ sent[p].obj = sent[q].obj => p = q
    /\ \A p \in DOMAIN sent : sent[p].magic = "OBJT" =>
          /\ \E f \in DOMAIN Trees : \E i \in DOMAIN Trees[f] :
                /\ Trees[f][i].id = sent[p].obj
                /\ Passed(f, i) \/ (InFile /\ f = fsi /\ i = obji)
          /\ \A k \in DOMAIN regmulti :
                sent[p].obj = regmulti[k] => mainpc = "flush" /\ k <= blki
    /\ \A j, k \in DOMAIN regmulti : regmulti[j] = regmulti[k] => j = k
    /\ \A k \in DOMAIN regmulti : \E i \in DOMAIN Trees[fsi] :
          i < obji /\ Trees[fsi][i].id = regmulti[k]

\* The last items queued are those of the file or the group in hand.
InHandInv ==
    /\ InFile =>
          /\ blki < Len(sent)
          /\ sent[Len(sent) - blki] = Header("OBJT", fsid, Object.id, 0, Object.blks, "unique")
          /\ \A b \in 1 .. blki : sent[Len(sent) - blki + b] = Block(fsid, Object.id, b - 1)
    /\ mainpc \in {"block", "filf"} => Object.blks > 0
    /\ mainpc = "filf" => blki = Object.blks
    /\ mainpc = "flush" =>
          /\ blki <= Len(sent)
          /\ \A k \in 1 .. blki : sent[Len(sent) - blki + k] =
                Header("OBJT", fsid, regmulti[k], k - 1, Len(regmulti), "multi")

\* The walk goes to the last object of the last tree, unless it is interrupted,
\* or ends with a fatal error.
WalkEndInv ==
    /\ last => mainpc = "flush"
    /\ \/ mainpc = "flush" /\ last
       \/ mainpc = "nexttree"
       \/ mainpc = "datf" /\ archtype = "FILESYSTEMS"
       => obji > Len(Trees[fsi]) \/ fatal \/ get_interrupted
    /\ mainpc = "check" \/ (mainpc = "datf" /\ archtype = "DIRECTORIES")
       => fsi > Len(Trees) \/ get_interrupted
    /\ AtEnd /\ ret = 0 => fsi > Len(Trees)
    /\ writerpc = "none" => mainpc = "create" \/ (AtEnd /\ ret # 0)
    /\ writerpc = "exited" /\ ~stopfillqueue /\ ret = 0 => archfile = "complete"

\* Nothing has gone wrong so far.
Clean ==
    /\ ~totalerr /\ ~fatal
    /\ IF AtEnd THEN ret = 0 ELSE ~get_interrupted

\* As long as nothing goes wrong, what the walk has passed is queued, or in hand.
SavedInv ==
    Clean /\ ~Fault("ignored") =>
        \A f \in DOMAIN Trees : \A i \in DOMAIN Trees[f] : Passed(f, i) =>
            \/ \E p \in DOMAIN sent : IsAt(Trees[f][i], sent, "clear", p)
            \/ f = fsi /\ \E k \in DOMAIN regmulti : regmulti[k] = Trees[f][i].id

SaveWholeInv == OnceInv /\ InHandInv /\ WalkEndInv /\ SavedInv

\* oper_save() returns, whatever its files, its writer and its user do.
SaveEnds == <>(mainpc = "done")

=============================================================================
