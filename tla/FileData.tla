------------------------------ MODULE FileData ------------------------------
(***************************************************************************)
(* What becomes of the contents of files: oper_save.c walks a directory    *)
(* and turns each entry into headers and blocks (large files one by one,   *)
(* small files in groups of regmulti.c, links by the dictionary of         *)
(* dichl.c), thread_comp.c packs the blocks, and oper_restore.c rebuilds   *)
(* the files from them with datafile.c.                                    *)
(*                                                                         *)
(* Bytes are members of a small set, and the checksum of a file is its     *)
(* contents: two files have the same md5sum only if they are equal.  The   *)
(* queue is the sequence `archive': SavePipeline and RestorePipeline show  *)
(* that the threads deliver the items in this order (TransferSpec).        *)
(***************************************************************************)
EXTENDS Integers, Sequences, FiniteSets

CONSTANTS
    Options,            \* the command lines: see OptionType
    Devs,               \* the devices that are mounted below the directory
    DataBlockSize,      \* g_options.datablocksize
    SmallFileThresh,    \* g_options.smallfilethresh
    MaxSmallFiles,      \* FSA_MAX_SMALLFILECOUNT
    Faults,             \* the calls that may fail
    MaxFaults           \* a bound: how many of them do

\* fsarchiver.c:337 makes the threshold a quarter of a block; that a small
\* file fits into an empty block is all that the grouping relies on.
ASSUME SizesAssumption ==
    /\ DataBlockSize \in Nat \ {0}
    /\ SmallFileThresh \in 0 .. DataBlockSize
    /\ MaxSmallFiles \in Nat \ {0}

ASSUME BoundsAssumption == MaxFaults \in Nat

\* What the libraries of the options may answer (results), how many entries
\* the directory has (files), and the patterns of contents that they have.
OptionType(o) ==
    /\ o.algo \in {"zstd", "lzma"}
    /\ o.results \in [{"zstd", "lzma"} -> {"smaller", "larger", "enomem", "unknown"}]
    /\ o.results["zstd"] # "enomem"           \* comp_zstd.c has no such answer
    /\ o.encrypt \in BOOLEAN
    /\ o.password \in {"right", "wrong", "none"}
    /\ o.files \in Nat
    /\ \A p \in o.patterns : p \in Seq({0, 1})

ASSUME OptionsAssumption == \A o \in Options : OptionType(o)

VARIABLES
    opt,        \* g_options
    tree,       \* the entries in the order of readdir(); an entry's path is its index
    dichl,      \* dichardlinks: (rdev, ino) -> path
    regmulti,   \* the group of small files that is being filled
    archive,    \* the items in the order in which they were queued
    saveerr,    \* the paths counted in stats.err_* by the save
    faulty,     \* the paths whose save or restore met a fault
    skipped,    \* the reader has passed over an item with a damaged header
    phase,      \* where the program is
    pos,        \* restore: the first item of the queue
    cur,        \* the large file that is being restored
    dest,       \* restored tree: path -> inode
    store,      \* restored inodes: inode -> contents
    counted,    \* the paths counted in stats.cnt_* by the restore
    resterr     \* the restore counted an error or was given up

savevars == <<tree, dichl, regmulti, archive, saveerr>>
restvars == <<pos, cur, dest, store, counted, resterr>>
vars == <<opt, savevars, faulty, skipped, phase, restvars>>

Paths == DOMAIN tree
Zeros(n) == [i \in 1 .. n |-> 0]
Fault(f) == f \in Faults /\ Cardinality(faulty) < MaxFaults
-----------------------------------------------------------------------------
(* The directory *)

\* The bytes of a file are zeros and bytes that no other file has.
Contents(pattern, name) == [i \in DOMAIN pattern |-> IF pattern[i] = 0 THEN 0 ELSE name]

Node == [type |-> "NODE", dev |-> "", ino |-> 0, nlink |-> 1, data |-> <<>>, sparse |-> FALSE]

\* A file seen for the first time: no two files of a device have the same
\* number; files of two devices may.  Only a file with zeros can have holes.
NewFiles ==
    LET n == Len(tree) + 1
        used(dev) == {tree[i].ino : i \in {j \in DOMAIN tree : tree[j].dev = dev}}
        ids == {id \in Devs \X (1 .. n) :
                   /\ id[2] \notin used(id[1])
                   /\ id[2] = n \/ \E dev \in Devs : id[2] \in used(dev)}
        files == {[type |-> "FILE", dev |-> id[1], ino |-> id[2], nlink |-> links,
                   data |-> Contents(p, n), sparse |-> holes] :
                      id \in ids, links \in {1, 2}, p \in opt.patterns, holes \in BOOLEAN}
    IN {f \in files : f.sparse => \E i \in DOMAIN f.data : f.data[i] = 0}

\* One more link to a file that has another one outside what was seen so far
MoreLinks ==
    {tree[i] : i \in {j \in DOMAIN tree :
        Cardinality({k \in DOMAIN tree : /\ tree[k].dev = tree[j].dev
                                         /\ tree[k].ino = tree[j].ino}) < tree[j].nlink}}

SameFile(i, j) == /\ tree[i].type = "FILE" /\ tree[j].type = "FILE"
                  /\ tree[i].dev = tree[j].dev /\ tree[i].ino = tree[j].ino
-----------------------------------------------------------------------------
(* Packing a block: compress_block_generic() and decompress_block_generic() *)

\* At most two attempts: if the memory does not suffice for another algorithm
\* than the default one, the default one is tried.  A block that does not get
\* smaller is stored as it is.
Attempt(algo) ==
    LET retry == opt.results[algo] = "enomem" /\ algo # "zstd"
        last == IF retry THEN "zstd" ELSE algo
    IN IF opt.results[last] = "smaller" THEN last ELSE "none"

\* The header of the block says how it was packed.
compress_block_generic(data) ==
    [algo |-> Attempt(opt.algo), crypt |-> opt.encrypt,
     packed |-> [algo |-> Attempt(opt.algo), crypt |-> opt.encrypt, data |-> data]]

\* The data of a block as the main thread gets them: archreader_read_block()
\* replaces a block with a bad checksum by zeros, and so does
\* decompress_block_generic() if the library fails.
decompress_block_generic(b) ==
    LET f == b.form
    IN CASE b.damaged -> Zeros(b.size)
         [] ~b.damaged /\ f.algo = f.packed.algo /\ f.crypt = f.packed.crypt -> f.packed.data
         [] OTHER -> IF f.algo = "none" THEN [i \in 1 .. b.size |-> "junk"] ELSE Zeros(b.size)
-----------------------------------------------------------------------------
(* The items of the archive *)

Header(magic, path, objtype, size) ==
    [kind |-> "HEADER", magic |-> magic, path |-> path, objtype |-> objtype, size |-> size,
     sparse |-> FALSE, link |-> 0, md5 |-> <<>>, count |-> 0, offset |-> 0]

\* `of' is not in the archive: the paths that have data in the block
Block(data, off, of) ==
    [kind |-> "BLOCK", off |-> off, size |-> Len(data), damaged |-> FALSE, of |-> of,
     form |-> compress_block_generic(data)]

\* createar_obj_regfile_unique(): the blocks of a file of these contents
Blocks(data, path) ==
    LET n == (Len(data) + DataBlockSize - 1) \div DataBlockSize
        upto(k) == IF k * DataBlockSize < Len(data) THEN k * DataBlockSize ELSE Len(data)
    IN [k \in 1 .. n |-> Block(SubSeq(data, (k - 1) * DataBlockSize + 1, upto(k)),
                               (k - 1) * DataBlockSize, {path})]
-----------------------------------------------------------------------------
(* Groups of small files: regmulti.c *)

regmulti_empty == [heads |-> <<>>, data |-> <<>>]

\* Faulty variant: the size of the new file is left out.
regmulti_save_enough_space_for_new_file_Used(m, size) ==
    Len(m.heads) < MaxSmallFiles /\ Len(m.data) <= DataBlockSize

regmulti_save_enough_space_for_new_file(m, size) ==
    Len(m.heads) < MaxSmallFiles /\ Len(m.data) + size <= DataBlockSize

\* regmulti_save_addfile() checks both limits once more.
regmulti_save_addfile_fits(m, data) ==
    Len(m.heads) < MaxSmallFiles /\ Len(m.data) + Len(data) <= DataBlockSize

regmulti_save_addfile(m, head, data) ==
    IF regmulti_save_addfile_fits(m, data)
    THEN [heads |-> Append(m.heads, head), data |-> m.data \o data]
    ELSE m

\* Faulty variant: the size is added before the offset is written.
Offsets_After(heads) ==
    LET off[i \in 0 .. Len(heads)] == IF i = 0 THEN 0 ELSE off[i - 1] + heads[i].size
    IN off

\* Where the data of each file begin, by the sizes in the headers
Offsets(heads) ==
    LET off[i \in 1 .. Len(heads)] == IF i = 1 THEN 0 ELSE off[i - 1] + heads[i - 1].size
    IN off

\* What is queued for a group: the headers, then the block
regmulti_save_enqueue(m) ==
    IF m.heads = <<>> THEN <<>>
    ELSE [i \in DOMAIN m.heads |->
             [m.heads[i] EXCEPT !.count = Len(m.heads), !.offset = Offsets(m.heads)[i]]]
         \o <<Block(m.data, 0, {m.heads[i].path : i \in DOMAIN m.heads})>>

\* regmulti_rest_getfile() copies without a look at the size of the block:
\* beyond it the buffer holds whatever was there.
regmulti_rest_getfile(head, data) ==
    [i \in 1 .. head.size |->
        IF head.offset + i \in DOMAIN data THEN data[head.offset + i] ELSE "junk"]
-----------------------------------------------------------------------------
(* Saving: createar_save_file(), one action for each kind of object *)

\* The path of the entry that is saved
Path == Len(tree) + 1

\* The key of the dictionary of links: st_rdev is 0 for a regular file.
LinkKey(st) == <<0, st.ino>>

\* createar_item_stdattr(): the kind of the object
createar_item_stdattr(st) ==
    CASE st.type = "NODE" -> "NODE"
      [] st.type = "FILE" /\ st.nlink > 1 /\ LinkKey(st) \in DOMAIN dichl -> "HARDLINK"
      [] OTHER -> IF Len(st.data) > 0 /\ Len(st.data) < SmallFileThresh /\ st.nlink = 1
                  THEN "REGFILEMULTI" ELSE "REGFILEUNIQUE"

\* Faulty variant: no link is noted.
NoteLink_Never(st) == UNCHANGED dichl

\* ... and its note of the first link of a file, before anything is saved
NoteLink(st) ==
    dichl' = IF st.type = "FILE" /\ st.nlink > 1 /\ LinkKey(st) \notin DOMAIN dichl
             THEN [k \in DOMAIN dichl \cup {LinkKey(st)} |->
                      IF k = LinkKey(st) THEN Path ELSE dichl[k]]
             ELSE dichl

\* The object is left out, or cut short, and an error counted.
SaveFailed ==
    /\ saveerr' = saveerr \cup {Path}
    /\ faulty' = faulty \cup {Path}

\* The extended attributes of an object cannot be saved: nothing is queued.
save_noattr(st) ==
    /\ Fault("attr")
    /\ SaveFailed
    /\ UNCHANGED <<regmulti, archive>>

\* A directory, symbolic link or special file
save_node(st) ==
    /\ createar_item_stdattr(st) = "NODE"
    /\ archive' = Append(archive, Header("OBJT", Path, "NODE", 0))
    /\ UNCHANGED <<regmulti, saveerr, faulty>>

save_hardlink(st) ==
    /\ createar_item_stdattr(st) = "HARDLINK"
    /\ archive' = Append(archive, [Header("OBJT", Path, "HARDLINK", Len(st.data))
                                      EXCEPT !.link = dichl[LinkKey(st)]])
    /\ UNCHANGED <<regmulti, saveerr, faulty>>

\* What is read from a file: all of it, or less if it has become shorter since
\* its size was read; the rest is filled with zeros.
Truncated(data) == {SubSeq(data, 1, k) \o Zeros(Len(data) - k) : k \in 0 .. Len(data) - 1}

UniqueItems(st, data) ==
    <<[Header("OBJT", Path, "REGFILEUNIQUE", Len(data)) EXCEPT !.sparse = st.sparse]>>
        \o Blocks(data, Path)

FileFooter(data) ==
    IF data = <<>> THEN <<>> ELSE <<[Header("FILF", 0, "", 0) EXCEPT !.md5 = data]>>

\* createar_obj_regfile_unique(): a file that cannot be opened leaves nothing,
\* a read error leaves a header and some blocks without a footer.
save_unique(st) ==
    /\ createar_item_stdattr(st) = "REGFILEUNIQUE"
    /\ \/ /\ archive' = archive \o UniqueItems(st, st.data) \o FileFooter(st.data)
          /\ UNCHANGED <<saveerr, faulty>>
       \/ /\ Fault("truncate")
          /\ \E data \in Truncated(st.data) :
                archive' = archive \o UniqueItems(st, data) \o FileFooter(data)
          /\ SaveFailed
       \/ /\ Fault("open")
          /\ SaveFailed
          /\ UNCHANGED archive
       \/ /\ Fault("read")
          /\ \E k \in DOMAIN Blocks(st.data, Path) :
                archive' = archive \o SubSeq(UniqueItems(st, st.data), 1, k)
          /\ SaveFailed
    /\ UNCHANGED regmulti

\* createar_obj_regfile_multi() after the file has been read
AddSmall(st, data, failed) ==
    LET head == [Header("OBJT", Path, "REGFILEMULTI", Len(st.data))
                    EXCEPT !.sparse = st.sparse, !.md5 = data]
        room == regmulti_save_enough_space_for_new_file(regmulti, Len(st.data))
        m == IF room THEN regmulti ELSE regmulti_empty
    IN /\ archive' = IF room THEN archive ELSE archive \o regmulti_save_enqueue(regmulti)
       /\ regmulti' = regmulti_save_addfile(m, head, data)
       /\ saveerr' = IF failed \/ ~regmulti_save_addfile_fits(m, data)
                     THEN saveerr \cup {Path} ELSE saveerr

save_multi(st) ==
    /\ createar_item_stdattr(st) = "REGFILEMULTI"
    /\ \/ AddSmall(st, st.data, FALSE) /\ UNCHANGED faulty
       \/ /\ Fault("truncate")
          /\ \E data \in Truncated(st.data) : AddSmall(st, data, TRUE)
          /\ faulty' = faulty \cup {Path}
       \/ /\ Fault("open") \/ Fault("read")
          /\ SaveFailed
          /\ UNCHANGED <<archive, regmulti>>

\* The next entry of the directory
save_entry ==
    /\ phase = "walk"
    /\ Len(tree) < opt.files
    /\ \E st \in {Node} \cup NewFiles \cup MoreLinks :
          /\ tree' = Append(tree, st)
          /\ NoteLink(st)
          /\ \/ save_noattr(st)
             \/ save_node(st)
             \/ save_hardlink(st)
             \/ save_unique(st)
             \/ save_multi(st)
    /\ UNCHANGED <<opt, skipped, phase, restvars>>

\* createar_save_directory_wrapper() queues the last group; the DATF header
\* ends the tree.
save_end ==
    /\ phase = "walk"
    /\ archive' = archive \o regmulti_save_enqueue(regmulti) \o <<Header("DATF", 0, "", 0)>>
    /\ regmulti' = regmulti_empty
    /\ phase' = "saved"
    /\ UNCHANGED <<opt, skipped, tree, dichl, saveerr, faulty, restvars>>

\* The data of a block are damaged in the archive.
damage ==
    /\ phase = "saved"
    /\ Fault("damage")
    /\ \E k \in DOMAIN archive :
          /\ archive[k].kind = "BLOCK" /\ ~archive[k].damaged
          /\ archive' = [archive EXCEPT ![k].damaged = TRUE]
          /\ faulty' = faulty \cup archive[k].of
    /\ UNCHANGED <<opt, skipped, tree, dichl, regmulti, saveerr, phase, restvars>>

\* The header of an item is damaged: the reader goes on with the next one.
lose ==
    /\ phase = "saved"
    /\ Fault("lose")
    /\ \E k \in DOMAIN archive :
          archive' = SubSeq(archive, 1, k - 1) \o SubSeq(archive, k + 1, Len(archive))
    /\ skipped' = TRUE
    /\ faulty' = Paths
    /\ UNCHANGED <<opt, tree, dichl, regmulti, saveerr, phase, restvars>>
-----------------------------------------------------------------------------
(* Restoring into an empty directory *)

Goto(p) == phase' = p
NoItem == pos > Len(archive)
IsHeader == ~NoItem /\ archive[pos].kind = "HEADER"
IsBlock == ~NoItem /\ archive[pos].kind = "BLOCK"
Take == pos' = pos + 1

\* extractar_read_mainhead() decrypts a test buffer with the password.
rest_mainhead ==
    /\ phase = "saved"
    /\ IF opt.encrypt /\ opt.password # "right"
       THEN Goto("end") /\ resterr' = TRUE
       ELSE Goto("objects") /\ UNCHANGED resterr
    /\ UNCHANGED <<opt, skipped, savevars, faulty, pos, cur, dest, store, counted>>

\* extractar_extract_read_objects(): what is neither an object nor the end is
\* skipped; the queue may end too early.
rest_skip ==
    /\ phase = "objects"
    /\ \/ /\ NoItem
          /\ Goto("end") /\ resterr' = TRUE
          /\ UNCHANGED pos
       \/ /\ IsHeader /\ archive[pos].magic = "DATF"
          /\ Goto("end")
          /\ UNCHANGED <<pos, resterr>>
       \/ /\ IsBlock \/ (IsHeader /\ archive[pos].magic = "FILF")
          /\ Take
          /\ UNCHANGED <<phase, resterr>>
    /\ UNCHANGED <<opt, skipped, savevars, faulty, cur, dest, store, counted>>

IsObject(objtype) ==
    /\ phase = "objects"
    /\ IsHeader /\ archive[pos].magic = "OBJT" /\ archive[pos].objtype = objtype

\* Functions with one more or one less element
With(f, x, v) == [y \in DOMAIN f \cup {x} |-> IF y = x THEN v ELSE f[y]]
Without(f, x) == [y \in DOMAIN f \ {x} |-> f[y]]

\* A new inode is named after the path it is created at.
Create(path, data) == dest' = With(dest, path, path) /\ store' = With(store, path, data)

Counted(path) == counted' = counted \cup {path} /\ UNCHANGED <<resterr, faulty>>
Failed(path) == resterr' = TRUE /\ faulty' = faulty \cup {path} /\ UNCHANGED counted

\* extractar_restore_obj_directory(), _symlink() and _devfile()
rest_node ==
    /\ IsObject("NODE")
    /\ Take
    /\ LET path == archive[pos].path
       IN \/ Create(path, <<>>) /\ Counted(path)
          \/ Fault("attr") /\ Create(path, <<>>) /\ Failed(path)
          \/ Fault("create") /\ Failed(path) /\ UNCHANGED <<dest, store>>
    /\ UNCHANGED <<opt, skipped, savevars, phase, cur>>

\* extractar_restore_obj_hardlink(): link() needs the first path.
rest_hardlink ==
    /\ IsObject("HARDLINK")
    /\ Take
    /\ LET path == archive[pos].path
           first == archive[pos].link
       IN \/ /\ first \in DOMAIN dest
             /\ dest' = With(dest, path, dest[first])
             /\ Counted(path) \/ (Fault("attr") /\ Failed(path))
          \/ /\ first \notin DOMAIN dest
             /\ resterr' = TRUE
             /\ UNCHANGED <<dest, counted, faulty>>
          \/ Fault("create") /\ Failed(path) /\ UNCHANGED dest
    /\ UNCHANGED <<opt, skipped, savevars, phase, cur, store>>
-----------------------------------------------------------------------------
(* A group of small files: extractar_restore_obj_regfile_multi() *)

\* The headers of the group and the block that follows them, as they are
\* found in the queue
GroupHeads == [i \in 1 .. archive[pos].count |-> archive[pos + i - 1]]
GroupBlock == archive[pos + archive[pos].count]
GroupIsThere ==
    /\ archive[pos].count <= MaxSmallFiles
    /\ pos + archive[pos].count <= Len(archive)
    /\ \A i \in 1 .. archive[pos].count - 1 :
          archive[pos + i].kind = "HEADER" /\ archive[pos + i].magic = "OBJT"
    /\ GroupBlock.kind = "BLOCK"
    /\ GroupBlock.size <= DataBlockSize

\* What is written to the file of a header: a file whose checksum is wrong is
\* emptied, and nothing is done for a header that is not of a small file.
SmallFile(h) == regmulti_rest_getfile(h, decompress_block_generic(GroupBlock))
Sound(h) == h.objtype = "REGFILEMULTI" /\ SmallFile(h) = h.md5

\* The files of these headers are created, and counted if they are sound and
\* get their attributes.
WriteSmall(heads, noattr) ==
    LET paths == {h.path : h \in {g \in heads : g.objtype = "REGFILEMULTI"}}
        contents(p) == LET h == CHOOSE g \in heads : g.path = p
                       IN IF Sound(h) THEN SmallFile(h) ELSE <<>>
    IN /\ dest' = [p \in DOMAIN dest \cup paths |-> IF p \in paths THEN p ELSE dest[p]]
       /\ store' = [p \in DOMAIN store \cup paths |-> IF p \in paths THEN contents(p) ELSE store[p]]
       /\ counted' = counted \cup {h.path : h \in {g \in heads \ noattr : Sound(g)}}

\* The files of the group are created one by one.  One of them may not be
\* opened or not get its attributes, or not be written: then it is removed and
\* all is given up.
rest_group ==
    /\ IsObject("REGFILEMULTI")
    /\ GroupIsThere
    /\ pos' = pos + archive[pos].count + 1
    /\ LET heads(n) == {GroupHeads[i] : i \in 1 .. n}
           all == heads(archive[pos].count)
       IN \/ /\ WriteSmall(all, {})
             /\ resterr' = (resterr \/ \E h \in all : ~Sound(h))
             /\ UNCHANGED <<phase, faulty>>
          \/ /\ Fault("create")
             /\ \E bad \in all :
                   WriteSmall(all \ {bad}, {}) /\ faulty' = faulty \cup {bad.path}
             /\ resterr' = TRUE
             /\ UNCHANGED phase
          \/ /\ Fault("attr")
             /\ \E bad \in all : WriteSmall(all, {bad}) /\ faulty' = faulty \cup {bad.path}
             /\ resterr' = TRUE
             /\ UNCHANGED phase
          \/ /\ Fault("nospace")
             /\ \E n \in 1 .. archive[pos].count : WriteSmall(heads(n - 1), {})
             /\ resterr' = TRUE
             /\ faulty' = Paths
             /\ Goto("end")
    /\ UNCHANGED <<opt, skipped, savevars, cur>>

\* The group is not what its first header says: fatal
rest_group_lost ==
    /\ IsObject("REGFILEMULTI")
    /\ ~GroupIsThere
    /\ resterr' = TRUE
    /\ Goto("end")
    /\ UNCHANGED <<opt, skipped, savevars, faulty, pos, cur, dest, store, counted>>
-----------------------------------------------------------------------------
(* A large or empty file: extractar_restore_obj_regfile_unique() *)

NoFile == [head |-> Header("", 0, "", 0), filepos |-> 0, fd |-> <<>>, fdpos |-> 0, md5 |-> <<>>,
           minorerr |-> FALSE, fatalerr |-> FALSE, delfile |-> FALSE]

\* datafile_open_write(): the file is created empty.
rest_file_open ==
    /\ IsObject("REGFILEUNIQUE")
    /\ Take
    /\ LET head == archive[pos]
       IN \/ /\ Create(head.path, <<>>)
             /\ cur' = [NoFile EXCEPT !.head = head]
             /\ Goto("blocks")
             /\ UNCHANGED faulty
          \/ /\ Fault("create")
             /\ cur' = [NoFile EXCEPT !.head = head, !.minorerr = TRUE]
             /\ faulty' = faulty \cup {head.path}
             /\ Goto("footer")
             /\ UNCHANGED <<dest, store>>
    /\ UNCHANGED <<opt, skipped, savevars, counted, resterr>>

\* datafile_write(): zeros of a sparse file are skipped by lseek64(); a write
\* behind the end of the file fills the gap with zeros.
datafile_write(f, data) ==
    LET hole == f.head.sparse /\ data = Zeros(Len(data))
    IN [f EXCEPT !.fd = IF hole THEN @ ELSE @ \o Zeros(f.fdpos - Len(@)) \o data,
                 !.fdpos = @ + Len(data),
                 !.md5 = @ \o data]

\* A block of the file, which must be at the right offset
rest_file_block ==
    /\ phase = "blocks"
    /\ cur.filepos < cur.head.size
    /\ LET lost == [cur EXCEPT !.minorerr = TRUE, !.delfile = TRUE]
       IN \/ /\ IsBlock /\ archive[pos].off = cur.filepos
             /\ Take
             /\ cur' = [datafile_write(cur, decompress_block_generic(archive[pos]))
                           EXCEPT !.filepos = @ + archive[pos].size]
             /\ UNCHANGED <<phase, faulty>>
          \/ /\ IsBlock /\ archive[pos].off = cur.filepos /\ Fault("nospace")
             /\ Take
             /\ cur' = [lost EXCEPT !.fatalerr = TRUE]
             /\ faulty' = Paths
             /\ Goto("footer")
          \/ /\ IsBlock /\ archive[pos].off # cur.filepos
             /\ Take
             /\ cur' = lost /\ Goto("footer")
             /\ UNCHANGED faulty
          \/ /\ ~IsBlock
             /\ cur' = lost /\ Goto("footer")
             /\ UNCHANGED <<pos, faulty>>
    /\ UNCHANGED <<opt, skipped, savevars, dest, store, counted, resterr>>

\* Faulty variant: a sparse file is not extended to its size.
rest_file_close_NoTruncate ==
    /\ phase = "blocks"
    /\ cur.filepos >= cur.head.size
    /\ store' = [store EXCEPT ![cur.head.path] = cur.fd]
    /\ Goto("footer")
    /\ UNCHANGED <<opt, skipped, savevars, faulty, pos, cur, dest, counted, resterr>>

\* datafile_close(): ftruncate() gives a sparse file its size.  Then the
\* attributes are restored.
rest_file_close ==
    /\ phase = "blocks"
    /\ cur.filepos >= cur.head.size
    /\ store' = [store EXCEPT ![cur.head.path] = cur.fd \o Zeros(cur.fdpos - Len(cur.fd))]
    /\ \/ UNCHANGED <<cur, faulty>>
       \/ /\ Fault("attr")
          /\ cur' = [cur EXCEPT !.minorerr = TRUE]
          /\ faulty' = faulty \cup {cur.head.path}
    /\ Goto("footer")
    /\ UNCHANGED <<opt, skipped, savevars, pos, dest, counted, resterr>>

\* The next header is taken for the footer, whatever it is.
rest_file_footer ==
    /\ phase = "footer"
    /\ IF cur.fatalerr \/ cur.head.size = 0
       THEN UNCHANGED <<pos, cur>>
       ELSE \/ /\ IsHeader
               /\ Take
               /\ LET foot == archive[pos]
                      wrong == foot.magic = "FILF" /\ foot.md5 # cur.md5
                  IN cur' = [cur EXCEPT !.minorerr = @ \/ foot.magic # "FILF" \/ wrong,
                                        !.delfile = @ \/ wrong]
            \/ /\ ~IsHeader
               /\ cur' = [cur EXCEPT !.minorerr = TRUE]
               /\ UNCHANGED pos
    /\ Goto("fileend")
    /\ UNCHANGED <<opt, skipped, savevars, faulty, dest, store, counted, resterr>>

rest_file_end ==
    /\ phase = "fileend"
    /\ LET path == cur.head.path
       IN /\ dest' = IF cur.delfile THEN Without(dest, path) ELSE dest
          /\ counted' = IF cur.minorerr THEN counted ELSE counted \cup {path}
    /\ resterr' = (resterr \/ cur.minorerr)
    /\ cur' = NoFile
    /\ Goto(IF cur.fatalerr THEN "end" ELSE "objects")
    /\ UNCHANGED <<opt, skipped, savevars, faulty, pos, store>>
-----------------------------------------------------------------------------
Init ==
    /\ opt \in Options
    /\ tree = <<>> /\ dichl = <<>> /\ regmulti = regmulti_empty
    /\ archive = <<>> /\ saveerr = {} /\ faulty = {} /\ skipped = FALSE
    /\ phase = "walk" /\ pos = 1 /\ cur = NoFile
    /\ dest = <<>> /\ store = <<>> /\ counted = {} /\ resterr = FALSE

Restore ==
    \/ rest_mainhead \/ rest_skip \/ rest_node \/ rest_hardlink
    \/ rest_group \/ rest_group_lost
    \/ rest_file_open \/ rest_file_block \/ rest_file_close
    \/ rest_file_footer \/ rest_file_end

\* The program has come to its end.
Ended == phase = "end" /\ UNCHANGED vars

Next == save_entry \/ save_end \/ damage \/ lose \/ Restore \/ Ended

Spec == Init /\ [][Next]_vars
-----------------------------------------------------------------------------
(* Properties *)

\* The type of every variable
FileDataTypeOK ==
    /\ opt \in Options
    /\ phase \in {"walk", "saved", "objects", "blocks", "footer", "fileend", "end"}
    /\ Len(tree) <= opt.files
    /\ \A k \in DOMAIN dichl : dichl[k] \in Paths
    /\ \A k \in DOMAIN archive : archive[k].kind \in {"HEADER", "BLOCK"}
    /\ Len(regmulti.heads) <= MaxSmallFiles /\ Len(regmulti.data) <= DataBlockSize
    /\ pos \in 1 .. Len(archive) + 1
    /\ saveerr \subseteq Paths /\ faulty \subseteq Paths /\ counted \subseteq Paths
    /\ DOMAIN dest \subseteq Paths /\ \A p \in DOMAIN dest : dest[p] \in DOMAIN store
    /\ resterr \in BOOLEAN

\* Two paths are links to one file, or the same path.
Linked(p, q) == p = q \/ SameFile(p, q)

\* A path that the restore counts as a success leads to the contents that its
\* file had in the directory, unless the save said that it could not read them:
\* whatever the way the file was stored, in holes, in a group, packed by the
\* algorithm of the second attempt, or as a link (stats.cnt_regfile and
\* cnt_hardlink of oper_restore.c).
CountedIsRight ==
    \A p \in counted :
        (~\E q \in saveerr : Linked(p, q)) =>
            p \in DOMAIN dest /\ store[dest[p]] = tree[p].data

\* If no header is damaged and neither operation counts an error, the restored
\* tree is the saved one: the same paths, the same contents, and two paths are
\* links to one file if they were before (createar_item_stdattr() and
\* extractar_restore_obj_hardlink()).
CleanRoundTrip ==
    phase = "end" /\ ~skipped /\ saveerr = {} /\ ~resterr =>
        /\ DOMAIN dest = Paths
        /\ \A p \in Paths : store[dest[p]] = tree[p].data
        /\ \A p, q \in Paths : dest[p] = dest[q] <=> Linked(p, q)

\* A read error has left a file without some of its blocks and its footer.
CutShort ==
    \E k \in DOMAIN archive :
        /\ archive[k].kind = "HEADER" /\ archive[k].objtype = "REGFILEUNIQUE"
        /\ archive[k].size > 0
        /\ ~\E m \in k + 1 .. Len(archive) :
              /\ archive[m].kind = "HEADER" /\ archive[m].magic = "FILF"
              /\ \A n \in k + 1 .. m - 1 : archive[n].kind = "BLOCK"

\* A failure costs the file that it happened to and its links, and no other
\* file of the tree (README: "In case one file is damaged, FSArchiver will
\* restore all the other files from your archive").
FailureCostsOne ==
    phase = "end" /\ ~skipped /\ ~(opt.encrypt /\ opt.password # "right") =>
        \A p \in Paths : (~\E q \in faulty : Linked(p, q)) => p \in counted

\* ... in a group, next to a damaged block, or after an object that was left
\* out (the errors of createar_save_file() and extractar_restore_object() that
\* are not fatal).  A read error in the middle of a large file is the
\* exception.
OnlyFailedIsLost == ~CutShort => FailureCostsOne

\* A link comes after the file it refers to, although small files are queued
\* later than they are read: link() would fail (the comment on hard links in
\* createar_item_stdattr()).
LinkAfterFile ==
    \A k \in DOMAIN archive : archive[k].kind = "HEADER" /\ archive[k].objtype = "HARDLINK" =>
        /\ \A m \in DOMAIN archive :
              archive[m].kind = "HEADER" /\ archive[m].path = archive[k].link => m < k
        /\ \A i \in DOMAIN regmulti.heads : regmulti.heads[i].path # archive[k].link

\* The offsets and sizes in the headers of a group name parts of the block
\* after them that do not overlap: regmulti_rest_getfile() copies them without
\* a check, into a buffer for one small file.
GroupInBounds ==
    LET small(k) == archive[k].kind = "HEADER" /\ archive[k].objtype = "REGFILEMULTI"
        block(k) == CHOOSE m \in k .. Len(archive) :
                        /\ archive[m].kind = "BLOCK"
                        /\ \A n \in k .. m - 1 : archive[n].kind # "BLOCK"
        part(k) == archive[k].offset + 1 .. archive[k].offset + archive[k].size
    IN ~skipped => \A k \in {j \in DOMAIN archive : small(j)} :
        /\ part(k) \subseteq 1 .. archive[block(k)].size
        /\ archive[k].size < SmallFileThresh
        /\ \A m \in {j \in DOMAIN archive : small(j)} :
              m # k /\ block(m) = block(k) => part(m) \cap part(k) = {}

\* At every moment of the save the items that are queued, and those that wait
\* in a group, can be restored in the order they have: every variable has its
\* type, links follow their files, and groups name parts of their block.
ArchiveIsRestorable ==
    /\ FileDataTypeOK
    /\ LinkAfterFile
    /\ GroupInBounds

=============================================================================
