------------------------------ MODULE Volumes ------------------------------
(***************************************************************************)
(* The volumes of an archive: archwriter.c writes them, option -s splits    *)
(* them, archwriter_remove() deletes them after a failure, archreader.c     *)
(* puts them together again.  One archive is saved, where an older one may   *)
(* have left volumes, then what is found is restored.  The items are those   *)
(* that the writer thread takes from the queue (SavePipeline) and the reader *)
(* thread puts there (RestorePipeline).                                      *)
(***************************************************************************)
EXTENDS Naturals, Sequences

CONSTANTS
    Options,        \* g_options: values of [overwrite, splitsize]
    HeaderSizes,    \* sizes of a header
    BlockSizes,     \* sizes of the data of a block, after compression
    MaxItems,       \* bound: number of items in the archive
    OldVolumes,     \* the volumes of an older archive with the same name
    Faults          \* what may go wrong in this instance

AllFaults == {"create", "write", "unlink", "crash", "moved"}

\* Option -s counts in megabytes: a volume has room for more than its header.
ASSUME VolumesAssumption ==
    /\ Options \subseteq [overwrite: BOOLEAN, splitsize: Nat \ {1}]
    /\ HeaderSizes \subseteq Nat \ {0} /\ 1 \in HeaderSizes
    /\ BlockSizes \subseteq Nat \ {0}
    /\ MaxItems \in Nat \ {0}
    /\ Len(OldVolumes) <= MaxItems
    /\ Faults \subseteq AllFaults

Fault(f) == f \in Faults

\* get_path_to_volume(): the path of the archive, which ends in ".fsa", for
\* the first volume; the number replaces the end of the extension for others.
get_path_to_volume(curvol) == IF curvol = 0 THEN <<"fsa">> ELSE <<"f", curvol>>

\* Where the user may have put a volume.
Elsewhere == <<"elsewhere">>

Paths == {get_path_to_volume(n) : n \in 0 .. MaxItems} \cup {Elsewhere}

\* What is written in a volume: headers with the id of their archive, and the
\* data of blocks.  Of the dictionary of a header the number of the volume or
\* of the item and the flag of a last volume are kept.
Entry == [magic: {"VOLH", "VOLF", "MAIN", "HEAD", "BLKH", "DATA"},
          archid: {"old", "new"}, num: Nat, lastvol: BOOLEAN]

ItemEntry(magic, id, n) == [magic |-> magic, archid |-> id, num |-> n, lastvol |-> FALSE]
VolHeader(id, n) == [magic |-> "VOLH", archid |-> id, num |-> n, lastvol |-> FALSE]
VolFooter(id, n, isLast) == [magic |-> "VOLF", archid |-> id, num |-> n, lastvol |-> isLast]

\* What archwriter.c writes in one volume, up to the point where it stopped: f
\* follows e, and the items are numbered one after the other.
EndOfItem(e) == e.magic \in {"MAIN", "HEAD", "DATA"}

Follows(e, f) ==
    \/ e.magic = "VOLH" /\ f.magic \in {"HEAD", "BLKH"}
    \/ e.magic = "VOLH" /\ f.magic = "MAIN" /\ f.num = 1
    \/ e.magic = "VOLH" /\ f.magic = "VOLF" /\ e.num = 0
    \/ e.magic = "BLKH" /\ f.magic = "DATA" /\ f.num = e.num
    \/ EndOfItem(e) /\ f.magic \in {"HEAD", "BLKH"} /\ f.num = e.num + 1
    \/ EndOfItem(e) /\ f.magic = "VOLF"

WellFormed(d) ==
    /\ \A i \in 1 .. Len(d) : d[i].archid = d[1].archid /\ (d[i].magic = "VOLH" <=> i = 1)
    /\ \A i \in 1 .. Len(d) : i < Len(d) => Follows(d[i], d[i + 1])
    /\ \A i \in 1 .. Len(d) : d[i].magic = "VOLF" /\ ~d[i].lastvol => d[1].num < MaxItems
    /\ Len(d) > 1 /\ d[1].num = 0 => d[2].magic \in {"MAIN", "VOLF"}

\* A volume that ends with a footer, after at least one item.
Closed(d) == Len(d) > 2 /\ d[Len(d)].magic = "VOLF"

\* If e is the volume after d, it goes on where d ends.
GoesOn(d, e) ==
    Closed(d) /\ Len(e) > 1 /\ e[1].archid = d[1].archid /\ e[1].num = d[1].num + 1
    => e[2].num = d[Len(d) - 1].num + 1

\* The older archive was written by the same program.
ASSUME OldVolumesAssumption ==
    /\ OldVolumes \in Seq(Seq(Entry))
    /\ \A m \in DOMAIN OldVolumes :
          /\ OldVolumes[m] # <<>> /\ OldVolumes[m][1].archid = "old"
          /\ WellFormed(OldVolumes[m])
          /\ \A n \in DOMAIN OldVolumes : GoesOn(OldVolumes[m], OldVolumes[n])

VARIABLES
    options,    \* g_options
    present,    \* the paths where a file exists
    data,       \* what the file at a path holds
    cursize,    \* position in the volume that is being written
    wpc,        \* where the writer is
    curvol,     \* its current volume
    vollist,    \* the paths of the volumes it has created
    wb,         \* the buffer it is about to write
    count,      \* how many items it has written
    kept,       \* history: volumes that unlink() could not remove
    rpc,        \* where the reader is
    rvol,       \* its current volume
    rpath,      \* the path of that volume
    rpos,       \* its position in it
    rarchid,    \* the id of the archive, "none" before it is known
    endofarchive,
    got,        \* history: the items read
    mistyped    \* history: the user has typed the path of another file

filevars == <<present, data, cursize>>
writervars == <<wpc, curvol, vollist, wb, count, kept>>
readervars == <<rpc, rvol, rpath, rpos, rarchid, endofarchive, got, mistyped>>
vars == <<options, filevars, writervars, readervars>>

NoBuffer == [entries |-> <<>>, size |-> 0]

Init ==
    /\ options \in Options
    /\ present \in SUBSET {get_path_to_volume(n - 1) : n \in DOMAIN OldVolumes}
    /\ data = [p \in Paths |-> IF p \in present
                               THEN OldVolumes[CHOOSE n \in DOMAIN OldVolumes :
                                                 get_path_to_volume(n - 1) = p]
                               ELSE <<>>]
    /\ cursize = 0
    /\ wpc = "create" /\ curvol = 0 /\ vollist = <<>> /\ wb = NoBuffer
    /\ count = 0 /\ kept = {}
    /\ rpc = "idle" /\ rvol = 0 /\ rpath = get_path_to_volume(0) /\ rpos = 1
    /\ rarchid = "none" /\ endofarchive = FALSE /\ got = <<>> /\ mistyped = FALSE

-----------------------------------------------------------------------------
(* The writer: archwriter.c and writebuf.c *)

volpath == get_path_to_volume(curvol)

\* writebuf_add_header()
writebuf_add_header(magic, n, s) ==
    [entries |-> <<ItemEntry(magic, "new", n)>>, size |-> s]

\* writebuf_add_block(): the header of a block and its data, in one buffer
writebuf_add_block(n, s) ==
    [entries |-> <<ItemEntry("BLKH", "new", n), ItemEntry("DATA", "new", n)>>, size |-> 1 + s]

\* archwriter_write_buffer(): a full disk may cut the buffer short.
archwriter_write_buffer(buf, next) ==
    \/ /\ data' = [data EXCEPT ![volpath] = @ \o buf.entries]
       /\ cursize' = cursize + buf.size
       /\ wpc' = next
    \/ /\ Fault("write")
       /\ \E k \in 0 .. Len(buf.entries) - 1 :
             data' = [data EXCEPT ![volpath] = @ \o SubSeq(buf.entries, 1, k)]
       /\ wpc' = "failed"
       /\ UNCHANGED cursize        \* not used any more

\* Faulty variants: a file that exists is truncated whatever the options, or
\* only the first volume is remembered.
archwriter_create_NoCheck ==
    /\ wpc = "create"
    /\ present' = present \cup {volpath}
    /\ data' = [data EXCEPT ![volpath] = <<>>]
    /\ cursize' = 0
    /\ vollist' = Append(vollist, volpath)
    /\ wpc' = "volheader"
    /\ UNCHANGED <<options, curvol, wb, count, kept, readervars>>

archwriter_create_FirstOnly ==
    /\ wpc = "create"
    /\ volpath \notin present \/ options.overwrite
    /\ present' = present \cup {volpath}
    /\ data' = [data EXCEPT ![volpath] = <<>>]
    /\ cursize' = 0
    /\ vollist' = IF curvol = 0 THEN Append(vollist, volpath) ELSE vollist
    /\ wpc' = "volheader"
    /\ UNCHANGED <<options, curvol, wb, count, kept, readervars>>

archwriter_create ==
    /\ wpc = "create"
    /\ \/ /\ volpath \notin present \/ options.overwrite
          /\ present' = present \cup {volpath}
          /\ data' = [data EXCEPT ![volpath] = <<>>]
          /\ cursize' = 0
          /\ vollist' = Append(vollist, volpath)
          /\ wpc' = "volheader"
       \/ /\ (volpath \in present /\ ~options.overwrite) \/ Fault("create")
          /\ wpc' = "failed"
          /\ UNCHANGED <<filevars, vollist>>
    /\ UNCHANGED <<options, curvol, wb, count, kept, readervars>>

archwriter_write_volheader ==
    /\ wpc = "volheader"
    /\ archwriter_write_buffer([entries |-> <<VolHeader("new", curvol)>>, size |-> 1],
                               IF wb = NoBuffer THEN "next" ELSE "write")
    /\ UNCHANGED <<options, present, curvol, vollist, wb, count, kept, readervars>>

\* Faulty variant: only what is already written counts.
archwriter_split_check_SizeBefore(buf) ==
    options.splitsize > 0 /\ cursize > options.splitsize

\* archwriter_split_check()
archwriter_split_check(buf) ==
    options.splitsize > 0 /\ cursize + buf.size > options.splitsize

\* archwriter_dowrite_header() or archwriter_dowrite_block() up to the test of
\* archwriter_split_if_necessary().  The first item is the main header.
archwriter_dowrite ==
    /\ wpc = "next"
    /\ count < MaxItems
    /\ \E buf \in IF count = 0 THEN {writebuf_add_header("MAIN", 1, 1)}
                  ELSE {writebuf_add_header("HEAD", count + 1, s) : s \in HeaderSizes}
                       \cup {writebuf_add_block(count + 1, s) : s \in BlockSizes} :
          /\ wb' = buf
          /\ wpc' = IF archwriter_split_check(buf) THEN "split" ELSE "write"
    /\ UNCHANGED <<options, filevars, curvol, vollist, count, kept, readervars>>

\* Faulty variants: every volume says that it is the last one, or the number
\* of the volume stays the same.
archwriter_split_SameVolume ==
    /\ wpc = "split"
    /\ archwriter_write_buffer([entries |-> <<VolFooter("new", curvol, FALSE)>>, size |-> 1],
                               "create")
    /\ UNCHANGED <<options, present, curvol, vollist, wb, count, kept, readervars>>

archwriter_split_LastFlag ==
    /\ wpc = "split"
    /\ archwriter_write_buffer([entries |-> <<VolFooter("new", curvol, TRUE)>>, size |-> 1],
                               "create")
    /\ curvol' = IF wpc' = "create" THEN curvol + 1 ELSE curvol
    /\ UNCHANGED <<options, present, vollist, wb, count, kept, readervars>>

\* archwriter_split_if_necessary(): the footer, then the next volume.
archwriter_split ==
    /\ wpc = "split"
    /\ archwriter_write_buffer([entries |-> <<VolFooter("new", curvol, FALSE)>>, size |-> 1],
                               "create")
    /\ curvol' = IF wpc' = "create" THEN curvol + 1 ELSE curvol
    /\ UNCHANGED <<options, present, vollist, wb, count, kept, readervars>>

archwriter_write ==
    /\ wpc = "write"
    /\ archwriter_write_buffer(wb, "next")
    /\ count' = IF wpc' = "next" THEN count + 1 ELSE count
    /\ wb' = NoBuffer
    /\ UNCHANGED <<options, present, curvol, vollist, kept, readervars>>

\* The end of the queue: the footer of the last volume
archwriter_write_volfooter ==
    /\ wpc = "next"
    /\ archwriter_write_buffer([entries |-> <<VolFooter("new", curvol, TRUE)>>, size |-> 1],
                               "done")
    /\ UNCHANGED <<options, present, curvol, vollist, wb, count, kept, readervars>>

\* archwriter_remove(): the operation has failed, all volumes are deleted.
archwriter_remove ==
    /\ wpc \in {"done", "failed", "remove"}
    /\ rpc = "idle"
    /\ IF vollist = <<>>
       THEN wpc' = "removed" /\ UNCHANGED <<filevars, vollist, kept>>
       ELSE /\ wpc' = "remove"
            /\ vollist' = Tail(vollist)
            /\ \/ present' = present \ {Head(vollist)} /\ UNCHANGED kept
               \/ Fault("unlink") /\ kept' = kept \cup {Head(vollist)} /\ UNCHANGED present
            /\ UNCHANGED <<data, cursize>>
    /\ UNCHANGED <<options, curvol, wb, count, readervars>>

Writer ==
    \/ archwriter_create \/ archwriter_write_volheader \/ archwriter_dowrite
    \/ archwriter_split \/ archwriter_write \/ archwriter_write_volfooter
    \/ archwriter_remove

\* The program or the machine stops.  Volumes that have been closed are on
\* disk, because archwriter_close() calls fsync(); of the one that was open,
\* any part may be missing.
Crash ==
    /\ Fault("crash")
    /\ wpc \notin {"done", "failed", "removed", "crashed"}
    /\ wpc' = "crashed"
    /\ \E k \in 0 .. Len(data[volpath]) :
          \/ /\ wpc \in {"volheader", "next", "split", "write"}
             /\ data' = [data EXCEPT ![volpath] = SubSeq(@, 1, k)]
          \/ /\ wpc \in {"create", "remove"} /\ k = 0
             /\ UNCHANGED data
    /\ UNCHANGED <<options, present, cursize, curvol, vollist, wb, count, kept, readervars>>

\* A volume of the new archive has been moved to another place before the
\* restoration reads anything.
Move ==
    /\ Fault("moved")
    /\ rpc = "open" /\ rvol = 0
    /\ Elsewhere \notin present
    /\ \E n \in 1 .. curvol :
          LET p == get_path_to_volume(n) IN
          /\ p \in present /\ \E i \in DOMAIN vollist : vollist[i] = p
          /\ present' = (present \ {p}) \cup {Elsewhere}
          /\ data' = [data EXCEPT ![Elsewhere] = data[p]]
    /\ UNCHANGED <<options, cursize, writervars, readervars>>

-----------------------------------------------------------------------------
(* The reader: archreader.c and the volumes of thread_reader_fct() *)

Ended == {"done", "failed", "removed", "crashed"}

reader_start ==
    /\ rpc = "idle" /\ wpc \in Ended
    /\ rpc' = "open"
    /\ UNCHANGED <<options, filevars, writervars, rvol, rpath, rpos, rarchid,
                   endofarchive, got, mistyped>>

\* archreader_open(): the file is there and begins like a volume.
archreader_open(p) == p \in present /\ data[p] # <<>> /\ data[p][1].magic = "VOLH"

\* Faulty variant: any volume of the archive is accepted.
archreader_read_volheader_AnyNumber(head) == rarchid \in {"none", head.archid}

\* archreader_read_volheader(): it is the right volume of the right archive.
archreader_read_volheader(head) ==
    /\ rarchid \in {"none", head.archid}
    /\ head.num = rvol

\* Faulty variant: the position moves the wrong way.
reader_open_OffByOne ==
    /\ rpc = "open"
    /\ IF archreader_open(rpath) /\ archreader_read_volheader(data[rpath][1])
       THEN /\ rarchid' = data[rpath][1].archid
            /\ rpc' = IF rvol = 0 THEN "main" ELSE "loop"
       ELSE rpc' = "end" /\ UNCHANGED rarchid
    /\ rpos' = rpos - 1
    /\ UNCHANGED <<options, filevars, writervars, rvol, rpath, endofarchive, got, mistyped>>

reader_open ==
    /\ rpc = "open"
    /\ IF archreader_open(rpath) /\ archreader_read_volheader(data[rpath][1])
       THEN /\ rarchid' = data[rpath][1].archid
            /\ rpc' = IF rvol = 0 THEN "main" ELSE "loop"
       ELSE rpc' = "end" /\ UNCHANGED rarchid
    /\ rpos' = 2
    /\ UNCHANGED <<options, filevars, writervars, rvol, rpath, endofarchive, got, mistyped>>

\* archreader_read_data() and archreader_read_dico() read to the end of n entries.
CanRead(n) == rpos + n - 1 <= Len(data[rpath])

\* The main header, without which nothing can be done: the other headers have
\* no archive id at that place of their dictionary.
reader_main ==
    /\ rpc = "main"
    /\ IF CanRead(1) /\ data[rpath][rpos].magic = "MAIN"
       THEN rpc' = "loop" /\ got' = <<data[rpath][rpos]>>
       ELSE rpc' = "end" /\ UNCHANGED got
    /\ rpos' = rpos + 1
    /\ UNCHANGED <<options, filevars, writervars, rvol, rpath, rarchid, endofarchive, mistyped>>

\* The header of a block is followed by its data: archreader_read_block().
ItemSize == IF data[rpath][rpos].magic = "BLKH" THEN 2 ELSE 1

\* archreader_read_header() and archreader_read_block()
reader_read ==
    /\ rpc = "loop"
    /\ CanRead(1) /\ data[rpath][rpos].magic # "VOLF"
    /\ CanRead(ItemSize)
    /\ got' = Append(got, data[rpath][rpos])
    /\ rpos' = rpos + ItemSize
    /\ UNCHANGED <<options, filevars, writervars, rpc, rvol, rpath, rarchid, endofarchive, mistyped>>

\* The volume ends in the middle of an item or without a footer.
reader_truncated ==
    /\ rpc = "loop"
    /\ ~(CanRead(1) /\ CanRead(ItemSize))
    /\ rpc' = "end"
    /\ UNCHANGED <<options, filevars, writervars, rvol, rpath, rpos, rarchid, endofarchive, got, mistyped>>

\* The footer of a volume: the end, or the next volume, whose path the user
\* has to type if it is not where it should be.
reader_footer ==
    /\ rpc = "loop"
    /\ CanRead(1) /\ data[rpath][rpos].magic = "VOLF"
    /\ endofarchive' = data[rpath][rpos].lastvol
    /\ IF endofarchive'
       THEN rpc' = "end" /\ UNCHANGED <<rvol, rpath>>
       ELSE /\ rvol' = rvol + 1
            /\ rpath' = get_path_to_volume(rvol')
            /\ rpc' = IF rpath' \in present THEN "open" ELSE "prompt"
    /\ UNCHANGED <<options, filevars, writervars, rpos, rarchid, got, mistyped>>

reader_prompt ==
    /\ rpc = "prompt"
    /\ \E p \in present :
          /\ rpath' = p
          /\ mistyped' = (mistyped \/ p # Elsewhere)
    /\ rpc' = "open"
    /\ UNCHANGED <<options, filevars, writervars, rvol, rpos, rarchid, endofarchive, got>>

Reader ==
    \/ reader_start \/ reader_open \/ reader_main \/ reader_read
    \/ reader_truncated \/ reader_footer \/ reader_prompt

Terminated == rpc = "end" /\ UNCHANGED vars

Next == Writer \/ Crash \/ Move \/ Reader \/ Terminated

Spec == Init /\ [][Next]_vars

-----------------------------------------------------------------------------
(* Properties *)

\* The type of every variable.
VolumesTypeOK ==
    /\ options \in Options
    /\ present \subseteq Paths
    /\ data \in [Paths -> Seq(Entry)]
    /\ cursize \in Nat
    /\ wpc \in {"create", "volheader", "next", "split", "write", "remove"} \cup Ended
    /\ curvol \in 0 .. MaxItems
    /\ vollist \in Seq(Paths)
    /\ wb \in [entries: Seq(Entry), size: Nat]
    /\ count \in 0 .. MaxItems
    /\ kept \subseteq Paths
    /\ rpc \in {"idle", "open", "main", "loop", "prompt", "end"}
    /\ rvol \in Nat /\ rpath \in Paths /\ rpos \in Nat \ {0}
    /\ rarchid \in {"none", "old", "new"}
    /\ endofarchive \in BOOLEAN /\ mistyped \in BOOLEAN
    /\ got \in Seq(Entry)

\* Whatever files are found, left by a crash, by an older archive or named by
\* the user: the reader delivers the items of one archive, from the first on,
\* none left out, repeated or out of order.
ItemsOfOneArchive ==
    \A i \in DOMAIN got : got[i].archid = rarchid /\ got[i].num = i

\* The reader sees the end of the new archive only after all its items,
\* wherever the writer was when it stopped.
EndMeansWhole == endofarchive /\ rarchid = "new" => Len(got) = count

\* An archive that was saved completely can be read to its end, if the user
\* finds the volumes that were moved.
SavedIsReadable ==
    rpc = "end" /\ wpc = "done" /\ count > 0 /\ ~mistyped => endofarchive

\* After a failure no volume of the new archive remains, except one that
\* could not be removed.
FailureRemovesAll ==
    wpc = "removed" => \A p \in present \ kept :
                          \A i \in DOMAIN data[p] : data[p][i].archid = "old"

\* Without option -o no volume of an older archive is changed or removed.
OldVolumesAreKept ==
    [][~options.overwrite =>
        \A p \in present : data[p] # <<>> /\ data[p][1].archid = "old" =>
            p \in present' /\ data'[p] = data[p]]_vars

\* A volume does not exceed the size the user wants by more than its footer,
\* unless it holds a single item that is larger than a volume.
VolumeFits ==
    wpc = "next" /\ options.splitsize > 0 /\ cursize > options.splitsize =>
        \A i \in DOMAIN data[volpath] : i > 1 => data[volpath][i].num = count

-----------------------------------------------------------------------------
(* The inductive invariant *)

New(p) == data[p] # <<>> /\ data[p][1].archid = "new"

Writing == {"create", "volheader", "next", "split", "write"}

\* Every file that is found is a volume, or the beginning of one, and goes on
\* where the volume before it ends.
FilesInv ==
    \A p \in present : WellFormed(data[p]) /\ \A q \in present : GoesOn(data[p], data[q])

\* The writer has ended when the reader begins; until then a new volume is at
\* the path of its number.
StageInv ==
    /\ rpc # "idle" => wpc \in Ended
    /\ rpc = "idle" => \A p \in present : New(p) =>
          /\ p = get_path_to_volume(data[p][1].num)
          /\ data[p][1].num <= curvol
          /\ wpc = "create" => data[p][1].num < curvol

\* The item that waits to be written
WaitingItem ==
    /\ count < MaxItems /\ curvol <= count + 1
    /\ \/ count = 0 /\ wb.entries = <<ItemEntry("MAIN", "new", 1)>>
       \/ count > 0 /\ wb.entries = <<ItemEntry("HEAD", "new", count + 1)>>
       \/ count > 0 /\ wb.entries = <<ItemEntry("BLKH", "new", count + 1),
                                      ItemEntry("DATA", "new", count + 1)>>

\* The volume before the current one ends with the last item written.
ClosedBefore ==
    \A p \in present :
       New(p) /\ Closed(data[p]) /\ data[p][1].num + 1 = curvol
       => data[p][Len(data[p]) - 1].num = count

\* The buffer: a volume is only split for an item that waits.
BufferInv ==
    /\ wpc \in {"create", "volheader"} =>
          \/ curvol = 0 /\ count = 0 /\ wb = NoBuffer
          \/ curvol > 0 /\ count > 0 /\ WaitingItem /\ ClosedBefore
    /\ wpc = "next" => wb = NoBuffer /\ curvol <= count
    /\ wpc = "split" => WaitingItem /\ count > 0 /\ curvol <= count
    /\ wpc = "write" => WaitingItem

\* The volume that is being written: no volume is closed before it holds an
\* item, and only the item of a split is written without the test of the size.
CurrentInv ==
    LET d == data[volpath] IN
    /\ wpc \in Writing \ {"create"} =>
          volpath \in present /\ \E i \in 1 .. Len(vollist) : vollist[i] = volpath
    /\ wpc = "volheader" => d = <<>> /\ cursize = 0
    /\ wpc \in {"next", "split", "write"} =>
          /\ d # <<>> /\ d[1] = VolHeader("new", curvol)
          /\ Len(d) > 1 => EndOfItem(d[Len(d)]) /\ d[Len(d)].num = count /\ count > 0
    /\ wpc = "next" /\ Len(d) = 1 => count = 0 /\ curvol = 0 /\ cursize = 1
    /\ wpc = "split" => Len(d) > 1
    /\ wpc = "write" /\ Len(d) = 1 =>
          \/ curvol = 0 /\ count = 0
          \/ curvol > 0 /\ count > 0 /\ ClosedBefore
    /\ wpc = "write" /\ Len(d) > 1 /\ options.splitsize > 0 =>
          cursize + wb.size <= options.splitsize

\* The footer of a last volume follows the last item.
LastInv ==
    \A p \in present : \A i \in 1 .. Len(data[p]) :
       data[p][i].magic = "VOLF" /\ data[p][i].lastvol /\ data[p][i].archid = "new" =>
          /\ wpc \in {"done", "remove", "removed", "crashed"}
          /\ i > 2 => data[p][i - 1].num = count

\* What is left to remove is in the list, which has no volume of the older
\* archive.
RemoveInv ==
    /\ \A i \in 1 .. Len(vollist) : data[vollist[i]] = <<>> \/ New(vollist[i])
    /\ \A p \in present \ kept : New(p) =>
          /\ vollist # <<>>
          /\ rpc = "idle" => \E i \in 1 .. Len(vollist) : vollist[i] = p
    /\ wpc = "removed" => vollist = <<>>

FullVolume(p, n, isLast) ==
    /\ p \in present
    /\ Len(data[p]) > 2 /\ data[p][1] = VolHeader("new", n)
    /\ data[p][Len(data[p])] = VolFooter("new", n, isLast)

\* All volumes before the current one are complete, and at the end all of them.
DoneInv ==
    /\ wpc \in Writing => \A n \in 0 .. curvol : n < curvol =>
          FullVolume(get_path_to_volume(n), n, FALSE)
    /\ wpc = "done" /\ count > 0 => \A n \in 0 .. curvol :
          \/ FullVolume(get_path_to_volume(n), n, n = curvol)
          \/ /\ n > 0 /\ get_path_to_volume(n) \notin present
             /\ FullVolume(Elsewhere, n, n = curvol)

\* What the reader knows: at its position is the item after those it has read.
ReaderInv ==
    /\ rpc = "idle" \/ (rpc = "open" /\ rvol = 0) =>
          rvol = 0 /\ got = <<>> /\ rarchid = "none" /\ rpath = get_path_to_volume(0)
    /\ rpc \in {"main", "loop"} =>
          /\ rpath \in present /\ data[rpath] # <<>> /\ rpos <= Len(data[rpath]) + 1
          /\ data[rpath][1].archid = rarchid /\ data[rpath][1].num = rvol
    /\ rpc = "main" => rvol = 0 /\ rpos = 2 /\ got = <<>>
    /\ rpc = "loop" =>
          \/ /\ rpos = 2 /\ rvol > 0 /\ got # <<>>
             /\ Len(data[rpath]) > 1 => data[rpath][2].num = Len(got) + 1
          \/ /\ rpos > 2 /\ got # <<>>
             /\ EndOfItem(data[rpath][rpos - 1]) /\ data[rpath][rpos - 1].num = Len(got)
    /\ rpc = "prompt" \/ (rpc = "open" /\ rvol > 0) =>
          /\ rvol > 0 /\ got # <<>>
          /\ \E p \in present :
                /\ Closed(data[p]) /\ data[p][Len(data[p]) - 1].num = Len(got)
                /\ data[p][1].archid = rarchid /\ data[p][1].num + 1 = rvol
    /\ endofarchive => rpc = "end"

\* The reader of a complete archive is always in the right volume.
ReadableInv ==
    wpc = "done" /\ count > 0 /\ ~mistyped =>
       /\ rpc \in {"open", "main", "loop"} =>
             rvol <= curvol /\ FullVolume(rpath, rvol, rvol = curvol)
       /\ rpc = "prompt" => rvol <= curvol /\ rpath = get_path_to_volume(rvol) /\ rpath \notin present
       /\ rvol > 0 => rarchid = "new"
       /\ rpc = "end" => endofarchive

\* Everything above, with the properties that are part of the argument: the
\* invariant of VolumesProofs.
VolumesInv ==
    /\ VolumesTypeOK
    /\ FilesInv /\ StageInv /\ BufferInv /\ CurrentInv /\ LastInv /\ RemoveInv /\ DoneInv
    /\ ReaderInv /\ ReadableInv
    /\ ItemsOfOneArchive /\ EndMeansWhole

=============================================================================
