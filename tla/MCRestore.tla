------------------------------ MODULE MCRestore -----------------------------
(* Small instances of RestorePipeline *)
EXTENDS RestorePipeline, QueueProtocol

CONSTANTS c1, c2

OneThread == {c1}
TwoThreads == {c1, c2}

\* No option -e, an empty destination, and what may go wrong
Plain(faults) == [exclude |-> {}, present |-> {}, faults |-> faults]

\* restdir: a damaged archive and Ctrl+C; damaged data, with objects that are
\* excluded and files that exist; a destination or decompression that fails; threads
\* that fail.
DirJobs == {
    Plain({"abort", "header", "data"}),
    [exclude |-> {1, 6}, present |-> {2, 6}, faults |-> {"data"}],
    [exclude |-> {6}, present |-> {2, 6},
     faults |-> {"open", "attr", "write", "unpack"}],
    [exclude |-> {6}, present |-> {2, 6},
     faults |-> {"pthread", "usage", "open", "write", "io", "comp"}]}

\* restfs: a damaged block, a volume that is missing or cannot be read, Ctrl+C
FsJobs == {Plain({"abort", "mkfs", "missing", "io", "data"})}

\* archinfo of an archive without damage
InfoJobs == {Plain({})}

\* Every header an archive of these instances may hold, and every form its
\* blocks may take.
MCInfo ==
    [magic: {"MAIN"}, fsid: {0}, obj: {0}, off: {0}, cnt: 1 .. 2, form: {"head"}]
    \cup [magic: {"FSIN", "DIRS"}, fsid: {0}, obj: {0}, off: 0 .. 2, cnt: {0}, form: {"head"}]
    \cup [magic: {"FSYB", "DATF"}, fsid: 0 .. 2, obj: {0}, off: {0}, cnt: {0}, form: {"head"}]
    \cup [magic: {"VOLF"}, fsid: {0}, obj: {0}, off: {0}, cnt: 0 .. 1, form: {"head"}]
    \cup [magic: {"OBJT"}, fsid: 1 .. 2, obj: 1 .. 6, off: 0 .. 1, cnt: 0 .. 2,
          form: {"node", "unique", "multi"}]
    \cup [magic: {"BLKH"}, fsid: 1 .. 2, obj: 1 .. 6, off: 0 .. 1, cnt: {0},
          form: {"clear", "packed", "zeroed"}]
    \cup [magic: {"FILF"}, fsid: 1 .. 2, obj: 1 .. 6, off: {0}, cnt: {0}, form: {"head"}]

Main0(n) == <<Header("MAIN", 0, 0, 0, n, "head")>>
Fsin(i) == <<Header("FSIN", 0, 0, i, 0, "head")>>
Dirs == <<Header("DIRS", 0, 0, 0, 0, "head")>>
Fsyb(f) == <<Header("FSYB", f, 0, 0, 0, "head")>>
Datf(f) == <<Header("DATF", f, 0, 0, 0, "head")>>
Volf(isLast) == <<Header("VOLF", 0, 0, 0, isLast, "head")>>
Node(f, o) == <<Header("OBJT", f, o, 0, 0, "node")>>
Data(f, o, n) == <<[Block(f, o, n) EXCEPT !.form = "packed"]>>
EmptyFile(f, o) == <<Header("OBJT", f, o, 0, 0, "unique")>>
File1(f, o) == <<Header("OBJT", f, o, 0, 1, "unique")>> \o Data(f, o, 0)
               \o <<Header("FILF", f, o, 0, 0, "head")>>
File2(f, o) == <<Header("OBJT", f, o, 0, 2, "unique")>> \o Data(f, o, 0) \o Data(f, o, 1)
               \o <<Header("FILF", f, o, 0, 0, "head")>>
Group(f, o, p) == <<Header("OBJT", f, o, 0, 2, "multi"), Header("OBJT", f, p, 1, 2, "multi")>>
                  \o Data(f, o, 0)

\* An archive of directories: a directory, a large file, an empty one, two
\* small ones and another large one.
DirArchive ==
    Main0(1) \o Dirs \o Node(1, 1) \o File2(1, 2) \o EmptyFile(1, 3) \o Group(1, 4, 5)
    \o File1(1, 6) \o Datf(0) \o Volf(1)

\* Two file systems in an archive of two volumes
FsArchive ==
    Main0(2) \o Fsin(1) \o Fsin(2)
    \o Fsyb(1) \o File1(1, 1) \o Datf(1) \o Volf(0)
    \o Fsyb(2) \o Node(2, 2) \o Group(2, 3, 4) \o File1(2, 5) \o Datf(2) \o Volf(1)

ASSUME SoundArchive
=============================================================================
