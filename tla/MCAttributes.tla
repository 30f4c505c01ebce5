---------------------------- MODULE MCAttributes ----------------------------
(* Small instances of Attributes *)
EXTENDS Attributes

MCXattrNames == {"capability", "user"}
MCWinNames == {"acl", "dos_name"}

Ent(path, dirs, parent, kind, ino) ==
    [path |-> path, dirs |-> dirs, parent |-> parent, kind |-> kind, ino |-> ino]

\* Two links to a file in different directories and a device; a directory in a
\* directory, with a symbolic link, and a small file that reaches the queue
\* after everything else.
RootDir == Ent("root", {"root"}, "root", "DIR", "root")
LinkTree == <<RootDir,
              Ent("f", {"root"}, "root", "FILE", "f"),
              Ent("d", {"root"}, "root", "DIR", "d"),
              Ent("l", {"root", "d"}, "d", "HARDLINK", "f"),
              Ent("n", {"root", "d"}, "d", "SPECIAL", "n")>>
DirTree == <<RootDir,
             Ent("d", {"root"}, "root", "DIR", "d"),
             Ent("e", {"root", "d"}, "d", "DIR", "e"),
             Ent("s", {"root", "d", "e"}, "e", "SYMLINK", "s"),
             Ent("f", {"root", "d"}, "d", "FILE", "f")>>

\* Attributes without and with extended ones: of the sizes 0, 1 and the
\* largest, and one that is too large
Xattrs(sizes) ==
    [n \in Names |-> IF n \in DOMAIN sizes THEN [size |-> sizes[n], val |-> "old"] ELSE None]
NoSizes == [n \in {} |-> 0]
SizeSets == {[capability |-> 20, user |-> 1], [user |-> 0],
             [capability |-> 65535, user |-> 65535], [capability |-> 20, user |-> 65536]}

\* A whole second for the root directory, a fraction of one for directories, a
\* time before 1970 for symbolic links, and one beyond a u32 for other objects
Time(path) ==
    CASE path = "root"      -> [era |-> 0, sec |-> 1, frac |-> 0]
      [] path \in {"d", "e"} -> [era |-> 0, sec |-> 2, frac |-> 7]
      [] path = "s"         -> [era |-> -1, sec |-> 3, frac |-> 7]
      [] OTHER              -> [era |-> 1, sec |-> 4, frac |-> 7]

Inode(path, mode, sizes) ==
    [mode |-> mode, owner |-> IF path = "root" THEN 0 ELSE 1000,
     mtime |-> Time(path), xattr |-> Xattrs(sizes)]

\* Directory d has the attributes dsizes, file f the attributes fsizes.
Job(tree, winattr, fits, dsizes, fsizes) ==
    LET inos == {tree[i].ino : i \in DOMAIN tree}
    IN [tree |-> tree, winattr |-> winattr,
        listfits |-> [i \in inos |-> fits \/ i # "f"],
        inodes |-> [i \in inos |->
            CASE i = "f" -> Inode(i, "suid", fsizes)
              [] i = "d" -> Inode(i, "suid", dsizes)
              [] OTHER -> Inode(i, "plain", NoSizes)]]

MCJobs ==
    {Job(LinkTree, FALSE, TRUE, NoSizes, fsizes) : fsizes \in SizeSets}
    \cup {Job(DirTree, FALSE, TRUE, dsizes, [capability |-> 20, user |-> 1]) :
             dsizes \in {[user |-> 1], [user |-> 65536]}}
    \cup {Job(LinkTree, FALSE, FALSE, NoSizes, [capability |-> 20, user |-> 1])}
    \cup {Job(tree, TRUE, TRUE, [acl |-> 80, dos_name |-> 8], [acl |-> 80]) :
             tree \in {LinkTree, DirTree}}
=============================================================================
