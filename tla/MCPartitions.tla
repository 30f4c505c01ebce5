---------------------------- MODULE MCPartitions ----------------------------
(* Small instances of Partitions *)
EXTENDS Partitions

MCParts == {"sda1", "sdb1", "sdc1"}

Ext(rev, feat, c) == [fs |-> "ext", rev |-> rev, feat |-> feat, uuid |-> "u1", content |-> c]
Xfs(rev, feat, c) == [fs |-> "xfs", rev |-> rev, feat |-> feat, uuid |-> "u2", content |-> c]
Plain(fs) == [fs |-> fs, rev |-> 0, feat |-> {}, uuid |-> "u0",
               content |-> IF fs = "none" THEN "none" ELSE "d2"]
Disk(a, b, c) == [p \in MCParts |-> CASE p = "sda1" -> a [] p = "sdb1" -> b [] OTHER -> c]

UserMount(p, fs, rw, badopt) ==
    [part |-> p, who |-> "user", n |-> 0, fs |-> fs, rw |-> rw, badopt |-> badopt]
Argument(id, dest, mkfs, uuid) == [id |-> id, dest |-> dest, mkfs |-> mkfs, uuid |-> uuid]

\* A machine that restores what it saved with no special option
Machine(d, m, srcs, args) ==
    [disk |-> d, mounts |-> m, srcs |-> srcs, args |-> args, allowsaverw |-> FALSE,
     dontcheckmountopts |-> FALSE, experimental |-> FALSE, e2fstoolsver |-> PROGVER(1, 47, 0),
     xfstoolsver |-> PROGVER(6, 15, 0), rhel7 |-> FALSE, large |-> {}]

E2Versions ==
    {0, PROGVER(1, 39, 0), PROGVER(1, 40, 8), PROGVER(1, 41, 0), PROGVER(1, 42, 0), PROGVER(1, 47, 0)}
XfsVersions ==
    {0, PROGVER(3, 1, 0), PROGVER(3, 2, 0), PROGVER(4, 2, 0), PROGVER(4, 3, 0), PROGVER(5, 10, 0),
     PROGVER(6, 15, 0)}

ExtBase == {"sparse_super", "filetype", "resize_inode", "dir_index", "ext_attr"}
\* A journal or none, the flags that make an ext4, two that mke2fs is not told of
ExtSupers ==
    {Ext(0, {}, "d1"), Ext(1, {"has_journal", "large_file"}, "d1"),
     Ext(1, {"has_journal", "fast_commit"}, "d1"), Ext(1, {"uninit_bg", "metadata_csum"}, "d1")}
    \cup {Ext(1, ExtBase \cup b \cup c, "d1") :
            b \in SUBSET {"has_journal", "extent", "quota"},
            c \in {{}, {"uninit_bg"}, {"metadata_csum", "csum_seed"}, {"encrypt"}}}
XfsSupers ==
    {Xfs(4, {}, "d1")}
    \cup {Xfs(5, {"ftype"} \cup f, "d1") :
            f \in SUBSET {"finobt", "sparse", "nrext64", "parent", "meta_uuid"} \cup {{"unknown"}}}

\* One file system, restored on a device that may be large, with old or new
\* tools, as itself or as another type; sda1 may be mounted as a newer type.
OneFs(s, m, t, u) ==
    Machine(Disk(s, Plain("none"), Plain("none")), m, <<"sda1">>, <<Argument(1, "sdb1", t, u)>>)
FormatJobs ==
    {[OneFs(s, {}, t, "") EXCEPT !.e2fstoolsver = v, !.large = big] :
        s \in ExtSupers, t \in {"", "ext2", "ext3", "ext4"}, v \in E2Versions, big \in {{}, {"sdb1"}}}
    \cup {OneFs(s, {UserMount("sda1", "ext4", FALSE, FALSE)}, "", "") : s \in ExtSupers}
    \cup {[OneFs(s, {}, "", u) EXCEPT !.xfstoolsver = v, !.rhel7 = (u = "u3")] :
        s \in XfsSupers, u \in {"", "u3", "short"}, v \in XfsVersions}
    \cup {OneFs(s, {}, "ext4", u) : s \in XfsSupers, u \in {"u3", "short"}}

\* Two file systems, mounted or not, some of which cannot be saved; arguments
\* right and wrong, two file systems for one partition, a file system back to
\* where it was.
Ext4 == Ext(1, ExtBase \cup {"has_journal", "extent"}, "d1")
MountJobs ==
    {[Machine(Disk(Ext4, b, Ext(1, ExtBase, "d3")), m, <<"sda1", p>>, args)
        EXCEPT !.allowsaverw = o, !.dontcheckmountopts = o, !.experimental = o] :
        b \in {Xfs(5, {"ftype", "finobt"}, "d2"), Plain("ntfs"), Plain("iso9660")},
        m \in {{}, {UserMount("sda1", "ext4", TRUE, FALSE)}, {UserMount("sda1", "ext4", FALSE, TRUE)},
               {UserMount("sdc1", "ext4", TRUE, FALSE)}, {UserMount("sdb1", "fuseblk", FALSE, FALSE)}},
        p \in {"sda1", "sdb1"},
        args \in {<<Argument(1, "sdc1", "", "u3"), Argument(2, "sdb1", "xfs", "")>>,
                  <<Argument(2, "sdc1", "ext4", ""), Argument(1, "sdc1", "", "")>>,
                  <<Argument(2, "sda1", "ext3", "short")>>,
                  <<Argument(1, "sdc1", "", ""), Argument(1, "sdb1", "", "")>>,
                  <<Argument(1, "sdc1", "", ""), Argument(3, "sdb1", "", "")>>,
                  <<Argument(1, "sdc1", "btrfs4", "")>>,
                  <<Argument(1, "sdc1", "", ""), Argument(2, "tmp", "ext2", "")>>},
        o \in BOOLEAN}

MCJobs == FormatJobs \cup MountJobs
=============================================================================
