-------------------------------- MODULE ExtFs --------------------------------
(***************************************************************************)
(* What fsarchiver knows about ext2, ext3 and ext4 (fs_ext2.c).  The three *)
(* are one format: the type is worked out from the feature flags of the    *)
(* superblock, and restfs recreates a file system by turning the saved     *)
(* flags into the -O option of mke2fs.  A set of flags is a set of names;  *)
(* the types are the numbers 2, 3 and 4.                                   *)
(***************************************************************************)
EXTENDS Naturals

\* A version of e2fsprogs or xfsprogs; 0 when the program is not installed or
\* its answer to -V cannot be parsed.
PROGVER(x, y, z) == x * 65536 + y * 256 + z

-----------------------------------------------------------------------------
(* The feature flags *)

\* The flags fsarchiver declares, by the word of the superblock they are in.
CompatFlags ==
    {"dir_prealloc", "imagic_inodes", "has_journal", "ext_attr", "resize_inode", "dir_index",
     "lazy_bg", "sparse_super2", "fast_commit", "stable_inodes", "orphan_file"}

IncompatFlags ==
    {"filetype", "recover", "journal_dev", "meta_bg", "extent", "64bit", "mmp", "flex_bg",
     "ea_inode", "dirdata", "csum_seed", "large_dir", "inline_data", "encrypt", "casefold"}

RoCompatFlags ==
    {"sparse_super", "large_file", "btree_dir", "huge_file", "uninit_bg", "dir_nlink",
     "extra_isize", "quota", "bigalloc", "metadata_csum", "readonly", "project",
     "orphan_present"}

ExtFlags == CompatFlags \cup IncompatFlags \cup RoCompatFlags

\* FSA_FEATURE_*_SUPP: a file system with any other flag is neither saved nor
\* recreated.
ExtSupported == ExtFlags \ {"stable_inodes", "encrypt", "casefold"}

\* What the ext2 and the ext3 drivers understand of the incompatible and the
\* read-only compatible flags.
Ext2Understands == {"filetype", "meta_bg", "sparse_super", "large_file", "btree_dir"}
Ext3Understands == Ext2Understands \cup {"recover"}

\* mkfeatures[]: the flags mke2fs can be asked for, by the first version that
\* knows them ...
FirstE2p ==
    {[ver |-> PROGVER(1, 8, 0), flags |-> {"sparse_super"}],
     [ver |-> PROGVER(1, 16, 0), flags |-> {"filetype"}],
     [ver |-> PROGVER(1, 33, 0), flags |-> {"dir_index"}],
     [ver |-> PROGVER(1, 39, 0), flags |-> {"has_journal", "resize_inode", "journal_dev", "meta_bg"}],
     [ver |-> PROGVER(1, 40, 5), flags |-> {"ext_attr"}],
     [ver |-> PROGVER(1, 40, 7), flags |-> {"large_file"}],
     [ver |-> PROGVER(1, 41, 0),
      flags |-> {"extent", "flex_bg", "huge_file", "uninit_bg", "dir_nlink", "extra_isize"}],
     [ver |-> PROGVER(1, 42, 0), flags |-> {"mmp", "64bit", "bigalloc"}],
     [ver |-> PROGVER(1, 42, 10), flags |-> {"sparse_super2"}],
     [ver |-> PROGVER(1, 43, 0), flags |-> {"inline_data", "metadata_csum", "project"}],
     [ver |-> PROGVER(1, 44, 0), flags |-> {"ea_inode", "large_dir"}],
     [ver |-> PROGVER(1, 46, 0), flags |-> {"fast_commit"}],
     [ver |-> PROGVER(1, 47, 0), flags |-> {"orphan_file"}]}

mkfeatures == UNION {e.flags : e \in FirstE2p}

\* ... and the first type that has them.
FirstFs(f) ==
    IF f \in {"ext_attr", "resize_inode", "dir_index", "filetype", "meta_bg", "large_file",
              "sparse_super"} THEN 2
    ELSE IF f \in {"has_journal", "journal_dev"} THEN 3
    ELSE 4

e2fsprogs_minver == [t \in {2, 3, 4} |-> IF t = 4 THEN PROGVER(1, 41, 0) ELSE PROGVER(1, 39, 0)]

-----------------------------------------------------------------------------
(* Which type a file system is *)

Beyond(feat, understood) == (feat \cap (IncompatFlags \cup RoCompatFlags)) \ understood # {}

\* A journal, or a flag ext2 does not understand, makes it an ext3; a flag ext3
\* does not understand makes it an ext4.  The compatible flags other than the
\* journal count for nothing.
extfs_get_fstype_from_compat_flags(feat) ==
    IF Beyond(feat, Ext3Understands) THEN 4
    ELSE IF "has_journal" \in feat \/ Beyond(feat, Ext2Understands) THEN 3
    ELSE 2

extfs_check_compatibility(feat) == feat \subseteq ExtSupported

-----------------------------------------------------------------------------
(* Recreating a file system: extfs_mkfs                                    *)
(*                                                                         *)
(* d is what the archive says of the file system: whether it was an ext at *)
(* all (d.ext), its revision and its flags; t the type to create, v the    *)
(* version of mke2fs, large whether the device has 2^32 blocks or more.    *)

GoodOldRev == 0
DynamicRev == 1

\* A file system that was no ext, or one too old to have flags, starts from
\* the flags of a plain ext2.
Original(d) ==
    IF ~d.ext \/ d.rev = GoodOldRev
    THEN {"resize_inode", "dir_index", "ext_attr", "filetype", "sparse_super"}
    ELSE d.feat

OriginalType(d) == extfs_get_fstype_from_compat_flags(Original(d))

\* Faulty variant: the flags of the next type up survive a conversion.
Downgraded_KeepsNext(d, t) == {f \in Original(d) : f \in mkfeatures => FirstFs(f) <= t + 1}

Downgraded(d, t) == {f \in Original(d) : f \in mkfeatures => FirstFs(f) <= t}

\* Faulty variant: what makes an ext4 is added whatever was saved.
Upgraded_Always(d, t) ==
    Downgraded(d, t)
    \cup (IF t > 2 THEN {"has_journal"} ELSE {})
    \cup (IF t = 4 THEN {"extent", "flex_bg", "dir_nlink", "extra_isize", "uninit_bg", "huge_file"}
          ELSE {})

\* Only a conversion to a newer type adds flags.
Upgraded(d, t) ==
    Downgraded(d, t)
    \cup (IF OriginalType(d) = 2 /\ t > 2 THEN {"has_journal"} ELSE {})
    \cup (IF OriginalType(d) < 4 /\ t = 4
          THEN {"extent", "flex_bg", "dir_nlink", "extra_isize", "uninit_bg", "huge_file"} ELSE {})

Revision(d, t) ==
    IF d.ext /\ d.rev = GoodOldRev /\ ~(OriginalType(d) < t) THEN GoodOldRev ELSE DynamicRev

\* A device of 2^32 blocks needs 64bit and must not have resize_inode.
Wanted(d, t, large) ==
    IF large THEN (Upgraded(d, t) \cup {"64bit", "uninit_bg"}) \ {"resize_inode"}
    ELSE Upgraded(d, t)

\* The conditions under which extfs_mkfs gives up before it runs mke2fs.
extfs_refused(d, t, v, large) ==
    \/ v < e2fsprogs_minver[t]
    \/ ~extfs_check_compatibility(Original(d))
    \/ large /\ (t < 4 \/ v < PROGVER(1, 42, 0))

\* The flags this version of mke2fs is told about: each either asked for, or
\* excluded with a ^.
Mentioned(v) == UNION {e.flags : e \in {x \in FirstE2p : x.ver <= v}}

Asked(d, t, v, large) == Wanted(d, t, large) \cap Mentioned(v)

-----------------------------------------------------------------------------
(* mke2fs (external)                                                       *)

\* The ext2 baseline of the [defaults] section of mke2fs.conf
Baseline == {"sparse_super", "large_file", "filetype", "resize_inode", "dir_index", "ext_attr"}

\* The flags mke2fs may create the file system with: a revision 0 file system
\* has none, a flag that was not mentioned is left to the baseline, and
\* metadata_csum takes the place of uninit_bg.
mke2fs(asked, mentioned, rev) ==
    IF rev = GoodOldRev THEN {{}}
    ELSE {(asked \cup b) \ (IF "metadata_csum" \in asked THEN {"uninit_bg"} ELSE {}) :
            b \in {{}, Baseline \ mentioned}}

extfs_created(d, t, v, large) ==
    mke2fs(Asked(d, t, v, large), Mentioned(v), Revision(d, t))
=============================================================================
