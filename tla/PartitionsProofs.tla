-------------------------- MODULE PartitionsProofs --------------------------
(***************************************************************************)
(* Proofs about Partitions, for every machine and every pair of command    *)
(* lines: what a conversion makes of the flags of a file system, what is   *)
(* mounted when, and what restfs leaves on a partition.                    *)
(***************************************************************************)
EXTENDS Partitions, TLAPS

-----------------------------------------------------------------------------
(* The tables of flags *)

\* The flags of mkfeatures[], which fs_ext2.c lists with a version each
LEMMA FeatureNames ==
    mkfeatures = {"sparse_super", "filetype", "dir_index", "has_journal", "resize_inode",
                  "journal_dev", "meta_bg", "ext_attr", "large_file", "extent", "flex_bg",
                  "huge_file", "uninit_bg", "dir_nlink", "extra_isize", "mmp", "64bit",
                  "bigalloc", "sparse_super2", "inline_data", "metadata_csum", "project",
                  "ea_inode", "large_dir", "fast_commit", "orphan_file"}
  BY DEF mkfeatures, FirstE2p

\* Versions of mke2fs are told about flags of mkfeatures[] only, and from the
\* versions on that extfs_mkfs asks for, about those it relies on.
LEMMA MentionedFlags ==
    ASSUME NEW v \in Nat
    PROVE  /\ Mentioned(v) \subseteq mkfeatures
           /\ v >= PROGVER(1, 39, 0) => {"has_journal", "resize_inode"} \subseteq Mentioned(v)
           /\ v >= PROGVER(1, 41, 0) => {"extent", "uninit_bg"} \subseteq Mentioned(v)
           /\ v >= PROGVER(1, 42, 0) => "64bit" \in Mentioned(v)
  <1>1. Mentioned(v) \subseteq mkfeatures
    BY DEF Mentioned, mkfeatures
  <1>2. \A e \in FirstE2p : v >= e.ver => e.flags \subseteq Mentioned(v)
    <2>1. \A e \in FirstE2p : e.ver \in Nat
      BY DEF FirstE2p, PROGVER
    <2>2. QED  BY <2>1 DEF Mentioned
  <1>3. /\ [ver |-> PROGVER(1, 39, 0),
            flags |-> {"has_journal", "resize_inode", "journal_dev", "meta_bg"}] \in FirstE2p
        /\ [ver |-> PROGVER(1, 41, 0),
            flags |-> {"extent", "flex_bg", "huge_file", "uninit_bg", "dir_nlink",
                       "extra_isize"}] \in FirstE2p
        /\ [ver |-> PROGVER(1, 42, 0), flags |-> {"mmp", "64bit", "bigalloc"}] \in FirstE2p
    BY DEF FirstE2p
  <1>4. QED  BY <1>1, <1>2, <1>3

\* A revision 0 has no flags; otherwise mke2fs creates what it was asked for,
\* with flags it was not told of, without uninit_bg where metadata_csum is.
LEMMA CreatedFlags ==
    ASSUME NEW d, NEW t, NEW v, NEW large, NEW feat \in extfs_created(d, t, v, large)
    PROVE  \/ Revision(d, t) = GoodOldRev /\ feat = {}
           \/ /\ Revision(d, t) # GoodOldRev
              /\ \E b \in {{}, Baseline \ Mentioned(v)} :
                    feat = (Asked(d, t, v, large) \cup b)
                            \ (IF "metadata_csum" \in Asked(d, t, v, large) THEN {"uninit_bg"} ELSE {})
  <1> DEFINE asked == Asked(d, t, v, large)
             drop == IF "metadata_csum" \in asked THEN {"uninit_bg"} ELSE {}
  <1>1. feat \in mke2fs(asked, Mentioned(v), Revision(d, t))
    BY DEF extfs_created
  <1> HIDE DEF asked
  <1>2. CASE Revision(d, t) = GoodOldRev
    BY <1>1, <1>2 DEF mke2fs, asked
  <1>3. CASE Revision(d, t) # GoodOldRev
    BY <1>1, <1>3 DEF mke2fs, asked
  <1>4. QED  BY <1>2, <1>3

\* The type of a file system, as extfs_get_fstype_from_compat_flags() finds it:
\* flags of ext2 make an ext2, a journal in addition an ext3, and any flag that
\* ext3 does not understand an ext4.
LEMMA TypeOfFlags ==
    ASSUME NEW feat,
           feat \subseteq {"ext_attr", "resize_inode", "dir_index", "filetype", "meta_bg",
                           "large_file", "sparse_super", "has_journal"}
    PROVE  extfs_get_fstype_from_compat_flags(feat) = IF "has_journal" \in feat THEN 3 ELSE 2
  <1>1. ~Beyond(feat, Ext2Understands)
    BY DEF Beyond, Ext2Understands, IncompatFlags, RoCompatFlags
  <1>2. ~Beyond(feat, Ext3Understands)
    BY <1>1 DEF Beyond, Ext3Understands
  <1>3. QED  BY <1>1, <1>2 DEF extfs_get_fstype_from_compat_flags

\* A flag beyond ext3 makes an ext4, whatever the others are.
LEMMA TypeIsExt4 ==
    ASSUME NEW feat, NEW f \in feat, f \in IncompatFlags \cup RoCompatFlags, f \notin Ext3Understands
    PROVE  extfs_get_fstype_from_compat_flags(feat) = 4
  BY DEF extfs_get_fstype_from_compat_flags, Beyond

\* Conversely, an ext4 has such a flag, and an ext3 has a journal that mke2fs
\* can be asked for, or one that has to be replayed.
LEMMA TypeHasFlag ==
    ASSUME NEW f
    PROVE  /\ extfs_get_fstype_from_compat_flags({f}) = 4 =>
                  f \in IncompatFlags \cup RoCompatFlags /\ f \notin Ext3Understands
           /\ extfs_get_fstype_from_compat_flags({f}) = 3 => f \in {"has_journal", "recover"}
  BY DEF extfs_get_fstype_from_compat_flags, Beyond, Ext3Understands, Ext2Understands

\* extfs_get_fstype_from_compat_flags() knows three types.
LEMMA TypeInRange ==
    ASSUME NEW feat
    PROVE  extfs_get_fstype_from_compat_flags(feat) \in {2, 3, 4}
  BY DEF extfs_get_fstype_from_compat_flags

\* What is asked for among the flags mke2fs knows: the flags of the new type and
\* of older ones, what an upgrade adds, and what a large device needs.
LEMMA AskedFlags ==
    ASSUME NEW d, NEW t \in {2, 3, 4}, NEW v \in Nat, NEW large \in BOOLEAN
    PROVE  /\ Asked(d, t, v, large) \subseteq Mentioned(v)
           /\ ~large => \A f \in Asked(d, t, v, large) :
                            \/ f \in Original(d) /\ FirstFs(f) <= t
                            \/ f = "has_journal" /\ t > 2
                            \/ t = 4
           /\ \A f \in Original(d) \cap Mentioned(v) :
                  FirstFs(f) <= t /\ f # "resize_inode" => f \in Asked(d, t, v, large)
  <1>1. Mentioned(v) \subseteq mkfeatures
    BY MentionedFlags
  <1>2. Asked(d, t, v, large) \subseteq Mentioned(v)
    BY DEF Asked
  <1>3. ASSUME ~large, NEW f \in Asked(d, t, v, large)
        PROVE  \/ f \in Original(d) /\ FirstFs(f) <= t
               \/ f = "has_journal" /\ t > 2
               \/ t = 4
    <2>1. f \in Upgraded(d, t) /\ f \in mkfeatures
      BY <1>1, <1>3 DEF Asked, Wanted
    <2>2. QED  BY <2>1 DEF Upgraded, Downgraded
  <1>4. ASSUME NEW f \in Original(d) \cap Mentioned(v), FirstFs(f) <= t, f # "resize_inode"
        PROVE  f \in Asked(d, t, v, large)
    BY <1>4 DEF Asked, Wanted, Upgraded, Downgraded
  <1>5. QED  BY <1>2, <1>3, <1>4

\* A conversion gives the type that was asked for, if that is ext2, if it is
\* newer than the type that was saved, or if one of the saved flags that this
\* mke2fs knows makes it.
LEMMA ConversionGivesType ==
    ASSUME NEW d, NEW t \in {2, 3, 4}, NEW v \in Nat, NEW large \in BOOLEAN,
           ~extfs_refused(d, t, v, large),
           "journal_dev" \notin Original(d),
           \/ t = 2
           \/ OriginalType(d) < t
           \/ \E f \in Original(d) \cap Mentioned(v) : extfs_get_fstype_from_compat_flags({f}) = t,
           NEW feat \in extfs_created(d, t, v, large)
    PROVE  extfs_get_fstype_from_compat_flags(feat) = t
  <1> DEFINE asked == Asked(d, t, v, large)
  <1>1. /\ v >= PROGVER(1, 39, 0)
        /\ t = 4 => v >= PROGVER(1, 41, 0)
        /\ large => t = 4 /\ v >= PROGVER(1, 42, 0)
    BY DEF extfs_refused, e2fsprogs_minver, PROGVER
  <1>2. CASE Revision(d, t) = GoodOldRev
    <2>1. feat = {}
      BY <1>2, CreatedFlags
    <2>2. Original(d) = {"resize_inode", "dir_index", "ext_attr", "filetype", "sparse_super"}
      BY <1>2 DEF Revision, GoodOldRev, DynamicRev, Original
    <2>3. OriginalType(d) = 2
      BY <2>2, TypeOfFlags DEF OriginalType
    <2>4. t = 2
      BY <1>2, <2>3 DEF Revision, GoodOldRev, DynamicRev
    <2>5. QED  BY <2>1, <2>4, TypeOfFlags
  <1>3. CASE Revision(d, t) # GoodOldRev
    <2>1. PICK b \in {{}, Baseline \ Mentioned(v)} :
              feat = (asked \cup b) \ (IF "metadata_csum" \in asked THEN {"uninit_bg"} ELSE {})
      BY <1>3, CreatedFlags
    <2>2. b \subseteq {"sparse_super", "large_file", "filetype", "resize_inode", "dir_index", "ext_attr"}
      BY DEF Baseline
    <2>3. asked \subseteq Mentioned(v) /\ Mentioned(v) \subseteq mkfeatures
      BY AskedFlags, MentionedFlags
    <2>4. CASE t = 2
      <3>1. ~large
        BY <1>1, <2>4
      <3>2. \A f \in asked : f \in mkfeatures /\ FirstFs(f) <= 2
        BY <2>3, <2>4, <3>1, AskedFlags
      <3>3. asked \subseteq {"ext_attr", "resize_inode", "dir_index", "filetype", "meta_bg",
                             "large_file", "sparse_super"}
        BY <3>2 DEF FirstFs
      <3>4. feat \subseteq {"ext_attr", "resize_inode", "dir_index", "filetype", "meta_bg",
                            "large_file", "sparse_super"}
        BY <2>1, <2>2, <3>3
      <3>5. QED  BY <2>4, <3>4, TypeOfFlags
    <2>5. CASE t = 3
      <3>1. ~large
        BY <1>1, <2>5
      <3>2. \A f \in asked : (f \in Original(d) /\ FirstFs(f) <= 3) \/ f = "has_journal"
        BY <2>5, <3>1, AskedFlags
      <3>3. asked \subseteq {"ext_attr", "resize_inode", "dir_index", "filetype", "meta_bg",
                             "large_file", "sparse_super", "has_journal"}
        BY <3>2 DEF FirstFs
      <3>4. "has_journal" \in asked
        <4>1. "has_journal" \in Mentioned(v)
          BY <1>1, MentionedFlags
        <4>2. CASE OriginalType(d) < 3
          <5>1. OriginalType(d) = 2
            BY <4>2, TypeInRange DEF OriginalType
          <5>2. QED  BY <2>5, <3>1, <4>1, <5>1 DEF Asked, Wanted, Upgraded
        <4>3. CASE ~(OriginalType(d) < 3)
          <5>0. t # 2 /\ ~(OriginalType(d) < t)
            BY <2>5, <4>3
          <5>1. PICK f \in Original(d) \cap Mentioned(v) :
                    extfs_get_fstype_from_compat_flags({f}) = t
            BY <5>0, Zenon
          <5>2. f = "has_journal"
            BY <2>3, <2>5, <5>1, TypeHasFlag, FeatureNames
          <5>3. FirstFs(f) <= 3
            BY <5>2 DEF FirstFs
          <5>4. QED  BY <2>5, <5>1, <5>2, <5>3, AskedFlags
        <4>4. QED  BY <4>2, <4>3
      <3>5. "has_journal" \in feat /\ feat \subseteq
                {"ext_attr", "resize_inode", "dir_index", "filetype", "meta_bg",
                 "large_file", "sparse_super", "has_journal"}
        BY <2>1, <2>2, <3>3, <3>4
      <3>6. QED  BY <2>5, <3>5, TypeOfFlags
    <2>6. CASE t = 4
      <3>1. \E f \in asked : f \in IncompatFlags \cup RoCompatFlags /\ f \notin Ext3Understands
        <4>1. CASE OriginalType(d) < 4
          <5>1. "extent" \in Mentioned(v)
            BY <1>1, <2>6, MentionedFlags
          <5>2. "extent" \in asked
            BY <2>6, <4>1, <5>1 DEF Asked, Wanted, Upgraded
          <5>3. QED  BY <5>2 DEF IncompatFlags, Ext3Understands, Ext2Understands
        <4>2. CASE ~(OriginalType(d) < 4)
          <5>0. t # 2 /\ ~(OriginalType(d) < t)
            BY <2>6, <4>2
          <5>1. PICK f \in Original(d) \cap Mentioned(v) :
                    extfs_get_fstype_from_compat_flags({f}) = t
            BY <5>0, Zenon
          <5>2. f \in IncompatFlags \cup RoCompatFlags /\ f \notin Ext3Understands
            BY <2>6, <5>1, TypeHasFlag
          <5>3. FirstFs(f) <= 4 /\ f # "resize_inode"
            BY <5>2 DEF FirstFs, IncompatFlags, RoCompatFlags
          <5>4. QED  BY <2>6, <5>1, <5>2, <5>3, AskedFlags
        <4>3. QED  BY <4>1, <4>2
      <3>2. PICK f \in feat : f \in IncompatFlags \cup RoCompatFlags /\ f \notin Ext3Understands
        <4>1. PICK f \in asked : f \in IncompatFlags \cup RoCompatFlags /\ f \notin Ext3Understands
          BY <3>1
        <4>2. CASE f = "uninit_bg" /\ "metadata_csum" \in asked
          <5>1. "metadata_csum" \in feat
            BY <2>1, <4>2
          <5>2. QED  BY <5>1 DEF RoCompatFlags, Ext3Understands, Ext2Understands
        <4>3. CASE ~(f = "uninit_bg" /\ "metadata_csum" \in asked)
          BY <2>1, <4>1, <4>3
        <4>4. QED  BY <4>2, <4>3
      <3>3. QED  BY <2>6, <3>2, TypeIsExt4
    <2>7. QED  BY <2>4, <2>5, <2>6
  <1>4. QED  BY <1>2, <1>3

\* An ext file system that is restored as the type it was keeps the flags that
\* this mke2fs knows, up to flags only ext4 has and to uninit_bg.
LEMMA SameTypeKeepsFlags ==
    ASSUME NEW d, NEW t \in {2, 3, 4}, NEW v \in Nat,
           NEW large \in BOOLEAN, ~large,
           d.ext, d.rev # GoodOldRev, t = OriginalType(d),
           NEW feat \in extfs_created(d, t, v, large)
    PROVE  LET known == d.feat \cap Mentioned(v)
           IN  feat \cap Mentioned(v)
                  = known \ ((IF t = 4 THEN {} ELSE Ext4Compat)
                             \cup (IF "metadata_csum" \in known THEN {"uninit_bg"} ELSE {}))
  <1> DEFINE known == d.feat \cap Mentioned(v)
             gone == IF t = 4 THEN {} ELSE Ext4Compat
             asked == Asked(d, t, v, large)
  <1>1. Original(d) = d.feat /\ Revision(d, t) # GoodOldRev
    BY DEF Original, Revision, GoodOldRev, DynamicRev
  <1>2. PICK b \in {{}, Baseline \ Mentioned(v)} :
            feat = (asked \cup b) \ (IF "metadata_csum" \in asked THEN {"uninit_bg"} ELSE {})
    BY <1>1, CreatedFlags
  <1>3. Upgraded(d, t) = {f \in d.feat : f \in mkfeatures => FirstFs(f) <= t}
    BY <1>1 DEF Upgraded, Downgraded
  <1>4. asked = {f \in known : FirstFs(f) <= t}
    <2>1. asked = Upgraded(d, t) \cap Mentioned(v)
      BY DEF Asked, Wanted
    <2>2. Mentioned(v) \subseteq mkfeatures
      BY MentionedFlags
    <2>3. QED  BY <1>3, <2>1, <2>2
  <1>5. \A f \in known : FirstFs(f) <= t <=> f \notin gone
    <2> SUFFICES ASSUME NEW f \in known
                 PROVE  FirstFs(f) <= t <=> f \notin gone
      OBVIOUS
    <2>1. f \in mkfeatures /\ f \in d.feat
      BY MentionedFlags
    <2>2. t = extfs_get_fstype_from_compat_flags(d.feat)
      BY <1>1 DEF OriginalType
    <2>3. CASE f \in {"ext_attr", "resize_inode", "dir_index", "filetype", "meta_bg", "large_file",
                      "sparse_super"}
      BY <2>3 DEF FirstFs, Ext4Compat
    <2>4. CASE f \in {"has_journal", "journal_dev"}
      <3>1. t # 2
        BY <2>1, <2>2, <2>4 DEF extfs_get_fstype_from_compat_flags, Beyond, IncompatFlags, Ext2Understands
      <3>2. QED  BY <2>4, <3>1 DEF FirstFs, Ext4Compat
    <2>5. CASE f \in Ext4Compat
      BY <2>5 DEF FirstFs, Ext4Compat
    <2>6. CASE f \in {"extent", "flex_bg", "huge_file", "uninit_bg", "dir_nlink", "extra_isize",
                      "mmp", "64bit", "bigalloc", "inline_data", "metadata_csum", "project",
                      "ea_inode", "large_dir"}
      <3>1. f \in IncompatFlags \cup RoCompatFlags /\ f \notin Ext3Understands
        BY <2>6 DEF IncompatFlags, RoCompatFlags, Ext3Understands, Ext2Understands
      <3>2. t = 4
        BY <2>1, <2>2, <3>1, TypeIsExt4
      <3>3. QED  BY <2>6, <3>2 DEF FirstFs, Ext4Compat
    <2>7. QED  BY <2>1, <2>3, <2>4, <2>5, <2>6, FeatureNames DEF Ext4Compat
  <1>6. asked = known \ gone
    BY <1>4, <1>5
  <1>7. "metadata_csum" \in asked <=> "metadata_csum" \in known
    BY <1>6 DEF Ext4Compat
  <1>8. b \cap Mentioned(v) = {} /\ asked \subseteq Mentioned(v)
    BY <1>6
  <1>9. QED  BY <1>2, <1>6, <1>7, <1>8

\* A file system for a device of 2^32 blocks has 64bit, no resize_inode, and is
\* an ext4, or it is refused.
LEMMA LargeDevice ==
    ASSUME NEW d, NEW t \in {2, 3, 4}, NEW v \in Nat, NEW large \in BOOLEAN,
           ~extfs_refused(d, t, v, large),
           NEW feat \in extfs_created(d, t, v, large)
    PROVE  large => /\ t = 4
                    /\ "64bit" \in feat /\ "resize_inode" \notin feat
                    /\ extfs_get_fstype_from_compat_flags(feat) = 4
  <1> DEFINE asked == Asked(d, t, v, large)
  <1>0. Revision(d, t) # GoodOldRev =>
            \E b \in {{}, Baseline \ Mentioned(v)} :
                feat = (asked \cup b) \ (IF "metadata_csum" \in asked THEN {"uninit_bg"} ELSE {})
    BY CreatedFlags
  <1> HAVE large
  <1>1. t = 4 /\ v >= PROGVER(1, 42, 0) /\ v >= PROGVER(1, 39, 0)
    BY DEF extfs_refused, e2fsprogs_minver, PROGVER
  <1>2. Revision(d, t) # GoodOldRev
    <2>1. ASSUME d.ext, d.rev = GoodOldRev  PROVE OriginalType(d) < t
      <3>1. Original(d) = {"resize_inode", "dir_index", "ext_attr", "filetype", "sparse_super"}
        BY <2>1 DEF Original
      <3>2. OriginalType(d) = 2
        BY <3>1, TypeOfFlags DEF OriginalType
      <3>3. QED  BY <1>1, <3>2
    <2>2. QED  BY <2>1 DEF Revision, GoodOldRev, DynamicRev
  <1>3. PICK b \in {{}, Baseline \ Mentioned(v)} :
            feat = (asked \cup b) \ (IF "metadata_csum" \in asked THEN {"uninit_bg"} ELSE {})
    BY <1>0, <1>2, Zenon
  <1>4. "64bit" \in Mentioned(v) /\ "resize_inode" \in Mentioned(v)
    BY <1>1, MentionedFlags
  <1>5. "64bit" \in asked /\ "resize_inode" \notin asked
    BY <1>4 DEF Asked, Wanted
  <1>6. "64bit" \in feat /\ "resize_inode" \notin feat
    BY <1>3, <1>4, <1>5
  <1>7. QED  BY <1>1, <1>6, TypeIsExt4 DEF IncompatFlags, Ext3Understands, Ext2Understands

\* The flags and the revision of a new ext are ones an ext can have.
LEMMA CreatedIsExt ==
    ASSUME NEW d, NEW t, NEW v \in Nat, NEW large, NEW feat \in extfs_created(d, t, v, large)
    PROVE  feat \subseteq ExtFlags /\ Revision(d, t) \in {0, 1}
  <1>1. Mentioned(v) \subseteq ExtFlags
    <2>1. mkfeatures \subseteq ExtFlags
      BY FeatureNames DEF ExtFlags, CompatFlags, IncompatFlags, RoCompatFlags
    <2>2. QED  BY <2>1, MentionedFlags
  <1>2. Baseline \subseteq ExtFlags
    BY DEF Baseline, ExtFlags, CompatFlags, IncompatFlags, RoCompatFlags
  <1>3. Asked(d, t, v, large) \subseteq ExtFlags
    BY <1>1 DEF Asked
  <1>4. feat \subseteq ExtFlags
    BY <1>2, <1>3, CreatedFlags
  <1>5. QED  BY <1>4 DEF Revision, GoodOldRev, DynamicRev

\* mkfs.xfs makes a version 4 without features, or a version 5 with ftype and
\* with the features that were saved and that it knows; xfs_admin is only told
\* to change the UUID of a version 4.
LEMMA XfsCreated ==
    ASSUME NEW d, NEW v \in Nat, NEW rhel7, NEW s \in xfs_created(d, v, rhel7)
    PROVE  /\ s.rev \in {4, 5} /\ s.feat \subseteq XfsFlags \ {"meta_uuid"}
           /\ v < PROGVER(4, 3, 0) => s.rev = 4
           /\ (d.xfs /\ v >= PROGVER(4, 3, 0) /\ d.rev \in {4, 5} /\ (d.rev = 4 => d.feat = {})) =>
                 /\ s.rev = d.rev
                 /\ s.feat \cap XfsMentioned(v, rhel7) = d.feat \cap XfsMentioned(v, rhel7)
  <1> DEFINE ver == xfs_version(d, v)
             asked == XfsAsked(d, v, rhel7)
             M == XfsMentioned(v, rhel7)
  <1>1. M \subseteq {"finobt", "sparse", "rmapbt", "reflink", "inobtcount", "bigtime", "nrext64",
                     "exchange", "parent", "metadir", "zoned"}
    BY DEF XfsMentioned, FirstXfsprogs
  <1>2. ver \in {4, 5} /\ (v < PROGVER(4, 3, 0) => ver = 4)
    BY DEF xfs_version, PROGVER
  <1>3. ver = 5 \/ asked = {}
    BY <1>2 DEF xfs_created
  <1>4. s = [rev |-> ver, feat |-> IF ver = 5 THEN asked \cup {"ftype"} ELSE {}]
    BY <1>3 DEF xfs_created
  <1>5. asked \subseteq M
    BY DEF XfsAsked
  <1>6. s.rev \in {4, 5} /\ s.feat \subseteq XfsFlags \ {"meta_uuid"}
    BY <1>1, <1>2, <1>4, <1>5 DEF XfsFlags, XfsSupported
  <1>7. ASSUME d.xfs, v >= PROGVER(4, 3, 0), d.rev \in {4, 5}, d.rev = 4 => d.feat = {}
        PROVE  s.rev = d.rev /\ s.feat \cap M = d.feat \cap M
    <2>1. ver = d.rev
      BY <1>7 DEF xfs_version
    <2>2. CASE ver = 5
      <3>1. asked = d.feat \cap M
        BY <1>7, <2>2 DEF XfsAsked
      <3>2. QED  BY <1>1, <1>4, <2>1, <2>2, <3>1
    <2>3. CASE ver # 5
      <3>1. d.feat = {} /\ s.feat = {}
        BY <1>2, <1>4, <1>7, <2>1, <2>3
      <3>2. QED  BY <1>4, <2>1, <3>1
    <2>4. QED  BY <2>2, <2>3
  <1>8. QED  BY <1>2, <1>4, <1>6, <1>7

\* xfs_admin leaves the version alone.  (job.rhel7 need not be known here.)
LEMMA XfsCreatedType ==
    ASSUME NEW d, NEW v \in Nat, NEW rhel7, NEW s \in xfs_created(d, v, rhel7)
    PROVE  /\ s.rev \in {4, 5} /\ s.feat \subseteq XfsFlags
           /\ xfs_admin(s).rev = s.rev /\ xfs_admin(s).feat \subseteq XfsFlags
  <1> DEFINE ver == xfs_version(d, v)
             asked == XfsAsked(d, v, rhel7)
  <1>1. /\ ver \in {4, 5}
        /\ asked \subseteq XfsMentioned(v, rhel7)
        /\ s = [rev |-> ver, feat |-> IF ver = 5 THEN asked \cup {"ftype"} ELSE {}]
    <2>1. ver \in {4, 5}
      BY DEF xfs_version
    <2>2. asked \subseteq XfsMentioned(v, rhel7)
      BY DEF XfsAsked
    <2>3. QED  BY <2>1, <2>2 DEF xfs_created
  <1>2. XfsMentioned(v, rhel7) \subseteq XfsFlags
    BY DEF XfsMentioned, FirstXfsprogs, XfsFlags, XfsSupported
  <1>3. s.rev \in {4, 5} /\ s.feat \subseteq XfsFlags /\ s = [rev |-> s.rev, feat |-> s.feat]
    BY <1>1, <1>2 DEF XfsFlags, XfsSupported
  <1>4. QED  BY <1>3 DEF xfs_admin, XfsFlags, XfsSupported

-----------------------------------------------------------------------------
(* The machine *)

\* The names of the types and their numbers
LEMMA Names ==
    /\ DOMAIN ExtType = {"ext2", "ext3", "ext4"}
    /\ \A n \in DOMAIN ExtType : ExtType[n] \in {2, 3, 4}
    /\ \A n \in DOMAIN ExtType : \A t \in {2, 3, 4} : ExtType[n] = t <=> FsName(t) = n
    /\ \A t \in {2, 3, 4} : FsName(t) \in DOMAIN ExtType
    /\ ExtType["ext2"] = 2 /\ ExtType["ext3"] = 3 /\ ExtType["ext4"] = 4
    /\ Supported = {"ext2", "ext3", "ext4", "xfs", "ntfs"}
  <1>1. DOMAIN ExtType = {"ext2", "ext3", "ext4"}
    BY DEF ExtType
  <1>2. ExtType["ext2"] = 2 /\ ExtType["ext3"] = 3 /\ ExtType["ext4"] = 4
    BY DEF ExtType
  <1>3. FsName(2) = "ext2" /\ FsName(3) = "ext3" /\ FsName(4) = "ext4"
    BY <1>1, <1>2 DEF FsName
  <1>4. Supported = {"ext2", "ext3", "ext4", "xfs", "ntfs"}
    BY DEF Supported, filesys
  <1>5. \A n \in DOMAIN ExtType : \A t \in {2, 3, 4} : ExtType[n] = t <=> FsName(t) = n
    <2> SUFFICES ASSUME NEW n \in {"ext2", "ext3", "ext4"}, NEW t \in {2, 3, 4}
                 PROVE  ExtType[n] = t <=> FsName(t) = n
      BY <1>1
    <2>1. CASE n = "ext2"
      BY <1>2, <1>3, <2>1
    <2>2. CASE n = "ext3"
      BY <1>2, <1>3, <2>2
    <2>3. CASE n = "ext4"
      BY <1>2, <1>3, <2>3
    <2>4. QED  BY <2>1, <2>2, <2>3
  <1>6. \A n \in DOMAIN ExtType : ExtType[n] \in {2, 3, 4}
    BY <1>1, <1>2
  <1>7. \A t \in {2, 3, 4} : FsName(t) \in DOMAIN ExtType
    BY <1>1, <1>3
  <1>8. QED  BY <1>1, <1>2, <1>4, <1>5, <1>6, <1>7

\* A partition is detected as a type of its own format.
LEMMA DetectedFormat ==
    ASSUME NEW s \in Super, Detected(s) \in Supported
    PROVE  Format(Detected(s)) = s.fs
  <1>1. CASE s.fs = "ext"
    BY <1>1, Names, TypeInRange DEF Detected, Format
  <1>2. CASE s.fs # "ext"
    BY <1>2, Names DEF Detected, Format, Super
  <1>3. QED  BY <1>1, <1>2

\* The machine of a run, as JobsAssumption describes it
LEMMA JobFacts ==
    ASSUME job \in Jobs
    PROVE  /\ job.disk \in [Parts -> Super]
           /\ Len(job.srcs) \in Nat /\ Len(job.srcs) >= 1
           /\ DOMAIN job.srcs = 1 .. Len(job.srcs)
           /\ \A i \in DOMAIN job.srcs : job.srcs[i] \in Parts
           /\ job.e2fstoolsver \in Nat /\ job.xfstoolsver \in Nat
           /\ \A m \in job.mounts :
                 /\ m.part \in Parts /\ m.who = "user"
                 /\ m.fs \in Supported => Format(m.fs) = job.disk[m.part].fs
  <1>1. job.srcs \in Seq(Parts) /\ job.srcs # <<>>
    BY JobsAssumption, Zenon
  <1>2. job.disk \in [Parts -> Super] /\ job.e2fstoolsver \in Nat /\ job.xfstoolsver \in Nat
    BY JobsAssumption, Zenon
  <1>3. \A s \in Seq(Parts) : s # <<>> =>
            /\ Len(s) \in Nat /\ Len(s) >= 1 /\ DOMAIN s = 1 .. Len(s)
            /\ \A i \in DOMAIN s : s[i] \in Parts
    OBVIOUS
  <1>4. \A m \in job.mounts :
            /\ m.part \in Parts /\ m.who = "user"
            /\ m.fs \in Supported => Format(m.fs) = job.disk[m.part].fs
    BY JobsAssumption, Zenon
  <1>5. QED  BY <1>1, <1>2, <1>3, <1>4, Zenon

-----------------------------------------------------------------------------
(* The invariant holds at the start *)

\* The state before savefs begins
LEMMA InitInv == PartitionsInit => PartitionsInv
  <1> SUFFICES ASSUME PartitionsInit  PROVE PartitionsInv
    OBVIOUS
  <1> USE DEF PartitionsInit
  <1>1. job \in Jobs
    OBVIOUS
  <1> DEFINE n == Len(job.srcs)
  <1>2. n \in Nat /\ n >= 1 /\ DOMAIN job.srcs = 1 .. n
    BY <1>1, JobFacts
  <1>3. job.disk \in [Parts -> Super]
    BY <1>1, JobFacts
  <1>4. \A m \in mounts : m.part \in Parts /\ m.who = "user"
    BY <1>1, JobFacts
  <1>5. \A i \in DOMAIN job.srcs : devinfo[i] = NoMount
    OBVIOUS
  <1>6. PartitionsTypeOK
    <2>1. devinfo \in [DOMAIN job.srcs -> [mounted: BOOLEAN, fstype: Supported \cup {"none"}]]
      BY DEF NoMount
    <2>2. busy \in [{"save", "rest"} \X DOMAIN job.srcs -> 0 .. MaxTries]
      BY <1>2 DEF MaxTries
    <2>3. Len(archive) = 0 /\ DOMAIN dicoargv \subseteq DOMAIN archive
      OBVIOUS
    <2>4. faults \in 0 .. MaxFaults
      BY FaultsAssumption
    <2>5. QED  BY <1>2, <1>3, <1>4, <2>1, <2>2, <2>3, <2>4 DEF PartitionsTypeOK, MaxTries
  <1>7. DiskInv /\ BadArgumentTouchesNothing
    BY DEF DiskInv, BadArgumentTouchesNothing, Restoring
  <1>8. MountsInv
    BY <1>1, <1>4, JobFacts DEF MountsInv
  <1>9. DevinfoInv
    BY <1>2, <1>4, <1>5 DEF DevinfoInv, NoMount
  <1>10. BusyInv
    BY <1>2, <1>4 DEF BusyInv, Saving, Restoring
  <1>11. ArchiveInv
    BY DEF ArchiveInv, Restoring
  <1>12. ArgsInv
    BY DEF ArgsInv, Restoring
  <1>13. FormatInv
    BY DEF FormatInv
  <1>14. RestoredInv
    BY DEF RestoredInv, Restoring
  <1>15. QED
    BY <1>1, <1>6, <1>7, <1>8, <1>9, <1>10, <1>11, <1>12, <1>13, <1>14 DEF PartitionsInv

-----------------------------------------------------------------------------
(* The steps of savefs *)

\* What is true while savefs runs: nothing of restfs matters yet.
LEMMA SavingIsQuiet ==
    ASSUME PartitionsInv, UNCHANGED <<job, disk, dicoargv>>, pc \in Saving,
           \/ pc' \in Saving
           \/ pc' = "end" /\ ret' # 0,
           pc' = "args" => cur' = 1
    PROVE  /\ DiskInv' /\ BadArgumentTouchesNothing'
           /\ ArgsInv' /\ FormatInv' /\ RestoredInv'
  <1> USE DEF PartitionsInv
  <1>1. disk = job.disk /\ dicoargv = <<>>
    BY DEF DiskInv, ArgsInv
  <1>2. pc' \notin Restoring
    BY DEF Saving, Restoring
  <1>3. DiskInv' /\ BadArgumentTouchesNothing'
    BY <1>1, <1>2 DEF DiskInv, BadArgumentTouchesNothing
  <1>4. DOMAIN dicoargv = {}
    BY <1>1
  <1>5. ArgsInv'
    BY <1>1, <1>2, <1>4 DEF ArgsInv
  <1>6. FormatInv'
    BY <1>2 DEF FormatInv, Restoring
  <1>7. RestoredInv'
    BY <1>2, <1>4 DEF RestoredInv, Restoring
  <1>8. QED  BY <1>3, <1>5, <1>6, <1>7

\* A partition that was not mounted, or that could not be unmounted, is passed over.
LEMMA SaveUmountNextInv == PartitionsInv /\ save_umount_next => PartitionsInv'
  <1> SUFFICES ASSUME PartitionsInv, save_umount_next  PROVE PartitionsInv'
    OBVIOUS
  <1> USE DEF save_umount_next
  <1>1. PartitionsTypeOK /\ job \in Jobs /\ MountsInv /\ DevinfoInv /\ BusyInv /\ ArchiveInv
    BY DEF PartitionsInv
  <1> DEFINE n == Len(job.srcs)
  <1>2. n \in Nat /\ n >= 1 /\ DOMAIN job.srcs = 1 .. n
    BY <1>1, JobFacts
  <1>3. cur \in 1 .. n
    BY <1>1, <1>2 DEF PartitionsTypeOK
  <1>4. PartitionsTypeOK'
    BY <1>1, <1>2, <1>3 DEF PartitionsTypeOK, MaxTries
  <1>5. DiskInv' /\ BadArgumentTouchesNothing' /\ ArgsInv' /\ FormatInv' /\ RestoredInv'
    BY SavingIsQuiet DEF Saving
  <1>6. MountsInv'
    BY <1>1 DEF MountsInv
  <1>7. DevinfoInv'
    BY <1>1, <1>2, <1>3 DEF DevinfoInv
  <1>8. BusyInv'
    <2>1. \A m \in mounts : m.who = "save" /\ m.n = cur => busy[<<"save", m.n>>] = MaxTries
      BY <1>1, <1>2, <1>3 DEF BusyInv, DevinfoInv
    <2>2. \A m \in mounts : m.who = "save" => m.n \in 1 .. n
      BY <1>1, <1>2 DEF MountsInv
    <2>3. \A i \in 1 .. n : i > cur => busy[<<"save", i>>] = 0
      BY <1>1, <1>2 DEF BusyInv
    <2>4. QED  BY <1>1, <1>2, <1>3, <2>1, <2>2, <2>3 DEF BusyInv, Saving, Restoring
  <1>9. ArchiveInv'
    BY <1>1 DEF ArchiveInv, FsInfo, Restoring
  <1>10. QED  BY <1>1, <1>4, <1>5, <1>6, <1>7, <1>8, <1>9 DEF PartitionsInv

\* The end of oper_save: restfs begins if the archive is there.
LEMMA SaveEndInv == PartitionsInv /\ oper_save_end => PartitionsInv'
  <1> SUFFICES ASSUME PartitionsInv, oper_save_end  PROVE PartitionsInv'
    OBVIOUS
  <1> USE DEF oper_save_end
  <1>1. PartitionsTypeOK /\ job \in Jobs /\ MountsInv /\ DevinfoInv /\ BusyInv /\ ArchiveInv
    BY DEF PartitionsInv
  <1> DEFINE n == Len(job.srcs)
  <1>2. n \in Nat /\ n >= 1 /\ DOMAIN job.srcs = 1 .. n
    BY <1>1, JobFacts
  <1>3. cur = n + 1 /\ tries = 0
    BY <1>1, <1>2 DEF PartitionsTypeOK, BusyInv
  <1>4. PartitionsTypeOK'
    BY <1>1, <1>2, <1>3 DEF PartitionsTypeOK
  <1>5. DiskInv' /\ BadArgumentTouchesNothing' /\ ArgsInv' /\ FormatInv' /\ RestoredInv'
    BY SavingIsQuiet DEF Saving
  <1>6. MountsInv'
    BY <1>1 DEF MountsInv
  <1>7. DevinfoInv'
    BY <1>1, <1>2, <1>3 DEF DevinfoInv
  <1>8. BusyInv'
    <2>1. \A m \in mounts : m.who = "save" => m.n \in 1 .. n
      BY <1>1, <1>2 DEF MountsInv
    <2>2. \A m \in mounts : m.who = "save" => busy[<<"save", m.n>>] = MaxTries
      BY <1>1, <1>2, <1>3, <2>1 DEF BusyInv
    <2>3. \A m \in mounts : m.who # "rest"
      BY <1>1 DEF BusyInv
    <2>4. \A i \in DOMAIN job.srcs : busy[<<"rest", i>>] = 0
      BY <1>1 DEF BusyInv, Saving
    <2>5. QED  BY <1>3, <2>2, <2>3, <2>4 DEF BusyInv, Saving, Restoring
  <1>9. ArchiveInv'
    BY <1>1 DEF ArchiveInv, FsInfo, Restoring
  <1>10. QED  BY <1>1, <1>4, <1>5, <1>6, <1>7, <1>8, <1>9 DEF PartitionsInv

\* One attempt of oper_save to unmount a partition
LEMMA SaveUmountInv == PartitionsInv /\ save_umount => PartitionsInv'
  <1> SUFFICES ASSUME PartitionsInv, save_umount  PROVE PartitionsInv'
    OBVIOUS
  <1> USE DEF save_umount
  <1>1. PartitionsTypeOK /\ job \in Jobs /\ MountsInv /\ DevinfoInv /\ BusyInv /\ ArchiveInv
    BY DEF PartitionsInv
  <1> DEFINE n == Len(job.srcs)
  <1>2. n \in Nat /\ n >= 1 /\ DOMAIN job.srcs = 1 .. n
    BY <1>1, JobFacts
  <1>3. cur \in 1 .. n /\ tries \in 0 .. 3
    BY <1>1, <1>2 DEF PartitionsTypeOK, MaxTries
  <1>4. PICK own : own = Own("save")
    OBVIOUS
  <1>5. own \in mounts /\ own.who = "save" /\ own.n = cur
    <2>1. \E m \in mounts : m.who = "save" /\ m.n = cur
      BY <1>1, <1>2, <1>3 DEF DevinfoInv
    <2>2. QED  BY <1>4, <2>1 DEF Own
  <1>6. \A m \in mounts : m # own => ~(m.who = "save" /\ m.n = cur)
    BY <1>1, <1>5 DEF MountsInv
  <1>7. DiskInv' /\ BadArgumentTouchesNothing' /\ ArgsInv' /\ FormatInv' /\ RestoredInv'
    BY SavingIsQuiet DEF Saving
  <1>8. ArchiveInv'
    BY <1>1 DEF ArchiveInv, FsInfo, Restoring
  <1>9. \A i \in 1 .. n : (i = cur => busy[<<"save", i>>] = tries) /\ (i > cur => busy[<<"save", i>>] = 0)
    BY <1>1, <1>2 DEF BusyInv
  <1>10. \A m \in mounts : m.who # "user" => m.n \in 1 .. n
    BY <1>1, <1>2 DEF MountsInv
  <1>a. faults' \in 0 .. MaxFaults
    BY <1>1, FaultsAssumption DEF PartitionsTypeOK, generic_umount, NoFault, Fault
  <1>11. CASE mounts' = mounts \ {own} /\ tries' = 0 /\ UNCHANGED busy
    <2>1. cur' = cur + 1
      BY <1>5, <1>11
    <2>2. PartitionsTypeOK'
      BY <1>1, <1>2, <1>3, <1>11, <1>a, <2>1 DEF PartitionsTypeOK, MaxTries
    <2>3. MountsInv'
      BY <1>1, <1>11 DEF MountsInv
    <2>4. DevinfoInv'
      <3>1. \A i \in 1 .. n : devinfo[i].mounted /\ i >= cur + 1 =>
                \E m \in mounts \ {own} : m.who = "save" /\ m.n = i
        BY <1>1, <1>2, <1>3, <1>5 DEF DevinfoInv
      <3>2. QED  BY <1>1, <1>2, <1>11, <2>1, <3>1 DEF DevinfoInv
    <2>5. BusyInv'
      BY <1>1, <1>2, <1>3, <1>6, <1>9, <1>10, <1>11, <2>1 DEF BusyInv, Saving, Restoring
    <2>6. QED  BY <1>1, <1>7, <1>8, <2>2, <2>3, <2>4, <2>5 DEF PartitionsInv
  <1>b. <<"save", cur>> \in {"save", "rest"} \X DOMAIN job.srcs
    BY <1>2, <1>3
  <1>12. ASSUME NEW t \in 1 .. 4, busy' = [busy EXCEPT ![<<"save", cur>>] = t],
                tries' = t, UNCHANGED mounts
         PROVE  PartitionsInv'
    <2>1. cur' = cur
      BY <1>12
    <2>2. <<"save", cur>> \in {"save", "rest"} \X DOMAIN job.srcs
      BY <1>b
    <2>3. busy \in [{"save", "rest"} \X DOMAIN job.srcs -> 0 .. MaxTries]
      BY <1>1 DEF PartitionsTypeOK
    <2>4. busy' = [busy EXCEPT ![<<"save", cur>>] = t]
      BY <1>12
    <2>5. PartitionsTypeOK'
      BY <1>1, <1>2, <1>3, <1>12, <1>a, <2>1, <2>2, <2>3, <2>4 DEF PartitionsTypeOK, MaxTries
    <2>6. MountsInv' /\ DevinfoInv'
      BY <1>1, <1>12, <2>1 DEF MountsInv, DevinfoInv
    <2>7. /\ busy'[<<"save", cur>>] = t
          /\ \A i \in 1 .. n : i # cur => busy'[<<"save", i>>] = busy[<<"save", i>>]
          /\ \A i \in 1 .. n : busy'[<<"rest", i>>] = busy[<<"rest", i>>]
      BY <1>2, <2>2, <2>3, <2>4
    <2>8. BusyInv'
      <3>1. \A m \in mounts : m.who = "save" => m.n >= cur \/ busy'[<<"save", m.n>>] = MaxTries
        BY <1>1, <1>2, <1>3, <1>10, <2>7 DEF BusyInv
      <3>2. \A m \in mounts : m.who # "rest"
        BY <1>1 DEF BusyInv
      <3>3. \A i \in 1 .. n : busy'[<<"rest", i>>] = 0
        BY <1>1, <1>2, <2>7 DEF BusyInv, Saving
      <3>4. \A i \in 1 .. n : (i = cur => busy'[<<"save", i>>] = t)
                              /\ (i > cur => busy'[<<"save", i>>] = 0)
        <4>1. ASSUME NEW i \in 1 .. n, i > cur  PROVE busy'[<<"save", i>>] = 0
          <5>1. i # cur /\ busy[<<"save", i>>] = 0
            BY <1>3, <1>9, <4>1
          <5>2. QED  BY <2>7, <5>1
        <4>2. QED  BY <2>7, <4>1
      <3>5. QED  BY <1>2, <1>3, <1>12, <2>1, <3>1, <3>2, <3>3, <3>4 DEF BusyInv, Saving, Restoring
    <2>9. QED  BY <1>1, <1>7, <1>8, <2>5, <2>6, <2>8 DEF PartitionsInv
  <1>13. CASE SeenBusy(own) /\ tries' = tries + 1 /\ UNCHANGED mounts
    <2>1. busy \in [{"save", "rest"} \X DOMAIN job.srcs -> 0 .. MaxTries]
      BY <1>1 DEF PartitionsTypeOK
    <2>2. busy' = [busy EXCEPT ![<<"save", cur>>] = tries + 1]
      BY <1>3, <1>5, <1>9, <1>13, <1>b, <2>1 DEF SeenBusy, MaxTries
    <2>3. tries + 1 \in 1 .. 4
      BY <1>3
    <2>4. QED  BY <1>12, <1>13, <2>2, <2>3
  <1>14. CASE /\ busy' = [busy EXCEPT ![<<own.who, own.n>>] = MaxTries]
              /\ tries' = MaxTries /\ UNCHANGED mounts
    BY <1>5, <1>12, <1>14 DEF MaxTries
  <1>15. QED  BY <1>4, <1>11, <1>13, <1>14 DEF generic_umount

\* The archive is complete, or there is none.
LEMMA SaveContentsInv == PartitionsInv /\ createar_oper_savefs => PartitionsInv'
  <1> SUFFICES ASSUME PartitionsInv, createar_oper_savefs  PROVE PartitionsInv'
    OBVIOUS
  <1> USE DEF createar_oper_savefs, GoUnmount
  <1>1. PartitionsTypeOK /\ job \in Jobs /\ MountsInv /\ DevinfoInv /\ BusyInv /\ ArchiveInv
    BY DEF PartitionsInv
  <1> DEFINE n == Len(job.srcs)
  <1>2. n \in Nat /\ n >= 1 /\ DOMAIN job.srcs = 1 .. n
    BY <1>1, JobFacts
  <1>3. disk = job.disk /\ dicoargv = <<>>
    BY DEF PartitionsInv, DiskInv, ArgsInv, Saving
  <1>4. DiskInv' /\ BadArgumentTouchesNothing' /\ ArgsInv' /\ FormatInv' /\ RestoredInv'
    BY SavingIsQuiet DEF Saving
  <1>5. MountsInv' /\ DevinfoInv'
    BY <1>1, <1>2 DEF MountsInv, DevinfoInv
  <1>6. BusyInv'
    BY <1>1, <1>2 DEF BusyInv, MountsInv, Saving, Restoring
  <1>7. faults' \in 0 .. MaxFaults /\ ret' \in {0, -1}
    BY <1>1, FaultsAssumption DEF PartitionsTypeOK, Fault, NoFault
  <1>8. CASE /\ GoUnmount(0)
             /\ archive' = [i \in DOMAIN job.srcs |->
                             FsInfo(devinfo[i].fstype, disk[job.srcs[i]])]
    <2>1. DOMAIN archive' = DOMAIN job.srcs /\ Len(archive') = n
      BY <1>2, <1>8
    <2>2. archive' # <<>>
      BY <1>2, <2>1
    <2>3. \A i \in DOMAIN job.srcs :
              /\ archive'[i].fstype = devinfo[i].fstype
              /\ archive'[i] = FsInfo(devinfo[i].fstype, job.disk[job.srcs[i]])
      BY <1>3, <1>8 DEF FsInfo
    <2>4. \A i \in DOMAIN job.srcs :
              /\ devinfo[i].fstype \in Supported
              /\ Format(devinfo[i].fstype) = job.disk[job.srcs[i]].fs
      BY <1>1 DEF DevinfoInv
    <2>5. ArchiveInv'
      <3>1. \A i \in DOMAIN job.srcs :
                /\ archive'[i] = FsInfo(archive'[i].fstype, job.disk[job.srcs[i]])
                /\ archive'[i].fstype \in Supported
                /\ Format(archive'[i].fstype) = job.disk[job.srcs[i]].fs
        BY <2>3, <2>4, Zenon
      <3>2. job' = job /\ ret' = 0 /\ pc' = "umount"
        BY <1>8
      <3>3. QED  BY <2>1, <2>2, <3>1, <3>2 DEF ArchiveInv, Restoring
    <2>6. PartitionsTypeOK'
      BY <1>1, <1>2, <1>3, <1>7, <2>1 DEF PartitionsTypeOK
    <2>7. QED  BY <1>1, <1>4, <1>5, <1>6, <2>5, <2>6 DEF PartitionsInv
  <1>9. CASE ret' = -1 /\ UNCHANGED archive
    <2>1. ArchiveInv'
      BY <1>1, <1>9 DEF ArchiveInv, FsInfo, Restoring
    <2>2. PartitionsTypeOK'
      BY <1>1, <1>2, <1>3, <1>7, <1>9 DEF PartitionsTypeOK
    <2>3. QED  BY <1>1, <1>4, <1>5, <1>6, <2>1, <2>2 DEF PartitionsInv
  <1>10. QED  BY <1>8, <1>9

\* What an attempt to mount the next partition of savefs comes to: a mount of
\* the format that is there, after which the next partition or the contents
\* follow or everything is unmounted; or no mount.
LEMMA MountOutcome ==
    ASSUME PartitionsInv, filesystem_mount_partition
    PROVE  /\ faults' \in 0 .. MaxFaults
           /\ \/ /\ \E fs \in Supported :
                       /\ Format(fs) = job.disk[Src].fs
                       /\ mounts' = mounts \cup {OwnMount(fs)}
                       /\ devinfo' = [devinfo EXCEPT ![cur] = [mounted |-> TRUE, fstype |-> fs]]
                 /\ \/ cur = Len(job.srcs) /\ pc' = "contents" /\ cur' = 1 /\ ret' = ret
                    \/ cur # Len(job.srcs) /\ pc' = "mount" /\ cur' = cur + 1 /\ ret' = ret
                    \/ pc' = "umount" /\ cur' = 1 /\ ret' = -1
              \/ /\ UNCHANGED <<mounts, devinfo>>
                 /\ pc' = "umount" /\ cur' = 1 /\ ret' = -1
  <1>1. PartitionsTypeOK /\ job \in Jobs /\ MountsInv /\ DevinfoInv /\ pc = "mount"
    BY DEF PartitionsInv, filesystem_mount_partition
  <1>2. disk = job.disk
    BY <1>1 DEF PartitionsInv, DiskInv, Saving
  <1>3. Src \in Parts /\ job.disk[Src] \in Super
    BY <1>1, JobFacts DEF DevinfoInv, Src
  <1>4. MountFails => UNCHANGED <<mounts, devinfo>> /\ pc' = "umount" /\ cur' = 1 /\ ret' = -1
    BY DEF MountFails, GoUnmount
  <1>5. ASSUME NEW fs \in Supported, Format(fs) = job.disk[Src].fs, MountDone(OwnMount(fs))
        PROVE  /\ mounts' = mounts \cup {OwnMount(fs)}
               /\ devinfo' = [devinfo EXCEPT ![cur] = [mounted |-> TRUE, fstype |-> fs]]
               /\ \/ cur = Len(job.srcs) /\ pc' = "contents" /\ cur' = 1 /\ ret' = ret
                  \/ cur # Len(job.srcs) /\ pc' = "mount" /\ cur' = cur + 1 /\ ret' = ret
                  \/ pc' = "umount" /\ cur' = 1 /\ ret' = -1
    <2>1. OwnMount(fs).fs = fs
      BY DEF OwnMount
    <2>2. /\ mounts' = mounts \cup {OwnMount(fs)}
          /\ devinfo' = [devinfo EXCEPT ![cur] = [mounted |-> TRUE, fstype |-> fs]]
      BY <1>5, <2>1 DEF MountDone, mountedbyfsa
    <2>3. \/ cur = Len(job.srcs) /\ pc' = "contents" /\ cur' = 1 /\ ret' = ret
          \/ cur # Len(job.srcs) /\ pc' = "mount" /\ cur' = cur + 1 /\ ret' = ret
          \/ pc' = "umount" /\ cur' = 1 /\ ret' = -1
      BY <1>5 DEF MountDone, GoUnmount
    <2>4. QED  BY <2>2, <2>3
  <1>6. faults' \in 0 .. MaxFaults
    <2>1. faults \in 0 .. MaxFaults /\ MaxFaults \in Nat
      BY <1>1, FaultsAssumption DEF PartitionsTypeOK
    <2>2. faults' = faults \/ (faults < MaxFaults /\ faults' = faults + 1)
      BY DEF filesystem_mount_partition, MountDone, MountFails, Fault, NoFault
    <2>3. QED  BY <2>1, <2>2
  <1>7. CASE Mounted(Src)
    <2> DEFINE m == generic_get_mntinfo(Src)
    <2>1. m \in mounts /\ m.part = Src
      BY <1>7 DEF generic_get_mntinfo, Mounted, Entries
    <2>2. MountFails \/ (AcceptsMount(m) /\ MountDone(OwnMount(m.fs)))
      BY <1>7 DEF filesystem_mount_partition
    <2>3. AcceptsMount(m) => m.fs \in Supported /\ Format(m.fs) = job.disk[Src].fs
      BY <1>1, <2>1 DEF AcceptsMount, MountsInv
    <2> HIDE DEF m
    <2>4. QED  BY <1>4, <1>5, <1>6, <2>2, <2>3
  <1>8. CASE ~Mounted(Src)
    <2> DEFINE fs == Detected(disk[Src])
    <2>1. MountFails \/ (fs \in Supported /\ MountDone(OwnMount(fs)))
      BY <1>8 DEF filesystem_mount_partition
    <2>2. fs \in Supported => Format(fs) = job.disk[Src].fs
      BY <1>2, <1>3, DetectedFormat
    <2> HIDE DEF fs
    <2>3. QED  BY <1>4, <1>5, <1>6, <2>1, <2>2
  <1>9. QED  BY <1>7, <1>8

\* A partition is mounted and its checks decide, or it cannot be mounted.
LEMMA SaveMountInv == PartitionsInv /\ filesystem_mount_partition => PartitionsInv'
  <1> SUFFICES ASSUME PartitionsInv, filesystem_mount_partition  PROVE PartitionsInv'
    OBVIOUS
  <1>1. PartitionsTypeOK /\ job \in Jobs /\ MountsInv /\ DevinfoInv /\ BusyInv /\ ArchiveInv
    BY DEF PartitionsInv
  <1>2. /\ pc = "mount" /\ UNCHANGED <<job, disk, archive, dicoargv, tries, busy>>
        /\ pc' \in {"mount", "contents", "umount"}
    BY MountOutcome DEF filesystem_mount_partition
  <1> DEFINE n == Len(job.srcs)
  <1>3. n \in Nat /\ n >= 1 /\ DOMAIN job.srcs = 1 .. n /\ cur \in 1 .. n
    BY <1>1, <1>2, JobFacts DEF DevinfoInv
  <1>4. ret = 0 /\ tries = 0
    BY <1>1, <1>2 DEF ArchiveInv, BusyInv
  <1>5. DiskInv' /\ BadArgumentTouchesNothing' /\ ArgsInv' /\ FormatInv' /\ RestoredInv'
    BY <1>2, SavingIsQuiet DEF Saving
  <1>6. ret' \in {0, -1} /\ (pc' # "umount" => ret' = 0) /\ (pc' = "umount" => ret' = -1)
    BY <1>4, MountOutcome
  <1>7. ArchiveInv'
    BY <1>1, <1>2, <1>6 DEF ArchiveInv, FsInfo, Restoring
  <1>8. cur' \in 1 .. n + 1 /\ (pc' = "mount" => cur' = cur + 1 /\ cur < n) /\ (pc' # "mount" => cur' = 1)
    BY <1>3, MountOutcome
  <1>9. PartitionsTypeOK' /\ MountsInv' /\ DevinfoInv'
    <2>1. CASE UNCHANGED <<mounts, devinfo>> /\ pc' = "umount"
      <3>1. PartitionsTypeOK'
        BY <1>1, <1>2, <1>3, <1>6, <1>8, <2>1, MountOutcome DEF PartitionsTypeOK
      <3>2. MountsInv'
        BY <1>1, <1>2, <2>1 DEF MountsInv
      <3>3. DevinfoInv'
        BY <1>1, <1>2, <1>3, <2>1 DEF DevinfoInv
      <3>4. QED  BY <3>1, <3>2, <3>3
    <2>2. ASSUME NEW fs \in Supported,
                 Format(fs) = job.disk[Src].fs,
                 mounts' = mounts \cup {OwnMount(fs)},
                 devinfo' = [devinfo EXCEPT ![cur] = [mounted |-> TRUE, fstype |-> fs]]
          PROVE  PartitionsTypeOK' /\ MountsInv' /\ DevinfoInv'
      <3>1. PICK own : own = OwnMount(fs)
        OBVIOUS
      <3>2. own.part = job.srcs[cur] /\ own.who = "save" /\ own.n = cur /\ own.fs = fs
        BY <3>1 DEF OwnMount, Src
      <3>3. job.srcs[cur] \in Parts /\ mounts' = mounts \cup {own}
        BY <1>1, <1>3, <2>2, <3>1, JobFacts
      <3>4. devinfo \in [DOMAIN job.srcs -> [mounted: BOOLEAN, fstype: Supported \cup {"none"}]]
        BY <1>1 DEF PartitionsTypeOK
      <3>5. /\ devinfo' \in [DOMAIN job.srcs -> [mounted: BOOLEAN, fstype: Supported \cup {"none"}]]
            /\ devinfo'[cur].mounted /\ devinfo'[cur].fstype = fs
            /\ \A i \in 1 .. n : i # cur => devinfo'[i] = devinfo[i]
        BY <1>3, <2>2, <3>4
      <3>6. PartitionsTypeOK'
        <4>1. \A m \in mounts' : m.part \in Parts /\ m.who \in {"user", "save", "rest"}
          BY <1>1, <3>2, <3>3 DEF PartitionsTypeOK
        <4>2. QED
          BY <1>1, <1>2, <1>3, <1>6, <1>8, <3>5, <4>1, MountOutcome DEF PartitionsTypeOK
      <3>7. \A m \in mounts : m.who = "save" => m.n \in 1 .. n /\ m.n < cur
        BY <1>1, <1>2, <1>3 DEF DevinfoInv, MountsInv
      <3>8. MountsInv'
        <4>1. \A m, o \in mounts' : m.who # "user" /\ m.who = o.who /\ m.n = o.n => m = o
          BY <1>1, <1>3, <3>2, <3>3, <3>7 DEF MountsInv
        <4>2. \A m \in mounts' : m.who # "user" => m.n \in DOMAIN job.srcs
          BY <1>1, <1>3, <3>2, <3>3 DEF MountsInv
        <4>3. \A m \in mounts' : m.fs \in Supported => Format(m.fs) = job.disk[m.part].fs
          BY <1>1, <1>2, <2>2, <3>2, <3>3 DEF MountsInv, Src
        <4>4. QED  BY <1>2, <4>1, <4>2, <4>3 DEF MountsInv
      <3>9. DevinfoInv'
        <4>1. \A i \in DOMAIN job.srcs : devinfo'[i].mounted =>
                  devinfo'[i].fstype \in Supported /\ Format(devinfo'[i].fstype) = job.disk[job.srcs[i]].fs
          BY <1>1, <1>3, <2>2, <3>5 DEF DevinfoInv, Src
        <4>2. \A i \in DOMAIN job.srcs : devinfo'[i].mounted <=> i < cur + 1
          BY <1>1, <1>2, <1>3, <3>5 DEF DevinfoInv
        <4>3. \A m \in mounts' : m.who = "save" => devinfo'[m.n].mounted
          BY <1>3, <3>2, <3>3, <3>7, <4>2
        <4>4. \A i \in DOMAIN job.srcs : devinfo'[i].mounted => \E m \in mounts' : m.who = "save" /\ m.n = i
          BY <1>1, <1>2, <1>3, <3>2, <3>3, <3>5 DEF DevinfoInv
        <4>5. pc' = "contents" => cur = n
          BY <1>2, MountOutcome
        <4>6. pc' = "contents" => \A i \in DOMAIN job.srcs : devinfo'[i].mounted
          BY <1>3, <4>2, <4>5
        <4>7. pc' = "mount" => /\ cur' \in DOMAIN job.srcs
                               /\ \A i \in DOMAIN job.srcs : devinfo'[i].mounted <=> i < cur'
          BY <1>3, <1>8, <4>2
        <4>8. QED  BY <1>2, <4>1, <4>3, <4>4, <4>6, <4>7 DEF DevinfoInv
      <3>10. QED  BY <3>6, <3>8, <3>9
    <2>3. QED  BY <2>1, <2>2, MountOutcome
  <1>10. BusyInv'
    <2>1. \A i \in 1 .. n : busy[<<"save", i>>] = 0 /\ busy[<<"rest", i>>] = 0
      BY <1>1, <1>2, <1>3 DEF BusyInv, Saving
    <2>2. \A m \in mounts' : m.who # "rest"
      BY <1>1, <1>2, MountOutcome DEF BusyInv, OwnMount
    <2>3. \A m \in mounts' : m.who = "save" => m.n \in 1 .. n
      BY <1>2, <1>3, <1>9 DEF MountsInv
    <2>4. \A m \in mounts' : m.who = "save" =>
              pc' \in {"mount", "contents"} \/ (pc' = "umount" /\ m.n >= cur')
      BY <1>2, <1>8, <2>3
    <2>5. busy' = busy /\ tries' = 0 /\ job' = job /\ pc' \in Saving /\ pc' # "rumount"
      BY <1>2, <1>4 DEF Saving
    <2>6. QED  BY <1>2, <1>3, <2>1, <2>2, <2>4, <2>5 DEF BusyInv
  <1>11. QED  BY <1>1, <1>2, <1>5, <1>7, <1>9, <1>10 DEF PartitionsInv

-----------------------------------------------------------------------------
(* The steps of restfs *)

\* restfs leaves what savefs noted, its archive and its mounts alone.
LEMMA RestoringIsQuiet ==
    ASSUME PartitionsInv, UNCHANGED <<job, devinfo, archive>>,
           pc \in {"args"} \cup Restoring, pc' \in Restoring \cup {"end"},
           \A m \in mounts' : m.who = "save" => m \in mounts,
           pc' \in Restoring \ {"rumount"} => ret' = 0
    PROVE  DevinfoInv' /\ ArchiveInv'
  <1>1. DevinfoInv /\ ArchiveInv
    BY DEF PartitionsInv
  <1>2. DevinfoInv'
    BY <1>1 DEF DevinfoInv, Restoring
  <1>3. ArchiveInv'
    <2>1. archive # <<>>
      BY <1>1 DEF ArchiveInv
    <2>2. pc' \notin {"mount", "contents", "args"}
      BY DEF Restoring
    <2>3. QED  BY <1>1, <2>1, <2>2 DEF ArchiveInv, FsInfo, Restoring
  <1>4. QED  BY <1>2, <1>3

\* What the tests of restfs use of the archive and of its arguments
LEMMA RestoringFacts ==
    ASSUME PartitionsInv, pc \in {"args"} \cup Restoring
    PROVE  /\ job \in Jobs
           /\ Len(job.srcs) \in Nat /\ Len(job.srcs) >= 1
           /\ DOMAIN job.srcs = 1 .. Len(job.srcs) /\ DOMAIN archive = 1 .. Len(job.srcs)
           /\ Len(archive) = Len(job.srcs)
           /\ DOMAIN dicoargv \subseteq 1 .. Len(job.srcs)
           /\ \A id \in DOMAIN dicoargv : dicoargv[id].dest \in Parts
           /\ \A i \in DOMAIN archive : archive[i].uuid \in Uuids /\ archive[i].content \in Contents
  <1>1. PartitionsTypeOK /\ job \in Jobs /\ ArchiveInv /\ ArgsInv
    BY DEF PartitionsInv
  <1>2. /\ Len(job.srcs) \in Nat /\ Len(job.srcs) >= 1
        /\ DOMAIN job.srcs = 1 .. Len(job.srcs)
    BY <1>1, JobFacts
  <1>3. DOMAIN archive = 1 .. Len(job.srcs) /\ Len(archive) = Len(job.srcs)
    BY <1>1, <1>2 DEF ArchiveInv, Restoring
  <1>4. DOMAIN dicoargv \subseteq 1 .. Len(job.srcs)
    BY <1>1, <1>3 DEF PartitionsTypeOK
  <1>6. \A id \in DOMAIN dicoargv : dicoargv[id].dest \in Parts
    BY <1>1 DEF ArgsInv
  <1>7. \A i \in DOMAIN archive : archive[i].uuid \in Uuids /\ archive[i].content \in Contents
    <2> SUFFICES ASSUME NEW i \in DOMAIN archive
                 PROVE  archive[i].uuid \in Uuids /\ archive[i].content \in Contents
      OBVIOUS
    <2>1. PICK s \in Super : s = job.disk[job.srcs[i]]
      BY <1>1, <1>2, <1>3, JobFacts
    <2>2. archive[i] = FsInfo(archive[i].fstype, s)
      BY <1>1, <1>2, <1>3, <2>1 DEF ArchiveInv, Restoring
    <2>3. archive[i].uuid = s.uuid /\ archive[i].content = s.content
      BY <2>2 DEF FsInfo
    <2>4. QED  BY <2>1, <2>3 DEF Super
  <1>8. QED  BY <1>1, <1>2, <1>3, <1>4, <1>6, <1>7

\* All the arguments are right and are taken over, or restfs ends.
LEMMA RestArgsInv == PartitionsInv /\ restfs_args => PartitionsInv'
  <1> SUFFICES ASSUME PartitionsInv, restfs_args  PROVE PartitionsInv'
    OBVIOUS
  <1>1. /\ PartitionsTypeOK /\ job \in Jobs /\ DiskInv /\ BadArgumentTouchesNothing /\ MountsInv
        /\ BusyInv /\ ArchiveInv /\ ArgsInv
    BY DEF PartitionsInv
  <1>2. /\ pc = "args"
        /\ UNCHANGED <<job, disk, mounts, devinfo, archive, cur, tries, faults, busy>>
        /\ pc' \in {"next", "end"}
    BY DEF restfs_args
  <1> DEFINE n == Len(job.srcs)
  <1>3. /\ n \in Nat /\ n >= 1 /\ DOMAIN job.srcs = 1 .. n /\ DOMAIN archive = 1 .. n
        /\ Len(archive) = n
    BY <1>2, RestoringFacts
  <1>4. ret = 0 /\ cur = 1 /\ dicoargv = <<>> /\ disk = job.disk /\ tries = 0
    BY <1>1, <1>2 DEF ArchiveInv, ArgsInv, DiskInv, BusyInv, Saving
  <1>5. DevinfoInv' /\ ArchiveInv'
    <2>1. pc' = "next" => ret' = 0
      BY <1>4 DEF restfs_args
    <2>2. QED  BY <1>2, <2>1, RestoringIsQuiet DEF Restoring
  <1>6. MountsInv'
    BY <1>1, <1>2 DEF MountsInv
  <1>7. BusyInv'
    BY <1>1, <1>2, <1>4 DEF BusyInv, Saving, Restoring
  <1>8. BadArgumentTouchesNothing'
    BY <1>2, <1>4 DEF BadArgumentTouchesNothing
  <1>9. FormatInv'
    BY <1>2 DEF FormatInv
  <1>10. CASE convert_argv_to_strdicos(job.args) /\ KnownIds(job.args)
    <2>1. /\ dicoargv' = [id \in {job.args[i].id : i \in DOMAIN job.args} |->
                              job.args[CHOOSE i \in DOMAIN job.args : job.args[i].id = id]]
          /\ pc' = "next" /\ ret' = 0
      BY <1>4, <1>10 DEF restfs_args
    <2>2. \A i \in DOMAIN job.args : job.args[i].id \in 1 .. n /\ job.args[i].dest \in Parts
      <3>1. \A i \in DOMAIN job.args : job.args[i].id \in Int
        BY <1>1, JobsAssumption, Zenon
      <3>2. QED  BY <1>3, <1>10, <3>1 DEF convert_argv_to_strdicos, KnownIds
    <2>3. DOMAIN dicoargv' \subseteq 1 .. n
      BY <2>1, <2>2
    <2>4. \A id \in DOMAIN dicoargv' : \E i \in DOMAIN job.args :
              dicoargv'[id] = job.args[i] /\ job.args[i].id = id /\ job.args[i].dest \in Parts
      BY <2>1, <2>2
    <2>5. ~BadArgument
      BY <1>3, <1>10, <2>2 DEF BadArgument, convert_argv_to_strdicos
    <2>6. PartitionsTypeOK'
      BY <1>1, <1>2, <1>3, <2>1, <2>3 DEF PartitionsTypeOK
    <2>7. DiskInv'
      <3>1. job' = job
        BY <1>2
      <3>2. ~BadArgument'
        BY <2>5, <3>1 DEF BadArgument
      <3>3. QED  BY <2>1, <3>2 DEF DiskInv, Saving
    <2>8. ArgsInv'
      <3>1. job' = job
        BY <1>2
      <3>2. pc' = "next"
        BY <2>1
      <3>3. QED  BY <2>4, <3>1, <3>2 DEF ArgsInv, Saving
    <2>9. RestoredInv'
      <3>1. pc' = "next" /\ cur' = 1
        BY <1>2, <1>4, <2>1
      <3>2. \A id \in DOMAIN dicoargv' : ~(id < 1)
        BY <2>3
      <3>3. QED  BY <3>1, <3>2 DEF RestoredInv
    <2>10. QED
      BY <1>1, <1>2, <1>5, <1>6, <1>7, <1>8, <1>9, <2>6, <2>7, <2>8, <2>9 DEF PartitionsInv
  <1>11. CASE ~(convert_argv_to_strdicos(job.args) /\ KnownIds(job.args))
    <2>1. pc' = "end" /\ ret' = -1 /\ dicoargv' = dicoargv
      BY <1>11 DEF restfs_args
    <2>2. PartitionsTypeOK'
      BY <1>1, <1>2, <1>3, <2>1 DEF PartitionsTypeOK
    <2>3. DiskInv'
      BY <2>1 DEF DiskInv, Saving, Restoring
    <2>4. ArgsInv'
      BY <1>1, <1>2, <2>1 DEF ArgsInv, Saving, Restoring
    <2>5. RestoredInv'
      BY <2>1 DEF RestoredInv
    <2>6. QED
      BY <1>1, <1>2, <1>5, <1>6, <1>7, <1>8, <1>9, <2>2, <2>3, <2>4, <2>5 DEF PartitionsInv
  <1>12. QED  BY <1>10, <1>11

\* The arguments of restfs stay right, so that it may touch its destinations.
LEMMA RestoringKeepsArgs ==
    ASSUME PartitionsInv, UNCHANGED <<job, dicoargv>>,
           pc \in Restoring, pc' \in Restoring \cup {"end"},
           pc' \in Restoring \ {"next"} => cur' \in DOMAIN dicoargv
    PROVE  DiskInv' /\ BadArgumentTouchesNothing' /\ ArgsInv'
  <1>1. DiskInv /\ ArgsInv
    BY DEF PartitionsInv
  <1>2. ~BadArgument
    BY <1>1 DEF DiskInv
  <1>3. ~BadArgument'
    BY <1>2 DEF BadArgument
  <1>4. pc' \notin Saving
    BY DEF Saving, Restoring
  <1>5. DiskInv' /\ BadArgumentTouchesNothing'
    BY <1>3, <1>4 DEF DiskInv, BadArgumentTouchesNothing
  <1>6. pc' # "args"
    BY DEF Restoring
  <1>7. ArgsInv'
    BY <1>1, <1>4, <1>6 DEF ArgsInv
  <1>8. QED  BY <1>5, <1>7

\* What was restored on a partition is still there when nothing is done to it.
LEMMA AskedIsKept ==
    ASSUME NEW id, UNCHANGED <<archive, dicoargv>>,
           disk'[dicoargv[id].dest] = disk[dicoargv[id].dest], IsAsked(id)
    PROVE  IsAsked(id)'
  BY DEF IsAsked

\* A step that only moves on keeps what was restored.
LEMMA RestoredIsKept ==
    ASSUME PartitionsInv, UNCHANGED <<disk, archive, dicoargv>>,
           pc \in Restoring, pc' \in {"next", "mkfs", "end"},
           ret' = 0 => ret = 0,
           ret' = 0 => \A id \in DOMAIN dicoargv : id < cur' \/ pc' = "end" =>
                           \/ id < cur
                           \/ IsAsked(id) /\ disk[dicoargv[id].dest].content = archive[id].content
    PROVE  RestoredInv'
  <1>1. RestoredInv
    BY DEF PartitionsInv
  <1>2. pc' \notin {"rmount", "objects", "rumount"}
    OBVIOUS
  <1>3. ASSUME ret' = 0, NEW id \in DOMAIN dicoargv, id < cur' \/ pc' = "end", Alone(id)
        PROVE  IsAsked(id) /\ disk[dicoargv[id].dest].content = archive[id].content
    BY <1>1, <1>3 DEF RestoredInv
  <1>4. \A id : Alone(id)' <=> Alone(id)
    BY DEF Alone
  <1>5. ASSUME ret' = 0, NEW id \in DOMAIN dicoargv', id < cur' \/ pc' = "end", Alone(id)'
        PROVE  IsAsked(id)' /\ disk'[dicoargv'[id].dest].content = archive'[id].content
    <2>1. IsAsked(id) /\ disk[dicoargv[id].dest].content = archive[id].content
      BY <1>3, <1>4, <1>5
    <2>2. IsAsked(id)'
      BY <2>1, AskedIsKept
    <2>3. QED  BY <2>1, <2>2
  <1>6. QED  BY <1>2, <1>5 DEF RestoredInv

\* A file system that was not asked for is passed over.
LEMMA RestSkipInv == PartitionsInv /\ restfs_skip => PartitionsInv'
  <1> SUFFICES ASSUME PartitionsInv, restfs_skip  PROVE PartitionsInv'
    OBVIOUS
  <1> USE DEF restfs_skip
  <1>1. PartitionsTypeOK /\ job \in Jobs /\ MountsInv /\ BusyInv
    BY DEF PartitionsInv
  <1>2. ret = 0
    BY DEF PartitionsInv, ArchiveInv
  <1> DEFINE n == Len(job.srcs)
  <1>3. n \in Nat /\ DOMAIN job.srcs = 1 .. n /\ Len(archive) = n /\ DOMAIN dicoargv \subseteq 1 .. n
    BY RestoringFacts DEF Restoring
  <1>4. cur \in 1 .. n
    BY <1>1, <1>3 DEF PartitionsTypeOK
  <1>5. PartitionsTypeOK'
    BY <1>1, <1>3, <1>4 DEF PartitionsTypeOK
  <1>6. DevinfoInv' /\ ArchiveInv'
    BY <1>2, RestoringIsQuiet DEF Restoring
  <1>7. DiskInv' /\ BadArgumentTouchesNothing' /\ ArgsInv'
    BY RestoringKeepsArgs DEF Restoring
  <1>8. MountsInv'
    BY <1>1 DEF MountsInv
  <1>9. BusyInv'
    BY <1>1, <1>3, <1>4 DEF BusyInv, Saving, Restoring
  <1>10. FormatInv'
    BY DEF FormatInv
  <1>11. \A id \in DOMAIN dicoargv : id < cur + 1 => id < cur
    BY <1>3, <1>4
  <1>12. RestoredInv'
    BY <1>11, RestoredIsKept DEF Restoring
  <1>13. QED  BY <1>1, <1>5, <1>6, <1>7, <1>8, <1>9, <1>10, <1>12 DEF PartitionsInv

\* All the file systems were dealt with.
LEMMA RestEndInv == PartitionsInv /\ restfs_end => PartitionsInv'
  <1> SUFFICES ASSUME PartitionsInv, restfs_end  PROVE PartitionsInv'
    OBVIOUS
  <1> USE DEF restfs_end
  <1>1. PartitionsTypeOK /\ job \in Jobs /\ MountsInv /\ BusyInv
    BY DEF PartitionsInv
  <1> DEFINE n == Len(job.srcs)
  <1>2. n \in Nat /\ DOMAIN job.srcs = 1 .. n /\ Len(archive) = n /\ DOMAIN dicoargv \subseteq 1 .. n
    BY RestoringFacts DEF Restoring
  <1>3. cur = n + 1
    BY <1>1, <1>2 DEF PartitionsTypeOK
  <1>4. PartitionsTypeOK'
    BY <1>1 DEF PartitionsTypeOK
  <1>5. DevinfoInv' /\ ArchiveInv'
    BY RestoringIsQuiet DEF Restoring
  <1>6. DiskInv' /\ BadArgumentTouchesNothing' /\ ArgsInv'
    BY RestoringKeepsArgs DEF Restoring
  <1>7. MountsInv'
    BY <1>1 DEF MountsInv
  <1>8. BusyInv'
    BY <1>1 DEF BusyInv, Saving, Restoring
  <1>9. FormatInv'
    BY DEF FormatInv
  <1>10. \A id \in DOMAIN dicoargv : id < cur
    BY <1>2, <1>3
  <1>11. RestoredInv'
    BY <1>10, RestoredIsKept DEF Restoring
  <1>12. QED  BY <1>1, <1>4, <1>5, <1>6, <1>7, <1>8, <1>9, <1>11 DEF PartitionsInv

\* A step of restfs that gives up keeps the invariant, whatever it did to its
\* destination, if it left mounts behind only after the last attempt.
LEMMA GiveUpInv ==
    ASSUME PartitionsInv, GiveUp, pc \in Restoring \ {"objects"},
           UNCHANGED <<job, mounts, devinfo, archive, dicoargv, cur, tries, busy>>,
           disk' \in [Parts -> Super], faults' \in 0 .. MaxFaults,
           pc = "rumount" => tries = MaxTries
    PROVE  PartitionsInv'
  <1> USE DEF GiveUp
  <1>1. PartitionsTypeOK /\ job \in Jobs /\ MountsInv /\ BusyInv /\ ArgsInv
    BY DEF PartitionsInv
  <1>2. PartitionsTypeOK'
    BY <1>1 DEF PartitionsTypeOK
  <1>3. DevinfoInv' /\ ArchiveInv'
    BY RestoringIsQuiet DEF Restoring
  <1>4. DiskInv' /\ BadArgumentTouchesNothing' /\ ArgsInv'
    BY RestoringKeepsArgs DEF Restoring
  <1>5. MountsInv'
    BY <1>1 DEF MountsInv
  <1>6. BusyInv'
    <2>1. \A m \in mounts : m.who = "save" => busy[<<"save", m.n>>] = MaxTries
      BY <1>1 DEF BusyInv, Restoring
    <2>2. \A m \in mounts : m.who = "rest" => busy[<<"rest", m.n>>] = MaxTries
      <3> SUFFICES ASSUME NEW m \in mounts, m.who = "rest"
                   PROVE  busy[<<"rest", m.n>>] = MaxTries
        OBVIOUS
      <3>1. pc = "rumount" /\ m.n = cur
        BY <1>1 DEF BusyInv, Restoring
      <3>2. m.n \in DOMAIN job.srcs
        BY <1>1 DEF MountsInv
      <3>3. cur \in Int
        BY <1>1, JobFacts DEF PartitionsTypeOK
      <3>4. busy[<<"rest", m.n>>] = tries
        BY <1>1, <3>1, <3>2, <3>3 DEF BusyInv, Restoring
      <3>5. QED  BY <3>1, <3>4
    <2>3. QED  BY <2>1, <2>2 DEF BusyInv, Saving, Restoring
  <1>7. FormatInv' /\ RestoredInv'
    BY DEF FormatInv, RestoredInv, Restoring
  <1>8. QED  BY <1>1, <1>2, <1>3, <1>4, <1>5, <1>6, <1>7 DEF PartitionsInv

\* The restored file system cannot be unmounted.
LEMMA RestUmountFailsInv == PartitionsInv /\ restfs_umount_fails => PartitionsInv'
  <1> SUFFICES ASSUME PartitionsInv, restfs_umount_fails  PROVE PartitionsInv'
    OBVIOUS
  <1>1. disk' \in [Parts -> Super] /\ faults' \in 0 .. MaxFaults
    BY DEF PartitionsInv, PartitionsTypeOK, restfs_umount_fails
  <1>2. QED  BY <1>1, GiveUpInv DEF restfs_umount_fails, Restoring

\* The destination is not mounted and the type is known, or restfs ends.
LEMMA RestCheckInv == PartitionsInv /\ restfs_check => PartitionsInv'
  <1> SUFFICES ASSUME PartitionsInv, restfs_check  PROVE PartitionsInv'
    OBVIOUS
  <1>1. PartitionsTypeOK /\ job \in Jobs /\ MountsInv /\ BusyInv
    BY DEF PartitionsInv
  <1>2. /\ pc = "next" /\ cur <= Len(archive) /\ cur \in DOMAIN dicoargv
        /\ UNCHANGED <<job, disk, mounts, devinfo, archive, dicoargv, cur, tries, faults, busy>>
    BY DEF restfs_check
  <1>3. CASE GiveUp
    <2>1. disk' \in [Parts -> Super] /\ faults' \in 0 .. MaxFaults
      BY <1>1, <1>2 DEF PartitionsTypeOK
    <2>2. QED  BY <1>2, <1>3, <2>1, GiveUpInv DEF Restoring
  <1>4. CASE ~Mounted(Dest) /\ Continue("mkfs")
    <2>1. pc' = "mkfs" /\ ret' = ret /\ ret = 0
      BY <1>2, <1>4 DEF Continue, PartitionsInv, ArchiveInv
    <2>2. PartitionsTypeOK'
      BY <1>1, <1>2, <2>1 DEF PartitionsTypeOK
    <2>3. DevinfoInv' /\ ArchiveInv'
      BY <1>2, <2>1, RestoringIsQuiet DEF Restoring
    <2>4. DiskInv' /\ BadArgumentTouchesNothing' /\ ArgsInv'
      BY <1>2, <2>1, RestoringKeepsArgs DEF Restoring
    <2>5. MountsInv'
      BY <1>1, <1>2, <2>1 DEF MountsInv
    <2>6. BusyInv'
      BY <1>1, <1>2, <2>1 DEF BusyInv, Saving, Restoring
    <2>7. FormatInv'
      BY <1>2, <1>4, <2>1 DEF FormatInv, Mounted, Entries, Dest, Arg
    <2>8. RestoredInv'
      BY <1>2, <2>1, RestoredIsKept DEF Restoring
    <2>9. QED  BY <1>1, <1>2, <2>2, <2>3, <2>4, <2>5, <2>6, <2>7, <2>8 DEF PartitionsInv
  <1>5. QED  BY <1>3, <1>4 DEF restfs_check

\* What a formatting tool comes to: only the destination changes, and unless
\* restfs gives up, it has the UUID to have and the flags the tool makes.
LEMMA MkfsOutcome ==
    ASSUME PartitionsInv, restfs_mkfs
    PROVE  /\ faults' \in 0 .. MaxFaults
           /\ disk' \in [Parts -> Super]
           /\ \A p \in Parts : p # Dest => disk'[p] = disk[p]
           /\ \/ GiveUp
              \/ /\ Continue("rmount")
                 /\ disk'[Dest].uuid = Uuid
                 /\ Target \in DOMAIN ExtType =>
                       /\ ~extfs_refused(Info, ExtType[Target], job.e2fstoolsver, Dest \in job.large)
                       /\ disk'[Dest].fs = "ext"
                       /\ disk'[Dest].feat \in
                             extfs_created(Info, ExtType[Target], job.e2fstoolsver, Dest \in job.large)
                 /\ Target \notin DOMAIN ExtType =>
                       \E s \in xfs_created(Info, job.xfstoolsver, job.rhel7) :
                          LET x == IF job.xfstoolsver >= PROGVER(4, 3, 0) \/ Uuid = "u0"
                                   THEN s ELSE xfs_admin(s)
                          IN  disk'[Dest].rev = x.rev /\ disk'[Dest].feat = x.feat
  <1>1. PartitionsTypeOK /\ job \in Jobs /\ ArgsInv /\ pc = "mkfs"
    BY DEF PartitionsInv, restfs_mkfs
  <1>2. job.e2fstoolsver \in Nat /\ job.xfstoolsver \in Nat
    BY <1>1, JobFacts
  <1>3. cur \in DOMAIN dicoargv /\ cur \in DOMAIN archive
    BY <1>1 DEF ArgsInv, Restoring, PartitionsTypeOK
  <1>4. Dest \in Parts /\ Uuid \in Uuids
    BY <1>1, <1>3, RestoringFacts, ContentsAssumption DEF Dest, Uuid, Arg, Info, Restoring
  <1>5. disk \in [Parts -> Super] /\ faults \in 0 .. MaxFaults /\ MaxFaults \in Nat
    BY <1>1, FaultsAssumption DEF PartitionsTypeOK
  <1>6. \A f : Fault(f) => faults' \in 0 .. MaxFaults
    BY <1>5 DEF Fault
  <1>7. NoFault => faults' \in 0 .. MaxFaults
    BY <1>5 DEF NoFault
  <1>8. ASSUME NEW s \in Super, Formatted(s)
        PROVE  /\ disk' \in [Parts -> Super] /\ disk'[Dest] = s
               /\ \A p \in Parts : p # Dest => disk'[p] = disk[p]
    BY <1>4, <1>5, <1>8 DEF Formatted
  <1>9. ASSUME NEW fs \in {"none", "ext", "xfs"}, NEW rev \in {0, 1, 4, 5},
               NEW feat \in SUBSET (ExtFlags \cup XfsFlags), NEW uuid \in Uuids
        PROVE  /\ New(fs, rev, feat, uuid) \in Super
               /\ New(fs, rev, feat, uuid).fs = fs /\ New(fs, rev, feat, uuid).rev = rev
               /\ New(fs, rev, feat, uuid).feat = feat /\ New(fs, rev, feat, uuid).uuid = uuid
    BY ContentsAssumption DEF New, Super
  <1>10. ASSUME ToolFails
         PROVE  /\ faults' \in 0 .. MaxFaults /\ GiveUp
                /\ disk' \in [Parts -> Super]
                /\ \A p \in Parts : p # Dest => disk'[p] = disk[p]
    <2>1. New("none", 0, {}, "u0") \in Super
      BY <1>9, ContentsAssumption
    <2>2. CASE Formatted(New("none", 0, {}, "u0"))
      BY <1>6, <1>8, <1>10, <2>1, <2>2 DEF ToolFails
    <2>3. CASE UNCHANGED disk
      BY <1>5, <1>6, <1>10, <2>3 DEF ToolFails
    <2>4. QED  BY <1>10, <2>2, <2>3 DEF ToolFails
  <1>11. CASE Target \in DOMAIN ExtType
    <2> DEFINE t == ExtType[Target]
               v == job.e2fstoolsver
               large == Dest \in job.large
               created == extfs_created(Info, t, v, large)
    <2>1. mke2fs_uuid(v) \in Uuids /\ tune2fs_uuid(v) = Uuid
      BY <1>4, ContentsAssumption DEF mke2fs_uuid, tune2fs_uuid
    <2>2. \A feat \in created : feat \subseteq ExtFlags /\ Revision(Info, t) \in {0, 1}
      BY <1>2, CreatedIsExt
    <2>3. extfs_mkfs
      BY <1>11 DEF restfs_mkfs
    <2>4. CASE GiveUp /\ NoFault /\ UNCHANGED disk
      BY <1>5, <1>7, <2>4
    <2>5. CASE ToolFails
      BY <1>10, <2>5
    <2>6. ASSUME NEW feat \in created, ~extfs_refused(Info, t, v, large),
                 NoFault, Continue("rmount"),
                 Formatted(New("ext", Revision(Info, t), feat, tune2fs_uuid(v)))
          PROVE  /\ faults' \in 0 .. MaxFaults /\ disk' \in [Parts -> Super]
                 /\ \A p \in Parts : p # Dest => disk'[p] = disk[p]
                 /\ disk'[Dest].uuid = Uuid /\ disk'[Dest].fs = "ext" /\ disk'[Dest].feat \in created
      <3>1. PICK s : s = New("ext", Revision(Info, t), feat, tune2fs_uuid(v))
        OBVIOUS
      <3>2. s \in Super /\ s.fs = "ext" /\ s.feat = feat /\ s.uuid = Uuid
        BY <1>4, <1>9, <2>1, <2>2, <3>1
      <3>3. Formatted(s)
        BY <2>6, <3>1
      <3>4. disk'[Dest] = s
        BY <1>8, <3>2, <3>3
      <3>5. QED  BY <1>7, <1>8, <2>6, <3>2, <3>3, <3>4
    <2>7. ASSUME NEW feat \in created, Fault("tune"), GiveUp,
                 Formatted(New("ext", Revision(Info, t), feat, mke2fs_uuid(v)))
          PROVE  /\ faults' \in 0 .. MaxFaults /\ disk' \in [Parts -> Super]
                 /\ \A p \in Parts : p # Dest => disk'[p] = disk[p]
      <3>1. New("ext", Revision(Info, t), feat, mke2fs_uuid(v)) \in Super
        BY <1>9, <2>1, <2>2
      <3>2. QED  BY <1>6, <1>8, <2>7, <3>1
    <2>8. QED  BY <1>11, <2>3, <2>4, <2>5, <2>6, <2>7 DEF extfs_mkfs
  <1>12. CASE Target \notin DOMAIN ExtType
    <2> DEFINE v == job.xfstoolsver
               created == xfs_created(Info, v, job.rhel7)
               final(s) == IF v >= PROGVER(4, 3, 0) \/ Uuid = "u0" THEN s ELSE xfs_admin(s)
    <2>1. xfs_mkfs
      BY <1>12 DEF restfs_mkfs
    <2>2. \A s \in created : s.rev \in {4, 5} /\ s.feat \subseteq XfsFlags
      BY <1>2, XfsCreatedType
    <2>3. \A s \in created : final(s).rev \in {4, 5} /\ final(s).feat \subseteq XfsFlags
      BY <2>2, XfsCreatedType DEF xfs_admin, XfsFlags, XfsSupported
    <2>4. CASE GiveUp /\ NoFault /\ UNCHANGED disk
      BY <1>5, <1>7, <2>4
    <2>5. CASE ToolFails
      BY <1>10, <2>5
    <2>6. ASSUME NEW s \in created, NoFault, Continue("rmount"),
                 Formatted(New("xfs", final(s).rev, final(s).feat, Uuid))
          PROVE  /\ faults' \in 0 .. MaxFaults /\ disk' \in [Parts -> Super]
                 /\ \A p \in Parts : p # Dest => disk'[p] = disk[p]
                 /\ disk'[Dest].uuid = Uuid
                 /\ disk'[Dest].rev = final(s).rev /\ disk'[Dest].feat = final(s).feat
      <3>1. PICK x : x = final(s)
        OBVIOUS
      <3>2. PICK y : y = New("xfs", x.rev, x.feat, Uuid)
        OBVIOUS
      <3>3. x.rev \in {4, 5} /\ x.feat \subseteq XfsFlags
        BY <2>3, <3>1
      <3>4. y \in Super /\ y.rev = x.rev /\ y.feat = x.feat /\ y.uuid = Uuid
        BY <1>4, <1>9, <3>2, <3>3
      <3>5. Formatted(y)
        BY <2>6, <3>1, <3>2
      <3>6. disk'[Dest] = y
        BY <1>8, <3>4, <3>5
      <3>7. QED  BY <1>7, <1>8, <2>6, <3>1, <3>4, <3>5, <3>6
    <2>7. ASSUME NEW s \in created, Fault("tune"), GiveUp,
                 Formatted(New("xfs", s.rev, s.feat, "u0"))
          PROVE  /\ faults' \in 0 .. MaxFaults /\ disk' \in [Parts -> Super]
                 /\ \A p \in Parts : p # Dest => disk'[p] = disk[p]
      <3>1. New("xfs", s.rev, s.feat, "u0") \in Super
        BY <1>9, <2>2, ContentsAssumption
      <3>2. QED  BY <1>6, <1>8, <2>7, <3>1
    <2>8. QED  BY <1>12, <2>1, <2>4, <2>5, <2>6, <2>7 DEF xfs_mkfs
  <1>13. QED  BY <1>11, <1>12

\* What was restored on the other partitions is kept while the file system at
\* hand is dealt with.
LEMMA OthersAreKept ==
    ASSUME PartitionsInv, UNCHANGED <<job, archive, dicoargv, cur>>,
           pc \in Restoring \ {"next"}, pc' \in Restoring,
           ret' = 0 => ret = 0,
           \A p \in Parts : p # Dest => disk'[p] = disk[p]
    PROVE  ret' = 0 => \A id \in DOMAIN dicoargv : id < cur /\ Alone(id)' =>
               IsAsked(id)' /\ disk'[dicoargv[id].dest].content = archive[id].content
  <1> SUFFICES ASSUME ret' = 0, NEW id \in DOMAIN dicoargv, id < cur, Alone(id)'
               PROVE  IsAsked(id)' /\ disk'[dicoargv[id].dest].content = archive[id].content
    OBVIOUS
  <1>1. Alone(id)
    BY DEF Alone
  <1>2. IsAsked(id) /\ disk[dicoargv[id].dest].content = archive[id].content
    BY <1>1 DEF PartitionsInv, RestoredInv
  <1>3. cur \in DOMAIN dicoargv /\ cur # id
    <2>1. cur \in DOMAIN dicoargv
      BY DEF PartitionsInv, ArgsInv
    <2>2. DOMAIN dicoargv \subseteq 1 .. Len(job.srcs) /\ Len(job.srcs) \in Nat
      BY RestoringFacts
    <2>3. cur \in Int /\ id \in Int
      BY <2>1, <2>2
    <2>4. QED  BY <2>1, <2>3
  <1>4. dicoargv[id].dest # Dest /\ dicoargv[id].dest \in Parts
    BY <1>1, <1>3, RestoringFacts DEF Alone, Dest, Arg
  <1>5. disk'[dicoargv[id].dest] = disk[dicoargv[id].dest]
    BY <1>4
  <1>6. QED  BY <1>2, <1>5, AskedIsKept

\* Dest, Target, Info and Uuid belong to the file system at hand.
LEMMA AtHand ==
    ASSUME UNCHANGED <<job, archive, dicoargv, cur>>
    PROVE  Dest' = Dest /\ Target' = Target /\ Info' = Info /\ Uuid' = Uuid /\ Arg' = Arg
  BY DEF Dest, Target, Info, Uuid, Arg

\* The destination is formatted, or restfs ends.
LEMMA RestMkfsInv == PartitionsInv /\ restfs_mkfs => PartitionsInv'
  <1> SUFFICES ASSUME PartitionsInv, restfs_mkfs  PROVE PartitionsInv'
    OBVIOUS
  <1>1. PartitionsTypeOK /\ job \in Jobs /\ MountsInv /\ BusyInv
    BY DEF PartitionsInv
  <1>2. /\ pc = "mkfs"
        /\ UNCHANGED <<job, mounts, devinfo, archive, dicoargv, cur, tries, busy>>
    BY DEF restfs_mkfs
  <1>3. /\ faults' \in 0 .. MaxFaults /\ disk' \in [Parts -> Super]
        /\ \A p \in Parts : p # Dest => disk'[p] = disk[p]
    BY MkfsOutcome
  <1>4. CASE GiveUp
    BY <1>2, <1>3, <1>4, GiveUpInv DEF Restoring
  <1>5. CASE ~GiveUp
    <2>1. pc' = "rmount" /\ ret' = ret /\ ret = 0
      BY <1>2, <1>5, MkfsOutcome DEF Continue, PartitionsInv, ArchiveInv
    <2>2. PartitionsTypeOK'
      BY <1>1, <1>2, <1>3, <2>1 DEF PartitionsTypeOK
    <2>3. cur \in DOMAIN dicoargv
      BY <1>2 DEF PartitionsInv, ArgsInv, Restoring
    <2>4. DevinfoInv' /\ ArchiveInv'
      BY <1>2, <2>1, RestoringIsQuiet DEF Restoring
    <2>5. DiskInv' /\ BadArgumentTouchesNothing' /\ ArgsInv'
      BY <1>2, <2>1, <2>3, RestoringKeepsArgs DEF Restoring
    <2>6. MountsInv'
      BY <1>1, <1>2, <2>1 DEF MountsInv
    <2>7. BusyInv'
      BY <1>1, <1>2, <2>1 DEF BusyInv, Saving, Restoring
    <2>8. Dest' = Dest /\ Target' = Target /\ Info' = Info /\ Uuid' = Uuid
      BY <1>2, AtHand
    <2>9. FormatInv'
      BY <1>2, <1>5, <2>1, <2>8, MkfsOutcome DEF FormatInv
    <2>10. RestoredInv'
      <3>1. disk'[Dest].uuid = Uuid
        BY <1>5, MkfsOutcome
      <3>2. \A id \in DOMAIN dicoargv : id < cur /\ Alone(id)' =>
                IsAsked(id)' /\ disk'[dicoargv[id].dest].content = archive[id].content
        BY <1>2, <1>3, <2>1, OthersAreKept DEF Restoring
      <3>3. QED  BY <1>2, <2>1, <2>8, <3>1, <3>2 DEF RestoredInv
    <2>11. QED  BY <1>1, <1>2, <2>2, <2>4, <2>5, <2>6, <2>7, <2>9, <2>10 DEF PartitionsInv
  <1>6. QED  BY <1>4, <1>5

\* The description says which format it is of.
LEMMA Described ==
    ASSUME NEW r, NEW fstype, NEW s, r = FsInfo(fstype, s)
    PROVE  (s.fs = "ext" => r.ext) /\ (s.fs = "xfs" => r.xfs)
  <1>1. ASSUME s.fs = "ext"  PROVE r.ext
    <2>1. r.ext = (s.fs = "ext")
      BY SMT DEF FsInfo
    <2>2. QED  BY <1>1, <2>1
  <1>2. ASSUME s.fs = "xfs"  PROVE r.xfs
    <2>1. r.xfs = (s.fs = "xfs")
      BY SMT DEF FsInfo
    <2>2. QED  BY <1>2, <2>1
  <1>3. QED  BY <1>1, <1>2

\* The new file system is mounted, or is not the type asked for.
LEMMA RestMountInv == PartitionsInv /\ restfs_mount => PartitionsInv'
  <1> SUFFICES ASSUME PartitionsInv, restfs_mount  PROVE PartitionsInv'
    OBVIOUS
  <1>1. PartitionsTypeOK /\ job \in Jobs /\ MountsInv /\ BusyInv /\ RestoredInv
    BY DEF PartitionsInv
  <1>2. pc = "rmount" /\ UNCHANGED <<job, disk, devinfo, archive, dicoargv, cur, tries, busy>>
    BY DEF restfs_mount
  <1>3. faults' \in 0 .. MaxFaults
    <2>1. faults \in 0 .. MaxFaults /\ MaxFaults \in Nat
      BY <1>1, FaultsAssumption DEF PartitionsTypeOK
    <2>2. faults' = faults \/ (faults < MaxFaults /\ faults' = faults + 1)
      BY DEF restfs_mount, Fault, NoFault
    <2>3. QED  BY <2>1, <2>2
  <1>4. CASE GiveUp /\ UNCHANGED mounts
    <2>1. disk' \in [Parts -> Super]
      BY <1>1, <1>2 DEF PartitionsTypeOK
    <2>2. QED  BY <1>2, <1>3, <1>4, <2>1, GiveUpInv DEF Restoring
  <1>5. CASE ~(GiveUp /\ UNCHANGED mounts)
    <2>1. PICK own : own = [part |-> Dest, who |-> "rest", n |-> cur, fs |-> Target,
                            rw |-> TRUE, badopt |-> FALSE]
      OBVIOUS
    <2>2. /\ Detected(disk[Dest]) = Target /\ mounts' = mounts \cup {own}
          /\ pc' = "objects" /\ ret' = ret /\ ret = 0
      BY <1>2, <1>5, <2>1 DEF restfs_mount, Continue, PartitionsInv, ArchiveInv
    <2>3. own.part = Dest /\ own.who = "rest" /\ own.n = cur
      BY <2>1
    <2> DEFINE n == Len(job.srcs)
    <2>4. /\ n \in Nat /\ DOMAIN job.srcs = 1 .. n
          /\ cur \in DOMAIN dicoargv /\ DOMAIN dicoargv \subseteq 1 .. n /\ Dest \in Parts
      <3>1. cur \in DOMAIN dicoargv
        BY <1>2 DEF PartitionsInv, ArgsInv, Restoring
      <3>2. QED  BY <1>2, <3>1, RestoringFacts DEF Restoring, Dest, Arg
    <2>5. \A m \in mounts : m.who # "rest"
      BY <1>1, <1>2 DEF BusyInv
    <2>6. PartitionsTypeOK'
      BY <1>1, <1>2, <1>3, <2>2, <2>3, <2>4 DEF PartitionsTypeOK
    <2>7. DevinfoInv' /\ ArchiveInv'
      BY <1>2, <2>2, <2>3, RestoringIsQuiet DEF Restoring
    <2>8. DiskInv' /\ BadArgumentTouchesNothing' /\ ArgsInv'
      BY <1>2, <2>2, <2>4, RestoringKeepsArgs DEF Restoring
    <2>9. MountsInv'
      BY <1>1, <1>2, <2>2, <2>3, <2>4, <2>5 DEF MountsInv
    <2>10. BusyInv'
      BY <1>1, <1>2, <2>2, <2>3, <2>5 DEF BusyInv, Saving, Restoring
    <2>11. FormatInv'
      BY <2>2 DEF FormatInv
    <2>12. IsAsked(cur)
      <3>1. disk[Dest].uuid = Uuid
        BY <1>1, <1>2 DEF RestoredInv
      <3>2. archive[cur].fstype # "ntfs" => archive[cur].ext \/ archive[cur].xfs
        <4>1. /\ archive[cur] = FsInfo(archive[cur].fstype, job.disk[job.srcs[cur]])
              /\ archive[cur].fstype \in Supported
              /\ Format(archive[cur].fstype) = job.disk[job.srcs[cur]].fs
          BY <1>2, <2>4 DEF PartitionsInv, ArchiveInv, Restoring
        <4>2. PICK s : s = job.disk[job.srcs[cur]]
          OBVIOUS
        <4>3. archive[cur] = FsInfo(archive[cur].fstype, s)
          BY <4>1, <4>2
        <4>4. (s.fs = "ext" => archive[cur].ext) /\ (s.fs = "xfs" => archive[cur].xfs)
          BY <4>3, Described
        <4>5. s.fs # "ntfs" => s.fs = "ext" \/ s.fs = "xfs"
          BY <4>1, <4>2, Names DEF Format
        <4>6. archive[cur].fstype # "ntfs" => s.fs # "ntfs"
          BY <4>1, <4>2, Names DEF Format
        <4>7. QED  BY <4>4, <4>5, <4>6
      <3>3. QED  BY <2>2, <3>1, <3>2, ContentsAssumption DEF IsAsked, Dest, Target, Uuid, Arg, Info
    <2>13. RestoredInv'
      <3>1. IsAsked(cur)'
        BY <1>2, <2>12 DEF IsAsked
      <3>2. \A id \in DOMAIN dicoargv : id < cur /\ Alone(id)' =>
                IsAsked(id)' /\ disk'[dicoargv[id].dest].content = archive[id].content
        BY <1>2, <2>2, OthersAreKept DEF Restoring
      <3>3. QED  BY <1>2, <2>2, <3>1, <3>2 DEF RestoredInv
    <2>14. QED  BY <1>1, <1>2, <2>6, <2>7, <2>8, <2>9, <2>10, <2>11, <2>13 DEF PartitionsInv
  <1>6. QED  BY <1>4, <1>5

\* The contents arrives, or part of it; the type and the UUID stay.
LEMMA RestObjectsInv == PartitionsInv /\ restfs_objects => PartitionsInv'
  <1> SUFFICES ASSUME PartitionsInv, restfs_objects  PROVE PartitionsInv'
    OBVIOUS
  <1>1. PartitionsTypeOK /\ job \in Jobs /\ MountsInv /\ BusyInv /\ RestoredInv
    BY DEF PartitionsInv
  <1>2. /\ pc = "objects" /\ pc' = "rumount"
        /\ UNCHANGED <<job, mounts, devinfo, archive, dicoargv, cur, tries, busy>>
    BY DEF restfs_objects
  <1>3. ret = 0
    BY <1>2 DEF PartitionsInv, ArchiveInv
  <1>4. /\ cur \in DOMAIN dicoargv /\ cur \in DOMAIN archive /\ Dest \in Parts
        /\ Info.content \in Contents /\ "part" \in Contents
    <2>1. cur \in DOMAIN dicoargv
      BY <1>2 DEF PartitionsInv, ArgsInv, Restoring
    <2>2. cur \in DOMAIN archive
      BY <1>1, <2>1 DEF PartitionsTypeOK
    <2>3. QED  BY <1>2, <2>1, <2>2, RestoringFacts, ContentsAssumption DEF Restoring, Dest, Arg, Info
  <1>5. PICK c \in Contents :
            /\ disk' = [disk EXCEPT ![Dest].content = c]
            /\ ret' = 0 => c = Info.content
            /\ ret' \in {0, -1}
    <2>1. CASE NoFault /\ disk' = [disk EXCEPT ![Dest].content = Info.content] /\ UNCHANGED ret
      BY <1>3, <1>4, <2>1
    <2>2. CASE disk' = [disk EXCEPT ![Dest].content = "part"] /\ ret' = -1
      <3>1. ret' # 0 /\ ret' \in {0, -1}
        BY <2>2
      <3> USE <1>4
      <3>2. WITNESS "part" \in Contents
      <3>3. QED  BY <2>2, <3>1
    <2>3. QED  BY <2>1, <2>2 DEF restfs_objects
  <1>6. faults' \in 0 .. MaxFaults
    <2>1. faults \in 0 .. MaxFaults /\ MaxFaults \in Nat
      BY <1>1, FaultsAssumption DEF PartitionsTypeOK
    <2>2. faults' = faults \/ (faults < MaxFaults /\ faults' = faults + 1)
      BY DEF restfs_objects, Fault, NoFault
    <2>3. QED  BY <2>1, <2>2
  <1>7. disk \in [Parts -> Super]
    BY <1>1 DEF PartitionsTypeOK
  <1>8. /\ disk' \in [Parts -> Super]
        /\ \A p \in Parts : p # Dest => disk'[p] = disk[p]
        /\ disk'[Dest].fs = disk[Dest].fs /\ disk'[Dest].feat = disk[Dest].feat
        /\ disk'[Dest].uuid = disk[Dest].uuid /\ disk'[Dest].content = c
    <2>1. PICK s \in Super : s = disk[Dest]
      BY <1>4, <1>7
    <2>2. PICK r : r = [s EXCEPT !.content = c]
      OBVIOUS
    <2>3. /\ r \in Super /\ r.fs = s.fs /\ r.feat = s.feat /\ r.uuid = s.uuid /\ r.content = c
      BY <2>1, <2>2 DEF Super
    <2>4. disk' = [disk EXCEPT ![Dest] = r]
      BY <1>5, <2>1, <2>2
    <2>5. QED  BY <1>4, <1>7, <2>1, <2>3, <2>4
  <1>9. PartitionsTypeOK'
    BY <1>1, <1>2, <1>5, <1>6, <1>8 DEF PartitionsTypeOK
  <1>10. DevinfoInv' /\ ArchiveInv'
    BY <1>2, RestoringIsQuiet DEF Restoring
  <1>11. DiskInv' /\ BadArgumentTouchesNothing' /\ ArgsInv'
    BY <1>2, <1>4, RestoringKeepsArgs DEF Restoring
  <1>12. MountsInv'
    BY <1>1, <1>2 DEF MountsInv
  <1>13. BusyInv'
    <2>1. tries = 0
      BY <1>1, <1>2 DEF BusyInv
    <2>2. QED  BY <1>1, <1>2, <2>1 DEF BusyInv, Saving, Restoring
  <1>14. FormatInv'
    BY <1>2 DEF FormatInv
  <1>15. RestoredInv'
    <2>1. IsAsked(cur)
      BY <1>1, <1>2 DEF RestoredInv
    <2>2. Detected(disk[Dest])' = Detected(disk[Dest])
      BY <1>2, <1>8, AtHand DEF Detected
    <2>3. IsAsked(cur)'
      BY <1>2, <1>8, <2>1, <2>2, AtHand DEF IsAsked, Dest, Arg
    <2>4. ret' = 0 => disk'[Dest].content = Info.content
      BY <1>5, <1>8
    <2>5. ret' = 0 => \A id \in DOMAIN dicoargv : id < cur /\ Alone(id)' =>
              IsAsked(id)' /\ disk'[dicoargv[id].dest].content = archive[id].content
      BY <1>2, <1>3, <1>8, OthersAreKept DEF Restoring
    <2>6. Dest' = Dest /\ Info' = Info
      BY <1>2, AtHand
    <2>7. QED  BY <1>2, <2>3, <2>4, <2>5, <2>6 DEF RestoredInv
  <1>16. QED
    BY <1>1, <1>2, <1>9, <1>10, <1>11, <1>12, <1>13, <1>14, <1>15 DEF PartitionsInv

\* The partition is unmounted, and restfs goes on or ends; or an attempt fails.
LEMMA RestUmountInv == PartitionsInv /\ restfs_umount => PartitionsInv'
  <1> SUFFICES ASSUME PartitionsInv, restfs_umount  PROVE PartitionsInv'
    OBVIOUS
  <1>1. PartitionsTypeOK /\ job \in Jobs /\ MountsInv /\ BusyInv /\ RestoredInv
    BY DEF PartitionsInv
  <1>2. /\ pc = "rumount" /\ tries < MaxTries
        /\ UNCHANGED <<job, disk, devinfo, archive, dicoargv, ret>>
    BY DEF restfs_umount
  <1> DEFINE n == Len(job.srcs)
  <1>3. /\ n \in Nat /\ DOMAIN job.srcs = 1 .. n /\ cur \in DOMAIN dicoargv /\ cur \in 1 .. n
        /\ DOMAIN dicoargv \subseteq 1 .. n
    <2>1. cur \in DOMAIN dicoargv
      BY <1>2 DEF PartitionsInv, ArgsInv, Restoring
    <2>2. QED  BY <1>2, <2>1, RestoringFacts DEF Restoring
  <1>4. tries \in 0 .. 3
    BY <1>1, <1>2 DEF PartitionsTypeOK, MaxTries
  <1>5. PICK own : own = Own("rest")
    OBVIOUS
  <1>6. own \in mounts /\ own.who = "rest" /\ own.n = cur
    <2>1. \E m \in mounts : m.who = "rest" /\ m.n = cur
      BY <1>1, <1>2 DEF MountsInv
    <2>2. QED  BY <1>5, <2>1 DEF Own
  <1>7. \A m \in mounts : m # own => m.who # "rest"
    BY <1>1, <1>2, <1>6 DEF MountsInv, BusyInv
  <1>8. \A m \in mounts : m.who = "save" => busy[<<"save", m.n>>] = MaxTries /\ m.n \in 1 .. n
    BY <1>1, <1>2, <1>3 DEF BusyInv, MountsInv
  <1>9. busy[<<"rest", cur>>] = tries /\ \A i \in 1 .. n : i > cur => busy[<<"rest", i>>] = 0
    BY <1>1, <1>2, <1>3 DEF BusyInv, Restoring
  <1>a. faults' \in 0 .. MaxFaults
    BY <1>1, FaultsAssumption DEF PartitionsTypeOK, restfs_umount, generic_umount, NoFault, Fault
  <1>b. <<"rest", cur>> \in {"save", "rest"} \X DOMAIN job.srcs
    BY <1>3
  <1>10. CASE mounts' = mounts \ {own} /\ tries' = 0 /\ UNCHANGED busy
    <2>1. \/ ret = 0 /\ pc' = "next" /\ cur' = cur + 1
          \/ ret # 0 /\ pc' = "end" /\ cur' = cur
      BY <1>6, <1>10 DEF restfs_umount
    <2>2. PartitionsTypeOK'
      BY <1>1, <1>2, <1>3, <1>10, <1>a, <2>1 DEF PartitionsTypeOK, MaxTries
    <2>3. DevinfoInv' /\ ArchiveInv'
      <3>1. \A m \in mounts' : m.who = "save" => m \in mounts
        BY <1>10
      <3>2. QED  BY <1>2, <2>1, <3>1, RestoringIsQuiet DEF Restoring
    <2>4. DiskInv' /\ BadArgumentTouchesNothing' /\ ArgsInv'
      BY <1>2, <2>1, RestoringKeepsArgs DEF Restoring
    <2>5. MountsInv'
      BY <1>1, <1>2, <1>10, <2>1 DEF MountsInv
    <2>6. BusyInv'
      BY <1>2, <1>3, <1>7, <1>8, <1>9, <1>10, <2>1 DEF BusyInv, Saving, Restoring
    <2>7. FormatInv'
      BY <2>1 DEF FormatInv
    <2>8. RestoredInv'
      <3>1. ret = 0 => IsAsked(cur) /\ disk[dicoargv[cur].dest].content = archive[cur].content
        BY <1>1, <1>2 DEF RestoredInv, Dest, Arg, Info
      <3>2. \A id \in DOMAIN dicoargv : id < cur + 1 => id < cur \/ id = cur
        BY <1>3
      <3>3. QED  BY <1>2, <2>1, <3>1, <3>2, RestoredIsKept DEF Restoring
    <2>9. QED  BY <1>1, <1>2, <2>2, <2>3, <2>4, <2>5, <2>6, <2>7, <2>8 DEF PartitionsInv
  <1>11. ASSUME NEW t \in 1 .. 4, busy' = [busy EXCEPT ![<<"rest", cur>>] = t],
                tries' = t, UNCHANGED mounts
         PROVE  PartitionsInv'
    <2>1. pc' = pc /\ cur' = cur
      BY <1>11 DEF restfs_umount
    <2>2. <<"rest", cur>> \in {"save", "rest"} \X DOMAIN job.srcs
      BY <1>b
    <2>3. busy \in [{"save", "rest"} \X DOMAIN job.srcs -> 0 .. MaxTries]
      BY <1>1 DEF PartitionsTypeOK
    <2>4. busy' = [busy EXCEPT ![<<"rest", cur>>] = t]
      BY <1>11
    <2>5. PartitionsTypeOK'
      BY <1>1, <1>2, <1>3, <1>4, <1>11, <1>a, <2>1, <2>2, <2>3, <2>4 DEF PartitionsTypeOK, MaxTries
    <2>6. DevinfoInv' /\ ArchiveInv'
      BY <1>2, <1>11, <2>1, RestoringIsQuiet DEF Restoring
    <2>7. DiskInv' /\ BadArgumentTouchesNothing' /\ ArgsInv'
      BY <1>2, <1>3, <2>1, RestoringKeepsArgs DEF Restoring
    <2>8. MountsInv'
      BY <1>1, <1>2, <1>11, <2>1 DEF MountsInv
    <2>9. /\ busy'[<<"rest", cur>>] = t
          /\ \A i \in 1 .. n : i # cur => busy'[<<"rest", i>>] = busy[<<"rest", i>>]
          /\ \A i \in 1 .. n : busy'[<<"save", i>>] = busy[<<"save", i>>]
      BY <1>3, <2>2, <2>3, <2>4
    <2>10. BusyInv'
      <3>1. \A m \in mounts : m.who = "save" => busy'[<<"save", m.n>>] = MaxTries
        BY <1>8, <2>9
      <3>2. \A m \in mounts : m.who = "rest" => m.n = cur
        BY <1>6, <1>7
      <3>3. \A i \in 1 .. n : i >= cur => busy'[<<"rest", i>>] = IF i = cur THEN t ELSE 0
        <4>1. ASSUME NEW i \in 1 .. n, i >= cur, i # cur  PROVE busy'[<<"rest", i>>] = 0
          <5>1. i > cur
            BY <1>3, <4>1
          <5>2. QED  BY <1>9, <2>9, <4>1, <5>1
        <4>2. QED  BY <2>9, <4>1
      <3>4. QED  BY <1>2, <1>3, <1>11, <2>1, <3>1, <3>2, <3>3 DEF BusyInv, Saving, Restoring
    <2>11. FormatInv'
      BY <1>2, <2>1 DEF FormatInv
    <2>12. RestoredInv'
      <3>1. IsAsked(cur) /\ (ret = 0 => disk[Dest].content = Info.content)
        BY <1>1, <1>2 DEF RestoredInv
      <3>2. IsAsked(cur)'
        BY <1>2, <2>1, <3>1 DEF IsAsked
      <3>3. ret = 0 => \A id \in DOMAIN dicoargv : id < cur /\ Alone(id)' =>
                IsAsked(id)' /\ disk'[dicoargv[id].dest].content = archive[id].content
        BY <1>2, <2>1, OthersAreKept DEF Restoring
      <3>4. Dest' = Dest /\ Info' = Info
        BY <1>2, <2>1, AtHand
      <3>5. QED  BY <1>2, <2>1, <3>1, <3>2, <3>3, <3>4 DEF RestoredInv
    <2>13. QED
      BY <1>1, <1>2, <2>5, <2>6, <2>7, <2>8, <2>10, <2>11, <2>12 DEF PartitionsInv
  <1>12. CASE SeenBusy(own) /\ tries' = tries + 1 /\ UNCHANGED mounts
    <2>1. <<own.who, own.n>> = <<"rest", cur>> /\ busy[<<"rest", cur>>] = tries /\ tries < MaxTries
      BY <1>2, <1>6, <1>9
    <2>2. busy' = [busy EXCEPT ![<<"rest", cur>>] = IF @ < MaxTries THEN @ + 1 ELSE @]
      BY <1>12, <2>1 DEF SeenBusy
    <2>3. busy \in [{"save", "rest"} \X DOMAIN job.srcs -> 0 .. MaxTries]
      BY <1>1 DEF PartitionsTypeOK
    <2>4. busy' = [busy EXCEPT ![<<"rest", cur>>] = tries + 1]
      BY <1>b, <2>1, <2>2, <2>3
    <2>5. tries + 1 \in 1 .. 4
      BY <1>4
    <2>6. QED  BY <1>11, <1>12, <2>4, <2>5
  <1>13. CASE /\ busy' = [busy EXCEPT ![<<own.who, own.n>>] = MaxTries]
              /\ tries' = MaxTries /\ UNCHANGED mounts
    BY <1>6, <1>11, <1>13 DEF MaxTries
  <1>14. QED  BY <1>5, <1>10, <1>12, <1>13 DEF restfs_umount, generic_umount

-----------------------------------------------------------------------------
(* The theorems *)

\* Every step of the two commands keeps the invariant.
LEMMA NextInv == PartitionsInv /\ [PartitionsNext]_vars => PartitionsInv'
  <1> SUFFICES ASSUME PartitionsInv, [PartitionsNext]_vars  PROVE PartitionsInv'
    OBVIOUS
  <1>1. CASE filesystem_mount_partition
    BY <1>1, SaveMountInv
  <1>2. CASE createar_oper_savefs
    BY <1>2, SaveContentsInv
  <1>3. CASE save_umount
    BY <1>3, SaveUmountInv
  <1>4. CASE save_umount_next
    BY <1>4, SaveUmountNextInv
  <1>5. CASE oper_save_end
    BY <1>5, SaveEndInv
  <1>6. CASE restfs_args
    BY <1>6, RestArgsInv
  <1>7. CASE restfs_skip
    BY <1>7, RestSkipInv
  <1>8. CASE restfs_end
    BY <1>8, RestEndInv
  <1>9. CASE restfs_check
    BY <1>9, RestCheckInv
  <1>10. CASE restfs_mkfs
    BY <1>10, RestMkfsInv
  <1>11. CASE restfs_mount
    BY <1>11, RestMountInv
  <1>12. CASE restfs_objects
    BY <1>12, RestObjectsInv
  <1>13. CASE restfs_umount
    BY <1>13, RestUmountInv
  <1>14. CASE restfs_umount_fails
    BY <1>14, RestUmountFailsInv
  <1>15. CASE UNCHANGED vars
    <2>1. UNCHANGED <<job, disk, mounts, devinfo, archive, dicoargv, cur, tries, pc, ret, faults, busy>>
      BY <1>15 DEF vars
    <2>2. PartitionsTypeOK' /\ job' \in Jobs
      BY <2>1 DEF PartitionsInv, PartitionsTypeOK
    <2>3. DiskInv' /\ BadArgumentTouchesNothing' /\ MountsInv'
      BY <2>1 DEF PartitionsInv, DiskInv, BadArgumentTouchesNothing, BadArgument, MountsInv
    <2>4. DevinfoInv'
      BY <2>1 DEF PartitionsInv, DevinfoInv
    <2>5. BusyInv'
      BY <2>1 DEF PartitionsInv, BusyInv
    <2>6. ArchiveInv'
      BY <2>1 DEF PartitionsInv, ArchiveInv, FsInfo
    <2>7. ArgsInv'
      BY <2>1 DEF PartitionsInv, ArgsInv
    <2>8. FormatInv'
      BY <2>1, AtHand DEF PartitionsInv, FormatInv, Mounted, Entries
    <2>9. RestoredInv'
      <3>1. \A id : IsAsked(id)' = IsAsked(id) /\ Alone(id)' = Alone(id)
        BY <2>1 DEF IsAsked, Alone
      <3>2. QED  BY <2>1, <3>1, AtHand DEF PartitionsInv, RestoredInv
    <2>10. QED
      BY <2>2, <2>3, <2>4, <2>5, <2>6, <2>7, <2>8, <2>9 DEF PartitionsInv
  <1>16. QED
    BY <1>1, <1>2, <1>3, <1>4, <1>5, <1>6, <1>7, <1>8, <1>9, <1>10, <1>11, <1>12, <1>13, <1>14, <1>15
       DEF PartitionsNext, Ended

\* The invariant holds throughout a savefs and the restfs of its archive, on any
\* machine, with any command lines and any of the tools failing at any point.
THEOREM PartitionsCorrect == PartitionsSpec => []PartitionsInv
  <1>1. PartitionsInit => PartitionsInv
    BY InitInv
  <1>2. PartitionsInv /\ [PartitionsNext]_vars => PartitionsInv'
    BY NextInv
  <1> HIDE DEF PartitionsInit, PartitionsNext, PartitionsInv
  <1>3. QED  BY <1>1, <1>2, PTL DEF PartitionsSpec

\* However the commands of oper_save() and oper_restore() end, a wrong argument
\* has touched no partition, and what fsarchiver mounted is unmounted unless it
\* was busy at all the attempts of generic_umount(), or umount2() failed there
\* for another reason, after which it makes no further attempt.
THEOREM CommandsAlwaysCleanUp == PartitionsSpec => []CommandsCleanUp
  <1>1. PartitionsInv => CommandsCleanUp
    <2> SUFFICES ASSUME PartitionsInv  PROVE CommandsCleanUp
      OBVIOUS
    <2>1. BadArgumentTouchesNothing /\ BusyInv /\ PartitionsTypeOK
      BY DEF PartitionsInv
    <2>2. NothingLeftMounted
      BY <2>1 DEF NothingLeftMounted, BusyInv, PartitionsTypeOK
    <2>3. QED  BY <2>1, <2>2 DEF CommandsCleanUp
  <1>2. QED  BY <1>1, PartitionsCorrect, PTL

\* After a restfs that succeeds, every destination has the type, the UUID and
\* the contents that extractar_filesystem_extract() was asked for.
THEOREM RestoreIsAsked == PartitionsSpec => []RestoredIsAsked
  <1>1. PartitionsInv => RestoredIsAsked
    BY DEF PartitionsInv, RestoredInv, RestoredIsAsked, IsAsked, Alone
  <1>2. QED  BY <1>1, PartitionsCorrect, PTL

\* What the archive says of the file system at hand, once it is formatted
LEMMA FreshFacts ==
    ASSUME PartitionsInv, Fresh
    PROVE  /\ job.e2fstoolsver \in Nat /\ job.xfstoolsver \in Nat
           /\ "journal_dev" \notin Info.feat
           /\ Info.xfs => Info.rev \in {4, 5} /\ (Info.rev = 4 => Info.feat = {})
  <1>1. job \in Jobs /\ ArchiveInv /\ pc = "rmount"
    BY DEF PartitionsInv, Fresh
  <1>2. cur \in DOMAIN job.srcs
    BY <1>1, RestoringFacts DEF PartitionsInv, ArgsInv, Restoring
  <1>3. archive[cur] = FsInfo(archive[cur].fstype, job.disk[job.srcs[cur]])
    BY <1>1, <1>2 DEF ArchiveInv, Restoring
  <1>4. PICK s : s = job.disk[job.srcs[cur]]
    OBVIOUS
  <1>5. job.srcs[cur] \in Parts
    BY <1>1, <1>2, JobFacts
  <1>6. Mountable(s)
    <2>1. \A p \in Parts : Mountable(job.disk[p])
      BY <1>1, JobsAssumption, Zenon
    <2>2. QED  BY <1>4, <1>5, <2>1, Zenon
  <1>7. Info.feat = s.feat /\ Info.rev = s.rev /\ Info.xfs = (s.fs = "xfs")
    <2>1. PICK f : f = archive[cur].fstype
      OBVIOUS
    <2>2. Info = FsInfo(f, s)
      BY <1>3, <1>4, <2>1 DEF Info
    <2>3. QED  BY <2>2 DEF FsInfo
  <1>8. QED  BY <1>1, <1>6, <1>7, JobFacts DEF Mountable

\* Whether the device at hand is a large one is a Boolean, as the lemmas want it.
LEMMA LargeIsBoolean == \E large \in BOOLEAN : large = (Dest \in job.large)
  <1>1. (Dest \in job.large) \in BOOLEAN
    OBVIOUS
  <1> USE <1>1
  <1>2. WITNESS (Dest \in job.large) \in BOOLEAN
  <1>3. QED  OBVIOUS

\* What extfs_mkfs() has formatted, extfs_mount() accepts: for every set of
\* flags, every version of mke2fs and every conversion between the three types
\* whose flags can carry the type.
THEOREM FormattedIsAlwaysMountable == PartitionsSpec => []FormattedIsMountable
  <1>1. PartitionsInv => FormattedIsMountable
    <2> SUFFICES ASSUME PartitionsInv, FreshExt, TypeCarried  PROVE Detected(disk[Dest]) = Target
      BY DEF FormattedIsMountable
    <2>1. pc = "rmount" /\ Target \in DOMAIN ExtType /\ Fresh
      BY DEF FreshExt, Fresh
    <2>2. PICK t \in {2, 3, 4} : t = ExtType[Target]
      BY <2>1, Names
    <2>3. PICK v \in Nat : v = job.e2fstoolsver
      BY <2>1, FreshFacts
    <2>4. PICK large \in BOOLEAN : large = (Dest \in job.large)
      BY LargeIsBoolean
    <2>5. PICK feat : feat = disk[Dest].feat
      OBVIOUS
    <2>6. FormatInv
      BY DEF PartitionsInv
    <2>7. /\ ~extfs_refused(Info, t, v, large) /\ disk[Dest].fs = "ext"
          /\ feat \in extfs_created(Info, t, v, large)
      BY <2>1, <2>2, <2>3, <2>4, <2>5, <2>6, Zenon DEF FormatInv
    <2>8. "journal_dev" \notin Original(Info)
      BY <2>1, FreshFacts DEF Original
    <2>9. \/ t = 2
          \/ OriginalType(Info) < t
          \/ \E f \in Original(Info) \cap Mentioned(v) : extfs_get_fstype_from_compat_flags({f}) = t
      BY <2>2, <2>3, Zenon DEF TypeCarried
    <2>10. extfs_get_fstype_from_compat_flags(feat) = t
      BY <2>7, <2>8, <2>9, ConversionGivesType
    <2>11. FsName(t) = Target
      BY <2>1, <2>2, Names
    <2>12. QED  BY <2>5, <2>7, <2>10, <2>11 DEF Detected
  <1>2. QED  BY <1>1, PartitionsCorrect, PTL

\* What extfs_mkfs() and xfs_mkfs() tell the tools gives the format that was
\* saved, or the one a large device needs, for every set of flags and every
\* version of the tools.
THEOREM CreatedIsAlwaysFaithful == PartitionsSpec => []CreatedIsFaithful
  <1>1. PartitionsInv => FlagsKept
    <2> SUFFICES ASSUME PartitionsInv, FreshExt, Info.ext, Info.rev # GoodOldRev,
                        Dest \notin job.large, ExtType[Target] = OriginalType(Info)
                 PROVE  LET known == Info.feat \cap Mentioned(job.e2fstoolsver)
                        IN  disk[Dest].feat \cap Mentioned(job.e2fstoolsver)
                              = known \ ((IF Target = "ext4" THEN {} ELSE Ext4Compat)
                                         \cup (IF "metadata_csum" \in known THEN {"uninit_bg"} ELSE {}))
      BY Zenon DEF FlagsKept
    <2>1. pc = "rmount" /\ Target \in DOMAIN ExtType /\ Fresh
      BY DEF FreshExt, Fresh
    <2>2. PICK t \in {2, 3, 4} : t = ExtType[Target]
      BY <2>1, Names
    <2>3. PICK v \in Nat : v = job.e2fstoolsver
      BY <2>1, FreshFacts
    <2>4. PICK large \in BOOLEAN : large = (Dest \in job.large)
      BY LargeIsBoolean
    <2>5. PICK feat : feat = disk[Dest].feat
      OBVIOUS
    <2>6. FormatInv
      BY DEF PartitionsInv
    <2>7. feat \in extfs_created(Info, t, v, large)
      BY <2>1, <2>2, <2>3, <2>4, <2>5, <2>6, Zenon DEF FormatInv
    <2>8. ~large
      BY <2>4
    <2>9. t = 4 <=> Target = "ext4"
      BY <2>1, <2>2, Names
    <2>10. LET known == Info.feat \cap Mentioned(v)
           IN  feat \cap Mentioned(v)
                 = known \ ((IF t = 4 THEN {} ELSE Ext4Compat)
                            \cup (IF "metadata_csum" \in known THEN {"uninit_bg"} ELSE {}))
      BY <2>2, <2>7, <2>8, SameTypeKeepsFlags
    <2>11. QED  BY <2>3, <2>5, <2>9, <2>10
  <1>2. PartitionsInv => LargeIsAddressable
    <2> SUFFICES ASSUME PartitionsInv, FreshExt, Dest \in job.large
                 PROVE  /\ "64bit" \in disk[Dest].feat /\ "resize_inode" \notin disk[Dest].feat
                        /\ Detected(disk[Dest]) = "ext4"
      BY DEF LargeIsAddressable
    <2>1. pc = "rmount" /\ Target \in DOMAIN ExtType /\ Fresh
      BY DEF FreshExt, Fresh
    <2>2. PICK t \in {2, 3, 4} : t = ExtType[Target]
      BY <2>1, Names
    <2>3. PICK v \in Nat : v = job.e2fstoolsver
      BY <2>1, FreshFacts
    <2>4. PICK large \in BOOLEAN : large = (Dest \in job.large)
      BY LargeIsBoolean
    <2>5. PICK feat : feat = disk[Dest].feat
      OBVIOUS
    <2>6. FormatInv
      BY DEF PartitionsInv
    <2>7. /\ ~extfs_refused(Info, t, v, large) /\ disk[Dest].fs = "ext"
          /\ feat \in extfs_created(Info, t, v, large)
      BY <2>1, <2>2, <2>3, <2>4, <2>5, <2>6, Zenon DEF FormatInv
    <2>8. large => /\ t = 4
                   /\ "64bit" \in feat /\ "resize_inode" \notin feat
                   /\ extfs_get_fstype_from_compat_flags(feat) = 4
      BY <2>7, LargeDevice
    <2>9. large
      BY <2>4
    <2>10. FsName(4) = "ext4"
      BY Names
    <2>11. QED  BY <2>5, <2>7, <2>8, <2>9, <2>10 DEF Detected
  <1>3. PartitionsInv => XfsFormatKept
    <2> SUFFICES ASSUME PartitionsInv, Fresh, Target = "xfs", Info.xfs
                 PROVE  LET s == disk[Dest]
                        IN  /\ "meta_uuid" \notin s.feat
                            /\ job.xfstoolsver >= PROGVER(4, 3, 0) =>
                                  /\ s.rev = Info.rev
                                  /\ s.feat \cap XfsMentioned(job.xfstoolsver, job.rhel7)
                                        = Info.feat \cap XfsMentioned(job.xfstoolsver, job.rhel7)
      BY DEF XfsFormatKept
    <2>1. pc = "rmount" /\ Target \notin DOMAIN ExtType
      BY Names DEF Fresh
    <2>2. PICK v \in Nat : v = job.xfstoolsver
      BY FreshFacts
    <2>3. FormatInv
      BY DEF PartitionsInv
    <2>4. PICK s \in xfs_created(Info, v, job.rhel7) :
              LET x == IF v >= PROGVER(4, 3, 0) \/ Uuid = "u0" THEN s ELSE xfs_admin(s)
              IN  disk[Dest].rev = x.rev /\ disk[Dest].feat = x.feat
      BY <2>1, <2>2, <2>3, Zenon DEF FormatInv
    <2>5. Info.rev \in {4, 5} /\ (Info.rev = 4 => Info.feat = {})
      BY FreshFacts
    <2>6. /\ s.rev \in {4, 5} /\ s.feat \subseteq XfsFlags \ {"meta_uuid"}
          /\ v < PROGVER(4, 3, 0) => s.rev = 4
          /\ (Info.xfs /\ v >= PROGVER(4, 3, 0) /\ Info.rev \in {4, 5} /\ (Info.rev = 4 => Info.feat = {})) =>
                /\ s.rev = Info.rev
                /\ s.feat \cap XfsMentioned(v, job.rhel7) = Info.feat \cap XfsMentioned(v, job.rhel7)
      BY XfsCreated
    <2>7. disk[Dest].rev = s.rev /\ disk[Dest].feat = s.feat
      <3>1. CASE v >= PROGVER(4, 3, 0)
        BY <2>4, <3>1
      <3>2. CASE v < PROGVER(4, 3, 0)
        BY <2>4, <2>6, <3>2 DEF xfs_admin
      <3>3. QED  BY <3>1, <3>2 DEF PROGVER
    <2>8. QED  BY <2>2, <2>5, <2>6, <2>7
  <1>4. PartitionsInv => CreatedIsFaithful
    BY <1>1, <1>2, <1>3 DEF CreatedIsFaithful
  <1>5. QED  BY <1>4, PartitionsCorrect, PTL

\* What one step does to the format of a partition that is mounted
FormatIsKept ==
    \A p \in Parts :
        [disk[p] EXCEPT !.content = "none"] # [disk'[p] EXCEPT !.content = "none"] => ~Mounted(p)

\* Only restfs_mkfs formats, and only what is not mounted; the contents that
\* arrives changes nothing of the format.
LEMMA FormatIsKeptByStep == PartitionsInv /\ [PartitionsNext]_vars => FormatIsKept
  <1> SUFFICES ASSUME PartitionsInv, [PartitionsNext]_vars, NEW p \in Parts,
                      [disk[p] EXCEPT !.content = "none"] # [disk'[p] EXCEPT !.content = "none"]
               PROVE  ~Mounted(p)
    BY DEF FormatIsKept
  <1>1. disk'[p] # disk[p]
    OBVIOUS
  <1>2. CASE restfs_mkfs
    <2>1. p = Dest
      BY <1>1, <1>2, MkfsOutcome
    <2>2. ~Mounted(Dest)
      BY <1>2 DEF PartitionsInv, FormatInv, restfs_mkfs
    <2>3. QED  BY <2>1, <2>2
  <1>3. CASE restfs_objects
    <2>1. PICK c : disk' = [disk EXCEPT ![Dest].content = c]
      BY <1>3 DEF restfs_objects
    <2>2. disk \in [Parts -> Super]
      BY DEF PartitionsInv, PartitionsTypeOK
    <2>3. p = Dest
      BY <1>1, <2>1, <2>2
    <2>4. disk'[p] = [disk[p] EXCEPT !.content = c] /\ disk[p] \in Super
      BY <2>1, <2>2, <2>3
    <2>5. QED  BY <2>4 DEF Super
  <1>4. CASE UNCHANGED disk
    BY <1>1, <1>4
  <1>5. QED
    BY <1>2, <1>3, <1>4
       DEF PartitionsNext, vars, Ended, filesystem_mount_partition, createar_oper_savefs, save_umount,
           save_umount_next, oper_save_end, restfs_args, restfs_skip, restfs_end, restfs_check,
           restfs_mount, restfs_umount, restfs_umount_fails

\* No partition is formatted under a mount, whoever mounted it: the test of
\* extractar_filesystem_extract() holds until the formatting tool runs.
THEOREM MountedIsNeverFormatted == PartitionsSpec => NeverFormatsMounted
  <1>1. PartitionsInv /\ [PartitionsNext]_vars => [FormatIsKept]_vars
    BY FormatIsKeptByStep
  <1>2. PartitionsSpec => []PartitionsInv
    BY PartitionsCorrect
  <1> HIDE DEF PartitionsInv, PartitionsNext
  <1>3. PartitionsSpec => [][FormatIsKept]_vars
    BY <1>1, <1>2, PTL DEF PartitionsSpec
  <1>4. QED  BY <1>3 DEF NeverFormatsMounted, FormatIsKept
=============================================================================
