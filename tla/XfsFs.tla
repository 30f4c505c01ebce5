-------------------------------- MODULE XfsFs --------------------------------
(***************************************************************************)
(* What fsarchiver knows about XFS (fs_xfs.c): the options it gives to     *)
(* mkfs.xfs so that the file system has the format version, the features   *)
(* and the UUID it was saved with, as far as the installed xfsprogs can.   *)
(***************************************************************************)
EXTENDS ExtFs

\* XFS_SB_FEAT_*: the features it supports, all it knows
XfsSupported ==
    {"finobt", "rmapbt", "reflink", "inobtcount", "ftype", "sparse", "meta_uuid", "bigtime",
     "needsrepair", "nrext64", "exchange", "parent", "metadir", "zoned", "zone_gaps"}

\* (and one this version of fsarchiver has not heard of), ...
XfsFlags == XfsSupported \cup {"unknown"}

\* ... the ones mkfs.xfs is told about, with the first version that has the
\* option ...
FirstXfsprogs ==
    {[ver |-> PROGVER(3, 2, 1), flags |-> {"finobt"}],
     [ver |-> PROGVER(4, 2, 0), flags |-> {"sparse"}],
     [ver |-> PROGVER(4, 8, 0), flags |-> {"rmapbt"}],
     [ver |-> PROGVER(4, 9, 0), flags |-> {"reflink"}],
     [ver |-> PROGVER(5, 10, 0), flags |-> {"inobtcount", "bigtime"}],
     [ver |-> PROGVER(5, 19, 0), flags |-> {"nrext64"}],
     [ver |-> PROGVER(6, 10, 0), flags |-> {"exchange", "parent"}],
     [ver |-> PROGVER(6, 13, 0), flags |-> {"metadir"}],
     [ver |-> PROGVER(6, 15, 0), flags |-> {"zoned"}]}

\* ... and the ones that are asked for whatever the format version.
AnyFormat == {"exchange", "parent", "metadir", "zoned"}

xfs_check_compatibility(feat) == feat \subseteq XfsSupported

\* Version 5 stamps the UUID on every metadata block: with tools that cannot
\* set it when they format, fsarchiver makes a version 4 instead.
xfs_version(d, v) == IF d.xfs /\ d.rev = 5 /\ v >= PROGVER(4, 3, 0) THEN 5 ELSE 4

\* The options this version of mkfs.xfs has (RHEL 7 took sparse out of its own)
XfsMentioned(v, rhel7) ==
    UNION {e.flags : e \in {x \in FirstXfsprogs : v >= x.ver}} \ (IF rhel7 THEN {"sparse"} ELSE {})

\* The features asked for with =1; the others are turned off with =0.
XfsAsked(d, v, rhel7) ==
    {f \in XfsMentioned(v, rhel7) :
        d.xfs /\ f \in d.feat /\ (xfs_version(d, v) = 5 \/ f \in AnyFormat)}

xfs_refused(d, v) == v = 0 \/ (d.xfs /\ ~xfs_check_compatibility(d.feat))

\* mkfs.xfs (external): it rejects a version 5 feature on a version 4 format,
\* and a version 5 always has ftype.  The crc option decides on the version,
\* and before 3.2.0 there was only version 4.
xfs_created(d, v, rhel7) ==
    LET ver == xfs_version(d, v)
        asked == XfsAsked(d, v, rhel7)
    IN  IF ver = 4 /\ asked # {} THEN {}
        ELSE {[rev |-> ver, feat |-> IF ver = 5 THEN asked \cup {"ftype"} ELSE {}]}

\* xfs_admin -U (external) on a version 5 sets a second, visible UUID and
\* marks the file system with meta_uuid.
xfs_admin(s) == IF s.rev = 5 THEN [s EXCEPT !.feat = @ \cup {"meta_uuid"}] ELSE s
=============================================================================
