----------------------------- MODULE Partitions -----------------------------
(***************************************************************************)
(* The partitions of a machine under one savefs and the restfs of its      *)
(* archive: what is mounted when, what is formatted as what, and what is   *)
(* left behind by every failure on the way (oper_save.c, oper_restore.c,   *)
(* filesys.c).  The contents of a file system is one value here: how it    *)
(* travels through the archive is the subject of SavePipeline, FileData    *)
(* and RestorePipeline.                                                    *)
(***************************************************************************)
EXTENDS XfsFs, Integers, FiniteSets, Sequences

CONSTANTS
    Parts,        \* the block devices
    Uuids,        \* the UUIDs, of 36 characters; u0 is one that a tool makes up
    Contents,     \* what a file system can hold: nothing, part of something, ...
    Jobs,         \* the machines and the command lines considered
    Faults,       \* which external steps may fail
    MaxFaults     \* how many of them do

ASSUME PartsAssumption == Parts # {}
ASSUME ContentsAssumption == "u0" \in Uuids /\ "" \notin Uuids /\ {"none", "part"} \subseteq Contents
ASSUME FaultsAssumption ==
    /\ Faults \subseteq {"mount", "xattr", "statvfs", "save", "mkfs", "tune", "objects", "umount"}
    /\ MaxFaults \in Nat

VARIABLES
    job,          \* the machine at the start and the two command lines
    disk,         \* the superblock and the contents of each partition
    mounts,       \* what is mounted: the partition, where it was mounted from, how
    devinfo,      \* oper_save's devinfo[]: what it has mounted, and as which type
    archive,      \* the archive: one entry for each file system saved
    dicoargv,     \* oper_restore's dicoargv[]: the argument for each id
    cur,          \* the file system at hand, as the loops count them
    tries,        \* i of generic_umount
    pc,           \* what the program does next
    ret,          \* the exit status so far
    faults,       \* how many faults there were
    busy          \* how often, up to 4, each mount of fsarchiver's was too busy to undo;
                  \* 4 also if umount2 failed in another way

vars == <<job, disk, mounts, devinfo, archive, dicoargv, cur, tries, pc, ret, faults, busy>>

-----------------------------------------------------------------------------
(* The machine *)

\* filesys[]: the supported file systems whose support is modelled, in the
\* order they are probed; ntfs is the one that is not stable.
filesys == <<"ext2", "ext3", "ext4", "xfs", "ntfs">>
Supported == {filesys[i] : i \in DOMAIN filesys}
ExtType == [n \in {"ext2", "ext3", "ext4"} |-> IF n = "ext2" THEN 2 ELSE IF n = "ext3" THEN 3 ELSE 4]
FsName(t) == CHOOSE n \in DOMAIN ExtType : ExtType[n] = t

\* The test function of each type: which type a superblock is
Detected(s) ==
    IF s.fs = "ext" THEN FsName(extfs_get_fstype_from_compat_flags(s.feat)) ELSE s.fs

\* generic_get_mntinfo: the first entry of /proc/self/mountinfo for a device.
\* What the user mounted is older than what fsarchiver mounts.
Entries(p) == {m \in mounts : m.part = p}
generic_get_mntinfo(p) ==
    IF \E m \in Entries(p) : m.who = "user" THEN CHOOSE m \in Entries(p) : m.who = "user"
    ELSE CHOOSE m \in Entries(p) : TRUE
Mounted(p) == Entries(p) # {}

Fault(f) == f \in Faults /\ faults < MaxFaults /\ faults' = faults + 1
NoFault == UNCHANGED faults

Super == [fs: {"none", "ext", "xfs", "ntfs", "iso9660"}, rev: {0, 1, 4, 5},
          feat: SUBSET (ExtFlags \cup XfsFlags), uuid: Uuids, content: Contents]

\* The format that a type is the name of: ext3 and ext4 can be mounted as each
\* other, if their flags allow it, but not as an xfs.
Format(fstype) == IF fstype \in DOMAIN ExtType THEN "ext" ELSE fstype

\* A partition is a file system that can be mounted, hence no journal of another
\* one; an XFS has version 4, without any of the features, or 5.
Mountable(s) ==
    /\ "journal_dev" \notin s.feat
    /\ s.fs = "xfs" => s.rev \in {4, 5} /\ (s.rev = 4 => s.feat = {})

\* The machines: what is mounted at the start is the user's, as a type of the
\* format that is there.  The uuid of an argument can be any text.  The
\* formatting of ntfs is not modelled: an ntfs is refused or converted.
ASSUME JobsAssumption ==
    \A j \in Jobs :
        /\ j.disk \in [Parts -> Super]
        /\ \A p \in Parts : Mountable(j.disk[p])
        /\ j.srcs \in Seq(Parts) /\ j.srcs # <<>>
        /\ \A m \in j.mounts :
              /\ m.part \in Parts /\ m.who = "user"
              /\ m.fs \in Supported => Format(m.fs) = j.disk[m.part].fs
        /\ \A i \in DOMAIN j.args :
              /\ j.args[i].id \in Int /\ j.args[i].mkfs # "ntfs"
              /\ (j.args[i].mkfs = "" /\ j.args[i].id \in DOMAIN j.srcs) =>
                    j.disk[j.srcs[j.args[i].id]].fs # "ntfs"
        /\ j.e2fstoolsver \in Nat /\ j.xfstoolsver \in Nat

NoMount == [mounted |-> FALSE, fstype |-> "none"]

PartitionsInit ==
    /\ job \in Jobs
    /\ disk = job.disk
    /\ mounts = job.mounts
    /\ devinfo = [i \in DOMAIN job.srcs |-> NoMount]
    /\ archive = <<>>
    /\ dicoargv = <<>>
    /\ cur = 1
    /\ tries = 0
    /\ pc = "mount"
    /\ ret = 0
    /\ faults = 0
    /\ busy = [k \in {"save", "rest"} \X (1 .. Len(job.srcs)) |-> 0]

-----------------------------------------------------------------------------
(* savefs *)

Src == job.srcs[cur]

\* The partition is mounted: it must not be writable without -A, it must be a
\* supported type by the name it is mounted as, and its options must keep the
\* attributes, unless -a.
AcceptsMount(m) ==
    /\ m.rw => job.allowsaverw
    /\ m.fs \in Supported
    /\ m.badopt => job.dontcheckmountopts

\* What is checked once the partition is mounted on fsarchiver's own directory
\* (a file system with flags it does not know is found by getinfo).
getinfo_accepts(s) ==
    /\ s.fs = "ext" => extfs_check_compatibility(s.feat)
    /\ s.fs = "xfs" => xfs_check_compatibility(s.feat)

Accepts(fstype, s) ==
    /\ fstype = "ntfs" => job.experimental
    /\ getinfo_accepts(s)

\* What extfs_getinfo, xfs_getinfo and the caller store in the FSIN header
FsInfo(fstype, s) ==
    [fstype |-> fstype, ext |-> s.fs = "ext", xfs |-> s.fs = "xfs", rev |-> s.rev,
     feat |-> s.feat, uuid |-> s.uuid, content |-> s.content]

\* do_create_error and do_create_success: unmount what is mounted.
GoUnmount(status) ==
    /\ pc' = "umount"
    /\ cur' = 1
    /\ ret' = status

MountFails ==
    /\ GoUnmount(-1)
    /\ UNCHANGED <<mounts, devinfo>>

\* Faulty variant: a bind mount is taken for the user's.
mountedbyfsa_NotBind(fs) == [mounted |-> ~Mounted(Src), fstype |-> fs]

mountedbyfsa(fs) == [mounted |-> TRUE, fstype |-> fs]

\* The new mount, and what its checks decide
MountDone(m) ==
    /\ mounts' = mounts \cup {m}
    /\ devinfo' = [devinfo EXCEPT ![cur] = mountedbyfsa(m.fs)]
    /\ \/ /\ Accepts(m.fs, disk[Src]) /\ NoFault
          /\ IF cur = Len(job.srcs) THEN pc' = "contents" /\ cur' = 1
             ELSE pc' = "mount" /\ cur' = cur + 1
          /\ UNCHANGED ret
       \/ /\ ~Accepts(m.fs, disk[Src]) /\ NoFault
          /\ GoUnmount(-1)
       \/ /\ \/ Fault("xattr") /\ ~job.dontcheckmountopts /\ m.fs # "ntfs"
             \/ Fault("statvfs")
          /\ GoUnmount(-1)

OwnMount(fs) ==
    [part |-> Src, who |-> "save", n |-> cur, fs |-> fs, rw |-> FALSE, badopt |-> FALSE]

\* A partition that is mounted is seen through a bind mount, another one is
\* mounted read-only as the first type whose test says yes.
filesystem_mount_partition ==
    /\ pc = "mount"
    /\ IF Mounted(Src)
       THEN LET m == generic_get_mntinfo(Src)
            IN  \/ AcceptsMount(m) /\ MountDone(OwnMount(m.fs))
                \/ ~AcceptsMount(m) /\ NoFault /\ MountFails
                \/ AcceptsMount(m) /\ Fault("mount") /\ MountFails
       ELSE \/ Detected(disk[Src]) \in Supported /\ MountDone(OwnMount(Detected(disk[Src])))
            \/ Detected(disk[Src]) \notin Supported /\ NoFault /\ MountFails
            \/ Detected(disk[Src]) \in Supported /\ Fault("mount") /\ MountFails
    /\ UNCHANGED <<job, disk, archive, dicoargv, tries, busy>>

\* The contents of every file system is written, or the archive is given up.
createar_oper_savefs ==
    /\ pc = "contents"
    /\ \/ /\ NoFault
          /\ archive' = [i \in DOMAIN job.srcs |-> FsInfo(devinfo[i].fstype, disk[job.srcs[i]])]
          /\ GoUnmount(0)
       \/ /\ Fault("save")
          /\ GoUnmount(-1)
          /\ UNCHANGED archive
    /\ UNCHANGED <<job, disk, mounts, devinfo, dicoargv, tries, busy>>

-----------------------------------------------------------------------------
(* Unmounting *)

MaxTries == 4

SeenBusy(m) == busy' = [busy EXCEPT ![<<m.who, m.n>>] = IF @ < MaxTries THEN @ + 1 ELSE @]

\* One attempt: umount2 succeeds, or the partition is busy, or there is another
\* error, after which there is no further attempt.
generic_umount(m) ==
    \/ /\ mounts' = mounts \ {m} /\ tries' = 0
       /\ NoFault /\ UNCHANGED busy
    \/ /\ SeenBusy(m)
       /\ tries' = tries + 1
       /\ NoFault /\ UNCHANGED mounts
    \/ /\ Fault("umount")
       /\ busy' = [busy EXCEPT ![<<m.who, m.n>>] = MaxTries]
       /\ tries' = MaxTries
       /\ UNCHANGED mounts

Own(who) == CHOOSE m \in mounts : m.who = who /\ m.n = cur

\* The end of oper_save: every partition it mounted is unmounted; one that
\* cannot be is reported and left.  A failed save removes its archive.
save_umount ==
    /\ pc = "umount"
    /\ cur <= Len(job.srcs) /\ devinfo[cur].mounted /\ tries < MaxTries
    /\ generic_umount(Own("save"))
    /\ cur' = IF mounts' # mounts THEN cur + 1 ELSE cur
    /\ UNCHANGED <<job, disk, devinfo, archive, dicoargv, pc, ret>>

save_umount_next ==
    /\ pc = "umount"
    /\ cur <= Len(job.srcs) /\ (~devinfo[cur].mounted \/ tries = MaxTries)
    /\ cur' = cur + 1
    /\ tries' = 0
    /\ UNCHANGED <<job, disk, mounts, devinfo, archive, dicoargv, pc, ret, faults, busy>>

oper_save_end ==
    /\ pc = "umount" /\ cur > Len(job.srcs)
    /\ pc' = IF ret = 0 THEN "args" ELSE "end"
    /\ cur' = 1
    /\ UNCHANGED <<job, disk, mounts, devinfo, archive, dicoargv, tries, ret, faults, busy>>

-----------------------------------------------------------------------------
(* restfs *)

\* convert_argv_to_strdicos and the checks of the ids against the archive:
\* all the arguments are looked at before anything else.
convert_argv_to_strdicos(args) ==
    /\ \A i \in DOMAIN args : args[i].id >= 1 /\ args[i].dest \in Parts
    /\ \A i, j \in DOMAIN args : i # j => args[i].id # args[j].id

KnownIds(args) == \A i \in DOMAIN args : args[i].id <= Len(archive)

restfs_args ==
    /\ pc = "args"
    /\ IF convert_argv_to_strdicos(job.args) /\ KnownIds(job.args)
       THEN /\ dicoargv' = [id \in {job.args[i].id : i \in DOMAIN job.args} |->
                                job.args[CHOOSE i \in DOMAIN job.args : job.args[i].id = id]]
            /\ pc' = "next"
            /\ UNCHANGED ret
       ELSE /\ pc' = "end" /\ ret' = -1
            /\ UNCHANGED dicoargv
    /\ UNCHANGED <<job, disk, mounts, devinfo, archive, cur, tries, faults, busy>>

\* The argument, the description and the type of the file system at hand
Arg == dicoargv[cur]
Info == archive[cur]
Dest == Arg.dest
Target == IF Arg.mkfs # "" THEN Arg.mkfs ELSE Info.fstype

\* One that was not asked for is skipped.
restfs_skip ==
    /\ pc = "next" /\ cur <= Len(archive) /\ cur \notin DOMAIN dicoargv
    /\ cur' = cur + 1
    /\ UNCHANGED <<job, disk, mounts, devinfo, archive, dicoargv, tries, pc, ret, faults, busy>>

restfs_end ==
    /\ pc = "next" /\ cur > Len(archive)
    /\ pc' = "end"
    /\ UNCHANGED <<job, disk, mounts, devinfo, archive, dicoargv, cur, tries, ret, faults, busy>>

Continue(next) == pc' = next /\ UNCHANGED ret
GiveUp == pc' = "end" /\ ret' = -1

\* Faulty variant: whatever is mounted there.
restfs_check_Nothing ==
    /\ pc = "next" /\ cur <= Len(archive) /\ cur \in DOMAIN dicoargv
    /\ IF Target \in Supported THEN Continue("mkfs") ELSE GiveUp
    /\ UNCHANGED <<job, disk, mounts, devinfo, archive, dicoargv, cur, tries, faults, busy>>

\* extractar_filesystem_extract until it formats: the destination must not be
\* mounted and the type must be one it knows.
restfs_check ==
    /\ pc = "next" /\ cur <= Len(archive) /\ cur \in DOMAIN dicoargv
    /\ IF ~Mounted(Dest) /\ Target \in Supported THEN Continue("mkfs") ELSE GiveUp
    /\ UNCHANGED <<job, disk, mounts, devinfo, archive, dicoargv, cur, tries, faults, busy>>

\* Which UUID the new file system must have: u0 is one the tool makes up, if the
\* argument or the serial number of an ntfs has not the 36 characters of one.
Uuid ==
    IF Arg.uuid = "" THEN IF Info.ext \/ Info.xfs THEN Info.uuid ELSE "u0"
    ELSE IF Arg.uuid \in Uuids THEN Arg.uuid ELSE "u0"

New(fs, rev, feat, uuid) ==
    [fs |-> fs, rev |-> rev, feat |-> feat, uuid |-> uuid, content |-> "none"]

Formatted(s) == disk' = [disk EXCEPT ![Dest] = s]

\* The formatting tool fails: what was on the partition may be gone.
ToolFails ==
    /\ Fault("mkfs")
    /\ \/ Formatted(New("none", 0, {}, "u0"))
       \/ UNCHANGED disk
    /\ GiveUp

\* The UUID mke2fs gives to the file system: it has an option since 1.41.4.
mke2fs_uuid(v) == IF v >= PROGVER(1, 41, 4) THEN Uuid ELSE "u0"

\* Faulty variant: tune2fs is not told.
tune2fs_uuid_Never(v) == mke2fs_uuid(v)

\* The UUID once tune2fs has run, which sets it if mke2fs could not (e2fsck
\* then repairs the checksums of an ext4).
tune2fs_uuid(v) == IF v >= PROGVER(1, 41, 4) THEN mke2fs_uuid(v) ELSE Uuid

extfs_mkfs ==
    LET t == ExtType[Target]
        v == job.e2fstoolsver
        large == Dest \in job.large
    IN  \/ /\ extfs_refused(Info, t, v, large)
           /\ GiveUp /\ NoFault
           /\ UNCHANGED disk
        \/ /\ ~extfs_refused(Info, t, v, large)
           /\ \/ ToolFails
              \/ \E feat \in extfs_created(Info, t, v, large) :
                    \/ /\ NoFault /\ Continue("rmount")
                       /\ Formatted(New("ext", Revision(Info, t), feat, tune2fs_uuid(v)))
                    \/ /\ Fault("tune") /\ GiveUp
                       /\ Formatted(New("ext", Revision(Info, t), feat, mke2fs_uuid(v)))

\* The UUID of an XFS is set by mkfs.xfs since 4.3.0, before by xfs_admin.
xfs_mkfs ==
    LET v == job.xfstoolsver
        created == xfs_created(Info, v, job.rhel7)
    IN  \/ /\ xfs_refused(Info, v) \/ created = {}
           /\ GiveUp /\ NoFault
           /\ UNCHANGED disk
        \/ /\ ~xfs_refused(Info, v) /\ created # {}
           /\ \/ ToolFails
              \/ \E s \in created :
                    \/ /\ NoFault /\ Continue("rmount")
                       /\ LET x == IF v >= PROGVER(4, 3, 0) \/ Uuid = "u0" THEN s ELSE xfs_admin(s)
                          IN  Formatted(New("xfs", x.rev, x.feat, Uuid))
                    \/ /\ v < PROGVER(4, 3, 0) /\ Uuid # "u0"
                       /\ Fault("tune") /\ GiveUp
                       /\ Formatted(New("xfs", s.rev, s.feat, "u0"))

restfs_mkfs ==
    /\ pc = "mkfs"
    /\ IF Target \in DOMAIN ExtType THEN extfs_mkfs ELSE xfs_mkfs
    /\ UNCHANGED <<job, mounts, devinfo, archive, dicoargv, cur, tries, busy>>

\* extfs_mount mounts nothing that is not the type it was asked for.
restfs_mount ==
    /\ pc = "rmount"
    /\ \/ /\ Detected(disk[Dest]) = Target
          /\ NoFault /\ Continue("objects")
          /\ mounts' = mounts \cup {[part |-> Dest, who |-> "rest", n |-> cur, fs |-> Target,
                                      rw |-> TRUE, badopt |-> FALSE]}
       \/ /\ \/ Detected(disk[Dest]) # Target /\ NoFault
             \/ Detected(disk[Dest]) = Target /\ Fault("mount")
          /\ GiveUp
          /\ UNCHANGED mounts
    /\ UNCHANGED <<job, disk, devinfo, archive, dicoargv, cur, tries, busy>>

restfs_objects ==
    /\ pc = "objects"
    /\ \/ /\ NoFault
          /\ disk' = [disk EXCEPT ![Dest].content = Info.content]
          /\ UNCHANGED ret
       \/ /\ Fault("objects")
          /\ disk' = [disk EXCEPT ![Dest].content = "part"]
          /\ ret' = -1
    /\ pc' = "rumount"
    /\ UNCHANGED <<job, mounts, devinfo, archive, dicoargv, cur, tries, busy>>

restfs_umount ==
    /\ pc = "rumount" /\ tries < MaxTries
    /\ generic_umount(Own("rest"))
    /\ IF mounts' = mounts THEN UNCHANGED <<pc, cur>>
       ELSE IF ret = 0 THEN pc' = "next" /\ cur' = cur + 1
       ELSE pc' = "end" /\ UNCHANGED cur
    /\ UNCHANGED <<job, disk, devinfo, archive, dicoargv, ret>>

\* A file system that cannot be unmounted ends the restore with an error.
restfs_umount_fails ==
    /\ pc = "rumount" /\ tries = MaxTries
    /\ GiveUp
    /\ UNCHANGED <<job, disk, mounts, devinfo, archive, dicoargv, cur, tries, faults, busy>>

-----------------------------------------------------------------------------

Ended == pc = "end" /\ UNCHANGED vars

PartitionsNext ==
    \/ filesystem_mount_partition \/ createar_oper_savefs
    \/ save_umount \/ save_umount_next \/ oper_save_end
    \/ restfs_args \/ restfs_skip \/ restfs_end \/ restfs_check
    \/ restfs_mkfs \/ restfs_mount \/ restfs_objects
    \/ restfs_umount \/ restfs_umount_fails
    \/ Ended

PartitionsSpec == PartitionsInit /\ [][PartitionsNext]_vars

-----------------------------------------------------------------------------
(* Properties *)

\* The type of every variable
PartitionsTypeOK ==
    /\ disk \in [Parts -> Super]
    /\ \A m \in mounts : m.part \in Parts /\ m.who \in {"user", "save", "rest"}
    /\ devinfo \in [DOMAIN job.srcs -> [mounted: BOOLEAN, fstype: Supported \cup {"none"}]]
    /\ Len(archive) \in {0, Len(job.srcs)}
    /\ DOMAIN dicoargv \subseteq DOMAIN archive
    /\ cur \in 1 .. Len(job.srcs) + 1
    /\ tries \in 0 .. MaxTries
    /\ pc \in {"mount", "contents", "umount", "args", "next", "mkfs", "rmount", "objects",
               "rumount", "end"}
    /\ ret \in {0, -1}
    /\ faults \in 0 .. MaxFaults
    /\ busy \in [{"save", "rest"} \X DOMAIN job.srcs -> 0 .. MaxTries]

\* Whatever fails, a partition fsarchiver mounted, on a bind mount too, is
\* unmounted before it exits, unless it was still busy at the last of the
\* four attempts of generic_umount, or an attempt failed for another reason.
NothingLeftMounted ==
    pc = "end" => \A m \in mounts : m.who # "user" => busy[<<m.who, m.n>>] = MaxTries

\* No partition is formatted under a mount, not even under one a savefs or an
\* earlier file system of the same restfs could not undo (the check of
\* extractar_filesystem_extract).
NeverFormatsMounted ==
    [][\A p \in Parts :
        [disk[p] EXCEPT !.content = "none"] # [disk'[p] EXCEPT !.content = "none"] => ~Mounted(p)]_vars

\* If one argument of restfs is wrong (an id twice or not in the archive, a
\* destination that is no block device), no destination is touched, not even
\* those of the arguments that were right.
BadArgument ==
    \/ \E i \in DOMAIN job.args : job.args[i].id \notin DOMAIN job.srcs \/ job.args[i].dest \notin Parts
    \/ \E i, j \in DOMAIN job.args : i # j /\ job.args[i].id = job.args[j].id
BadArgumentTouchesNothing == BadArgument => disk = job.disk

\* After a restfs that exits with 0, every destination holds the file system
\* that was asked for, with the UUID of the command line or the saved one,
\* of the type of mkfs= or the saved one, with all its contents
\* (unless two of them were sent to the same partition).  A uuid= that is none,
\* for its length, is passed over, and any UUID may come of it.
RestoredIsAsked ==
    (pc = "end" /\ ret = 0) =>
        \A id \in DOMAIN dicoargv :
            (\A other \in DOMAIN dicoargv \ {id} : dicoargv[other].dest # dicoargv[id].dest) =>
                LET s == disk[dicoargv[id].dest]
                    a == dicoargv[id]
                IN  /\ s.content = archive[id].content
                    /\ Detected(s) = (IF a.mkfs # "" THEN a.mkfs ELSE archive[id].fstype)
                    /\ a.uuid \in Uuids => s.uuid = a.uuid
                    /\ (a.uuid = "" /\ archive[id].fstype # "ntfs") => s.uuid = archive[id].uuid

\* A file system that was just formatted, and whether as an ext
Fresh == pc = "rmount"
FreshExt == Fresh /\ Target \in DOMAIN ExtType

\* The saved flags can make the type to create, with this mke2fs: an upgrade
\* adds what it needs; otherwise one of the flags must do it on its own.
TypeCarried ==
    LET t == ExtType[Target]
    IN  \/ t = 2
        \/ OriginalType(Info) < t
        \/ \E f \in Original(Info) \cap Mentioned(job.e2fstoolsver) :
                extfs_get_fstype_from_compat_flags({f}) = t

\* What extfs_mkfs creates is what extfs_mount then accepts, across every
\* conversion between the three types and every version of mke2fs: a partition
\* is not formatted only to be refused (where the flags can carry the type).
FormattedIsMountable == (FreshExt /\ TypeCarried) => Detected(disk[Dest]) = Target

\* The same without the condition: a conversion that is not refused gives the
\* type that was asked for.
ConversionIsMountable == FreshExt => Detected(disk[Dest]) = Target

\* Compatible flags that only ext4 has, and that do not make an ext4 by
\* themselves
Ext4Compat == {"sparse_super2", "fast_commit", "orphan_file"}

\* An ext restored as the type it was has exactly the flags it had, among those
\* this mke2fs knows: nothing the tool enables by itself, nothing lost, except
\* for flags of ext4 that an ext2 or ext3 had, and uninit_bg where metadata_csum
\* replaces it.
FlagsKept ==
    (FreshExt /\ Info.ext /\ Info.rev # GoodOldRev /\ Dest \notin job.large
      /\ ExtType[Target] = OriginalType(Info)) =>
        LET known == Info.feat \cap Mentioned(job.e2fstoolsver)
        IN  disk[Dest].feat \cap Mentioned(job.e2fstoolsver)
                = known \ ((IF Target = "ext4" THEN {} ELSE Ext4Compat)
                            \cup (IF "metadata_csum" \in known THEN {"uninit_bg"} ELSE {}))

\* On a device of 2^32 blocks or more, an ext file system is one that can
\* address it: an ext4 with 64bit and without resize_inode.
LargeIsAddressable ==
    (FreshExt /\ Dest \in job.large) =>
        /\ "64bit" \in disk[Dest].feat /\ "resize_inode" \notin disk[Dest].feat
        /\ Detected(disk[Dest]) = "ext4"

\* An XFS keeps its UUID without the second, visible one (meta_uuid) that old
\* kernels cannot mount; with tools that can, it keeps its version and features.
XfsFormatKept ==
    (Fresh /\ Target = "xfs" /\ Info.xfs) =>
        LET s == disk[Dest]
        IN  /\ "meta_uuid" \notin s.feat
            /\ job.xfstoolsver >= PROGVER(4, 3, 0) =>
                  /\ s.rev = Info.rev
                  /\ s.feat \cap XfsMentioned(job.xfstoolsver, job.rhel7)
                        = Info.feat \cap XfsMentioned(job.xfstoolsver, job.rhel7)

\* What the formatting tools are told gives the format that was saved, or the
\* one a larger device needs: the three properties above.
CreatedIsFaithful ==
    /\ FlagsKept
    /\ LargeIsAddressable
    /\ XfsFormatKept

\* A wrong command line formats nothing, and nothing stays mounted: what must
\* hold however a command ends.
CommandsCleanUp == BadArgumentTouchesNothing /\ NothingLeftMounted

-----------------------------------------------------------------------------
(* The inductive invariant *)

Saving == {"mount", "contents", "umount", "args"}
Restoring == {"next", "mkfs", "rmount", "objects", "rumount"}

\* Until restfs begins, the partitions are as they were.  Afterwards its
\* arguments have passed the tests.
DiskInv ==
    /\ pc \in Saving => disk = job.disk
    /\ pc \in Restoring => ~BadArgument

\* Every mount of fsarchiver's is known by what it was made for, and has the
\* format of its partition while savefs looks at it; the one restfs works on is
\* there.
MountsInv ==
    /\ \A m, o \in mounts : m.who # "user" /\ m.who = o.who /\ m.n = o.n => m = o
    /\ \A m \in mounts : m.who # "user" => m.n \in DOMAIN job.srcs
    /\ pc = "mount" => \A m \in mounts : m.fs \in Supported => Format(m.fs) = job.disk[m.part].fs
    /\ pc \in {"objects", "rumount"} => \E m \in mounts : m.who = "rest" /\ m.n = cur

\* devinfo[] tells which partitions savefs has mounted, and as what; those it
\* has yet to unmount are still there.
DevinfoInv ==
    /\ \A i \in DOMAIN job.srcs : devinfo[i].mounted =>
          devinfo[i].fstype \in Supported /\ Format(devinfo[i].fstype) = job.disk[job.srcs[i]].fs
    /\ pc = "mount" =>
          cur \in DOMAIN job.srcs /\ \A i \in DOMAIN job.srcs : devinfo[i].mounted <=> i < cur
    /\ pc = "contents" => \A i \in DOMAIN job.srcs : devinfo[i].mounted
    /\ \A m \in mounts : m.who = "save" => devinfo[m.n].mounted
    /\ \A i \in DOMAIN job.srcs :
          (devinfo[i].mounted /\ (pc \in {"mount", "contents"} \/ (pc = "umount" /\ i >= cur))) =>
              \E m \in mounts : m.who = "save" /\ m.n = i

\* A mount that was left behind was busy at every attempt, or one failed otherwise.
BusyInv ==
    /\ \A m \in mounts : m.who = "save" =>
          \/ pc \in {"mount", "contents"}
          \/ pc = "umount" /\ m.n >= cur
          \/ busy[<<"save", m.n>>] = MaxTries
    /\ \A m \in mounts : m.who = "rest" =>
          \/ pc \in {"objects", "rumount"} /\ m.n = cur
          \/ pc = "end" /\ busy[<<"rest", m.n>>] = MaxTries
    /\ pc \in {"mount", "contents"} => \A i \in DOMAIN job.srcs : busy[<<"save", i>>] = 0
    /\ pc = "umount" => \A i \in DOMAIN job.srcs :
          (i = cur => busy[<<"save", i>>] = tries) /\ (i > cur => busy[<<"save", i>>] = 0)
    /\ pc \in Saving \cup Restoring => \A i \in DOMAIN job.srcs :
          pc \in Saving \/ i >= cur =>
              busy[<<"rest", i>>] = IF pc = "rumount" /\ i = cur THEN tries ELSE 0
    /\ pc \notin {"umount", "rumount", "end"} \/ (pc = "umount" /\ cur > Len(job.srcs)) => tries = 0

\* The archive describes the partitions that were saved, and is complete
\* before restfs looks at it.
ArchiveInv ==
    /\ archive # <<>> =>
          /\ DOMAIN archive = DOMAIN job.srcs /\ Len(archive) = Len(job.srcs)
          /\ \A i \in DOMAIN job.srcs :
                /\ archive[i] = FsInfo(archive[i].fstype, job.disk[job.srcs[i]])
                /\ archive[i].fstype \in Supported
                /\ Format(archive[i].fstype) = job.disk[job.srcs[i]].fs
    /\ (pc = "umount" /\ ret = 0) \/ pc \in {"args"} \cup Restoring => archive # <<>>
    /\ pc \in {"mount", "contents", "args", "next", "mkfs", "rmount", "objects"} => ret = 0

\* dicoargv[] holds arguments of the command line, each under its id.
ArgsInv ==
    /\ pc \in Saving => dicoargv = <<>>
    /\ pc = "args" => cur = 1
    /\ \A id \in DOMAIN dicoargv : \E i \in DOMAIN job.args :
          dicoargv[id] = job.args[i] /\ job.args[i].id = id /\ job.args[i].dest \in Parts
    /\ pc \in Restoring \ {"next"} => cur \in DOMAIN dicoargv

\* What is about to be formatted is not mounted; what was formatted is what
\* the tools make of the description in the archive, with the UUID to have.
FormatInv ==
    /\ pc = "mkfs" => ~Mounted(Dest)
    /\ (pc = "rmount" /\ Target \in DOMAIN ExtType) =>
          LET t == ExtType[Target]
              v == job.e2fstoolsver
              large == Dest \in job.large
          IN  /\ ~extfs_refused(Info, t, v, large)
              /\ disk[Dest].fs = "ext"
              /\ disk[Dest].feat \in extfs_created(Info, t, v, large)
    /\ (pc = "rmount" /\ Target \notin DOMAIN ExtType) =>
          LET v == job.xfstoolsver
          IN  \E s \in xfs_created(Info, v, job.rhel7) :
                LET x == IF v >= PROGVER(4, 3, 0) \/ Uuid = "u0" THEN s ELSE xfs_admin(s)
                IN  disk[Dest].rev = x.rev /\ disk[Dest].feat = x.feat

\* A partition has the type and the UUID that were asked for, ...
IsAsked(id) ==
    LET s == disk[dicoargv[id].dest]
        a == dicoargv[id]
    IN  /\ Detected(s) = (IF a.mkfs # "" THEN a.mkfs ELSE archive[id].fstype)
        /\ a.uuid \in Uuids => s.uuid = a.uuid
        /\ (a.uuid = "" /\ archive[id].fstype # "ntfs") => s.uuid = archive[id].uuid

\* ... and nothing else was restored there.
Alone(id) == \A other \in DOMAIN dicoargv \ {id} : dicoargv[other].dest # dicoargv[id].dest

RestoredInv ==
    /\ pc = "rmount" => disk[Dest].uuid = Uuid
    /\ pc \in {"objects", "rumount"} => IsAsked(cur)
    /\ (pc = "rumount" /\ ret = 0) => disk[Dest].content = Info.content
    /\ (pc \in Restoring \/ pc = "end") /\ ret = 0 =>
          \A id \in DOMAIN dicoargv : (id < cur \/ pc = "end") /\ Alone(id) =>
              IsAsked(id) /\ disk[dicoargv[id].dest].content = archive[id].content

\* Together they are preserved by every step.  CommandsCleanUp and
\* RestoredIsAsked follow.
PartitionsInv ==
    /\ PartitionsTypeOK
    /\ job \in Jobs
    /\ DiskInv
    /\ BadArgumentTouchesNothing
    /\ MountsInv
    /\ DevinfoInv
    /\ BusyInv
    /\ ArchiveInv
    /\ ArgsInv
    /\ FormatInv
    /\ RestoredInv
=============================================================================
