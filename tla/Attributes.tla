----------------------------- MODULE Attributes -----------------------------
(***************************************************************************)
(* What becomes of the attributes of an object: oper_save.c reads them     *)
(* into a dictionary (dico.c) while other programs may change them,        *)
(* writebuf.c turns it into a header, archreader.c makes a dictionary of   *)
(* the header, and oper_restore.c creates the object and applies them.     *)
(*                                                                         *)
(* `owner' stands for uid and gid, `mtime' for both times, `mode' tells    *)
(* whether the set-user-id bit is set.  An extended attribute has a size   *)
(* and a value; for ntfs the attributes are those of createar_item_winattr *)
(* and for other file systems those of createar_item_xattr.                *)
(***************************************************************************)
EXTENDS Integers, Sequences, FiniteSets, SequencesExt

CONSTANTS
    Jobs,           \* the trees that are saved: see JobType
    XattrNames,     \* the names of attributes that llistxattr() may return
    WinNames,       \* the fixed list of createar_item_winattr()
    RaceInodes,     \* a bound: the inodes whose attributes other programs change
    RaceSizes,      \* a bound: the sizes of the values that they set
    MaxRaces,       \* a bound: how often they change an attribute
    Faults,         \* the calls of the restoration that may fail
    MaxFaults       \* a bound: how many do

Names == XattrNames \cup WinNames
MaxNames == 2047    \* so many names fit into the buffer of llistxattr()
None == [size |-> -1, val |-> "none"]       \* there is no such attribute

\* A time of stat64(): the seconds since 1970 are era * 2^32 + sec, and before
\* 1970 the era is negative; frac is what is left of a second.
IsTime(t) == t = [era |-> t.era, sec |-> t.sec, frac |-> t.frac]
Now == [era |-> 0, sec |-> 99, frac |-> 5]  \* any time after the save

\* The tree of a job: an entry has a path, the path of its directory, the paths
\* of all directories on the way to it, a kind, and the first path of its
\* inode; entries are in the order in which they reach the queue, and the first
\* one is the root directory, which is its own parent.
OnTheWay(t, i, q) ==
    \E k \in 1 .. i :
        /\ t[k].path = q /\ t[k].kind = "DIR"
        /\ q = t[i].parent => t[i].dirs = t[k].dirs \cup {q}
        /\ k = i => i = 1

TreeType(t) ==
    /\ Len(t) \in Nat \ {0}
    /\ t[1].parent = t[1].path /\ t[1].kind = "DIR"
    /\ \A i, k \in 1 .. Len(t) : t[i].path = t[k].path => i = k
    /\ \A i \in 1 .. Len(t) :
          /\ t[i].kind \in {"DIR", "FILE", "HARDLINK", "SYMLINK", "SPECIAL"}
          /\ t[i].kind = "HARDLINK" <=> t[i].ino # t[i].path
          /\ \E k \in 1 .. i :
                /\ t[k].path = t[i].ino /\ t[k].ino = t[k].path
                /\ t[i].kind = "HARDLINK" => t[k].kind # "DIR"
          /\ t[i].parent \in t[i].dirs
          /\ \A q \in t[i].dirs : OnTheWay(t, i, q)

\* Its attributes: "old" stands for a value before the save.  The root directory
\* of an ntfs file system has no short name.
JobType(j) ==
    /\ TreeType(j.tree)
    /\ j.winattr \in BOOLEAN
    /\ \A k \in 1 .. Len(j.tree) :
          /\ j.tree[k].ino \in DOMAIN j.inodes
          /\ j.tree[k].kind = "SYMLINK" => j.inodes[j.tree[k].ino].mode = "plain"
    /\ \A i \in DOMAIN j.inodes :
          /\ DOMAIN j.inodes[i].xattr = Names /\ IsTime(j.inodes[i].mtime)
          /\ j.listfits[i] \in BOOLEAN
          /\ \A n \in Names : j.inodes[i].xattr[n] # None =>
                /\ n \in IF j.winattr THEN WinNames ELSE XattrNames
                /\ j.inodes[i].xattr[n].size \in Nat
                /\ j.inodes[i].xattr[n].val = "old"
          /\ j.listfits[i] =>
                Cardinality({n \in Names : j.inodes[i].xattr[n] # None}) <= MaxNames
    /\ j.winattr /\ "dos_name" \in Names =>
          j.inodes[j.tree[1].path].xattr["dos_name"] = None

ASSUME AttributesAssumption ==
    /\ \A j \in Jobs : JobType(j)
    /\ IsFiniteSet(Names) /\ Cardinality(WinNames) <= MaxNames
    /\ RaceSizes \subseteq Nat
    /\ MaxRaces \in Nat /\ MaxFaults \in Nat
    /\ Faults \subseteq {"create", "lchown", "lsetxattr"}

VARIABLES
    job,        \* the tree
    xattrs,     \* the extended attributes of the tree now: inode -> name -> value
    seen,       \* history: all the values there have been: inode -> name -> set
    races,      \* how often other programs have changed an attribute
    phase,      \* where the program is
    cur,        \* the entry that is being saved
    dico,       \* its dictionary
    names,      \* the names of attributes still to be read
    name,       \* the one that is being read
    attrsize, attrcnt,  \* variables of createar_item_xattr() or _winattr()
    attrerrors, \* the attributes of the entry could not all be read
    archive,    \* the headers
    saveerr,    \* the paths counted in stats.err_* by the save
    pos,        \* the next header
    fs,         \* the destination: [dest: path -> inode, ino: inode -> attributes]
    counted,    \* the paths counted in stats.cnt_* by the restore
    resterr,    \* the paths counted in stats.err_*
    faults      \* how many calls have failed

savevars == <<cur, dico, names, name, attrsize, attrcnt, attrerrors, archive, saveerr>>
racevars == <<xattrs, seen, races>>
restvars == <<pos, fs, counted, resterr, faults>>
vars == <<job, racevars, phase, savevars, restvars>>

Paths == {job.tree[i].path : i \in 1 .. Len(job.tree)}
Entry(path) == job.tree[CHOOSE i \in 1 .. Len(job.tree) : job.tree[i].path = path]
Root == job.tree[1].path
Fault(f) == f \in Faults /\ faults < MaxFaults
-----------------------------------------------------------------------------
(* The dictionary, and its form in the archive *)

U16(n) == n % 65536

\* A second item with the same section and key is refused.
dico_add_generic(d, section, key, size, data) ==
    IF \E i \in 1 .. Len(d) : d[i].section = section /\ d[i].key = key THEN d
    ELSE Append(d, [section |-> section, key |-> key, size |-> U16(size), data |-> data])

Items(d, section, key) == {i \in 1 .. Len(d) : d[i].section = section /\ d[i].key = key}
dico_get_generic(d, section, key) == d[CHOOSE i \in Items(d, section, key) : TRUE].data
dico_count_one_section(d, section) == Cardinality({i \in 1 .. Len(d) : d[i].section = section})

\* The number of items, and for each of them type, section, key, size, data
Length(d) == 2 + FoldLeft(LAMBDA sum, item : sum + 6 + item.size, 0, d)

\* Faulty variant: the length of the header is a u16, as in version 1 of the
\* file format.
writebuf_add_dico_U16(d) ==
    [headerlen |-> U16(Length(d)), count |-> U16(Len(d)), items |-> d]

\* headerlen is a u32, larger than all sizes here.
writebuf_add_dico(d) == [headerlen |-> Length(d), count |-> U16(Len(d)), items |-> d]

\* If the length is not that of the items, the checksum is sought in the wrong
\* place.
Readable(header) == header.headerlen = Length(header.items)
archreader_read_dico(header) == SubSeq(header.items, 1, header.count)
-----------------------------------------------------------------------------
(* The save of one object: createar_save_file() *)

Section == IF job.winattr THEN "WINATTR" ELSE "XATTR"

\* The cast of a time to u32 keeps whole seconds modulo 2^32.
u32(t) == t.sec

createar_item_stdattr(e) ==
    LET a == job.inodes[e.ino]
        d0 == dico_add_generic(<<>>, "STDATTR", "PATH", 8, e.path)
        d1 == dico_add_generic(d0, "STDATTR", "MODE", 4, a.mode)
        d2 == dico_add_generic(d1, "STDATTR", "OWNER", 4, a.owner)
    IN dico_add_generic(d2, "STDATTR", "MTIME", 8, u32(a.mtime))

save_stat ==
    /\ phase = "stat"
    /\ dico' = createar_item_stdattr(job.tree[cur])
    /\ phase' = "list"
    /\ UNCHANGED <<job, racevars, cur, names, name, attrsize, attrcnt, attrerrors, archive, saveerr, restvars>>

\* The names that llistxattr() has for inode i, and whether they may fit into the
\* buffer: the old ones do if listfits[i], and if there are new ones either may be.
OwnNames == IF job.winattr THEN WinNames ELSE XattrNames
OldNames(i) == {n \in Names : job.inodes[i].xattr[n] # None}
NamesOf(i) == {n \in OwnNames : xattrs[i][n] # None}

MayFit(i) ==
    Cardinality(NamesOf(i)) <= MaxNames /\ (job.listfits[i] \/ ~(OldNames(i) \subseteq NamesOf(i)))
MayNotFit(i) == ~job.listfits[i] \/ ~(NamesOf(i) \subseteq OldNames(i))

\* llistxattr(), which returns -1 if they do not fit, or the fixed list, of which
\* the root directory has no short name
ListedNames(e) ==
    IF job.winattr THEN {{n \in WinNames : n # "dos_name" \/ e.path # Root}}
    ELSE {s \in {NamesOf(e.ino), {}} :
             IF s = {} THEN MayNotFit(e.ino) \/ NamesOf(e.ino) = {} ELSE MayFit(e.ino)}

save_list ==
    /\ phase = "list"
    /\ names' \in ListedNames(job.tree[cur])
    /\ attrcnt' = 0 /\ attrerrors' = FALSE
    /\ phase' = "size"
    /\ UNCHANGED <<job, racevars, cur, dico, name, attrsize, archive, saveerr, restvars>>

\* The largest size of a value
MaxAttrSize == 65535

\* lgetxattr() for the size.  More than MaxAttrSize bytes are an error; an attribute
\* that has vanished has the size -1, of which only createar_item_winattr()
\* takes notice.
save_size ==
    /\ phase = "size"
    /\ \E n \in names :
          LET size == xattrs[job.tree[cur].ino][n].size
          IN /\ name' = n
             /\ names' = names \ {n}
             /\ attrsize' = size
             /\ \/ /\ size > MaxAttrSize
                   /\ phase' = "size" /\ attrerrors' = TRUE
                \/ /\ size = -1 /\ job.winattr
                   /\ phase' = "size" /\ UNCHANGED attrerrors
                \/ /\ size <= MaxAttrSize /\ (size = -1 => ~job.winattr)
                   /\ phase' = "value" /\ UNCHANGED attrerrors
    /\ UNCHANGED <<job, racevars, cur, dico, attrcnt, archive, saveerr, restvars>>

\* The value of the attribute that is being read, as it is now
Value == xattrs[job.tree[cur].ino][name]

\* The buffer has attrsize + 1 bytes, and lgetxattr() is told that it has
\* attrsize: 0 is a question for the size alone, and as a size_t -1 is no limit.
TooLarge == attrsize > 0 /\ Value.size > attrsize

\* An attribute that was empty or had vanished when it was asked for its size has
\* a value now: the value is written into, or copied from, memory beyond the
\* buffer.
Overruns == attrsize <= 0 /\ Value.size > 0

\* Faulty variant: the size is that of the first call.
Fetched_FirstSize == [size |-> attrsize, val |-> Value.val]

\* What the dictionary gets if the program survives that: the size is a u16, and
\* the contents of a buffer that was not written are anything.
Fetched ==
    IF Overruns /\ (attrsize = 0 \/ Value.size > 65535)
    THEN [size |-> U16(Value.size), val |-> "junk"] ELSE Value

AddAttr(d, n, v) ==
    LET d1 == dico_add_generic(d, Section, 2 * attrcnt, 12, n)
    IN dico_add_generic(d1, Section, 2 * attrcnt + 1, v.size, v)

\* lgetxattr() for the value: the attribute may have vanished (ENOATTR), which
\* is no error, or have become larger than the buffer, which is one (ERANGE).
\* What a program does whose memory was overwritten is undefined.
save_value ==
    /\ phase = "value"
    /\ \/ /\ Value = None
          /\ phase' = "size"
          /\ UNCHANGED <<dico, attrcnt, attrerrors>>
       \/ /\ Value # None /\ TooLarge
          /\ phase' = "size"
          /\ attrerrors' = TRUE
          /\ UNCHANGED <<dico, attrcnt>>
       \/ /\ Value # None /\ ~TooLarge
          /\ phase' = "size"
          /\ dico' = AddAttr(dico, name, Fetched)
          /\ attrcnt' = attrcnt + 1
          /\ UNCHANGED attrerrors
       \/ /\ Value # None /\ Overruns
          /\ phase' = "undefined"
          /\ UNCHANGED <<dico, attrcnt, attrerrors>>
    /\ UNCHANGED <<job, racevars, cur, names, name, attrsize, archive, saveerr, restvars>>

\* An object whose attributes could not be read is left out.
save_queue ==
    /\ phase = "size"
    /\ names = {}
    /\ IF attrerrors
       THEN saveerr' = saveerr \cup {job.tree[cur].path} /\ UNCHANGED archive
       ELSE archive' = Append(archive, writebuf_add_dico(dico)) /\ UNCHANGED saveerr
    /\ cur' = cur + 1
    /\ phase' = IF cur = Len(job.tree) THEN "restore" ELSE "stat"
    /\ UNCHANGED <<job, racevars, dico, names, name, attrsize, attrcnt, attrerrors, restvars>>

\* Another program sets, changes or removes an attribute of an object that is
\* not yet saved completely.  "new" marks a value that it has set, also if that
\* is the one of before.
race ==
    /\ phase \in {"stat", "list", "size", "value"}
    /\ races < MaxRaces
    /\ \E i \in RaceInodes \cap {job.tree[k].ino : k \in cur .. Len(job.tree)}, n \in OwnNames,
          v \in {None} \cup {[size |-> s, val |-> "new"] : s \in RaceSizes} :
             /\ v # xattrs[i][n]
             /\ xattrs' = [xattrs EXCEPT ![i][n] = v]
             /\ seen' = [seen EXCEPT ![i][n] = @ \cup {v}]
    /\ races' = races + 1
    /\ UNCHANGED <<job, phase, savevars, restvars>>
-----------------------------------------------------------------------------
(* The kernel.  A new object has default attributes, and its directory a new *)
(* time; a new owner costs a file its set-user-id bit and its capabilities.  *)

Fresh == [mode |-> "plain", owner |-> 0, mtime |-> Now, xattr |-> [n \in Names |-> None]]

Exists(f, path) == path \in DOMAIN f.dest
Attr(f, path) == f.ino[f.dest[path]]
SetAttr(f, path, a) == [dest |-> f.dest, ino |-> [f.ino EXCEPT ![f.dest[path]] = a]]

\* utimes() to a whole second
AtSecond(sec) == [era |-> 0, sec |-> sec, frac |-> 0]
Utimes(f, path, t) == SetAttr(f, path, [Attr(f, path) EXCEPT !.mtime = t])

\* extract_dirpath(): the path of the root directory ends with a slash, and so
\* its parent is the root directory itself.
extract_dirpath(path) == Entry(path).parent

\* New names for inodes, and the inodes that are new
Create(f, new) ==
    LET made == Range(new) \ DOMAIN f.ino
        dirs == {extract_dirpath(p) : p \in DOMAIN new}
    IN [dest |-> [p \in DOMAIN f.dest \cup DOMAIN new |->
                     IF p \in DOMAIN new THEN new[p] ELSE f.dest[p]],
        ino |-> [i \in DOMAIN f.ino \cup made |->
                    IF i \in made THEN Fresh
                    ELSE IF i \in dirs THEN [f.ino[i] EXCEPT !.mtime = Now]
                    ELSE f.ino[i]]]

Chown(a, kind, owner) ==
    IF kind \in {"FILE", "HARDLINK"}
    THEN [a EXCEPT !.owner = owner, !.mode = "plain", !.xattr = [@ EXCEPT !["capability"] = None]]
    ELSE [a EXCEPT !.owner = owner]
-----------------------------------------------------------------------------
(* The restoration of one object: extractar_restore_object() *)

\* extractar_restore_attr_std(): lchown(), chmod(), utimes() or lutimes()
restore_attr_std(a, kind, d) ==
    LET a1 == Chown(a, kind, dico_get_generic(d, "STDATTR", "OWNER"))
        a2 == IF kind = "SYMLINK" THEN a1
              ELSE [a1 EXCEPT !.mode = dico_get_generic(d, "STDATTR", "MODE")]
    IN [a2 EXCEPT !.mtime = AtSecond(dico_get_generic(d, "STDATTR", "MTIME"))]

\* extractar_restore_attr_xattr() and _windows(): the keys i and i + 1 have the
\* name and the value of an attribute.
Pairs(d) == {i \in 0 .. dico_count_one_section(d, Section) - 1 : i % 2 = 0}
Stored(d) == {i \in Pairs(d) : Items(d, Section, i) # {} /\ Items(d, Section, i + 1) # {}}

\* lsetxattr() of all pairs except those in `refused'
restore_attr_xattr(a, d, refused) ==
    [a EXCEPT !.xattr = [n \in Names |->
        LET mine == {i \in Stored(d) \ refused : dico_get_generic(d, Section, i) = n}
        IN IF mine = {} THEN a.xattr[n]
           ELSE dico_get_generic(d, Section, (CHOOSE i \in mine : TRUE) + 1)]]

\* Faulty variant: the extended attributes first
restore_attr_everything_XattrFirst(a, kind, d, nochown, refused) ==
    LET a1 == restore_attr_xattr(a, d, refused)
    IN IF nochown THEN a1 ELSE restore_attr_std(a1, kind, d)

\* If lchown() fails the other standard attributes are not set, the extended
\* ones are.
restore_attr_everything(a, kind, d, nochown, refused) ==
    LET a1 == IF nochown THEN a ELSE restore_attr_std(a, kind, d)
    IN restore_attr_xattr(a1, d, refused)

\* The missing ones among a directory and those above it are created; the
\* destination is there.
mkdir_recursive(f, path) ==
    Create(f, [p \in (Entry(path).dirs \cup {path}) \ DOMAIN f.dest |-> p])

\* mkdir(), symlink(), link(), mknod() or creat()
restore_create(f, e) ==
    IF e.kind = "DIR" THEN mkdir_recursive(f, e.path)
    ELSE Create(f, [p \in {e.path} |-> IF e.kind = "HARDLINK" THEN f.dest[e.ino] ELSE p])

\* get_parent_dir_time_attrib() takes the whole seconds of the times.
get_parent_dir_time(f, dir) == [Attr(f, dir).mtime EXCEPT !.frac = 0]

\* Faulty variant: the times of the directory stay as the new entry made them.
restore_parent_Link(f, e, dir, tv) == IF e.kind = "HARDLINK" THEN f ELSE Utimes(f, dir, tv)

restore_parent(f, e, dir, tv) == Utimes(f, dir, tv)

\* Each of the extractar_restore_obj_xxx(): create the directory, note its
\* times, create the object, set its attributes, set the times of the directory.
\* An error skips the rest and is counted.
restore_object(e, d) ==
    LET dir == extract_dirpath(e.path)
        f1 == mkdir_recursive(fs, dir)
        tv == get_parent_dir_time(f1, dir)
        linkable == e.kind = "HARDLINK" => Exists(f1, e.ino)
    IN \/ /\ ~linkable \/ Fault("create")
          /\ fs' = f1
          /\ resterr' = resterr \cup {e.path}
          /\ faults' = IF linkable THEN faults + 1 ELSE faults
          /\ UNCHANGED counted
       \/ /\ linkable
          /\ \E nochown \in IF Fault("lchown") THEN BOOLEAN ELSE {FALSE} :
             \E refused \in IF Fault("lsetxattr") /\ ~nochown
                            THEN {{}} \cup {{i} : i \in Stored(d)} ELSE {{}} :
             LET f2 == restore_create(f1, e)
                 a == restore_attr_everything(Attr(f2, e.path), e.kind, d, nochown, refused)
                 f3 == SetAttr(f2, e.path, a)
             IN /\ faults' = IF nochown \/ refused # {} THEN faults + 1 ELSE faults
                /\ IF nochown \/ refused # {} \/ Stored(d) # Pairs(d)
                   THEN /\ fs' = f3
                        /\ resterr' = resterr \cup {e.path}
                        /\ UNCHANGED counted
                   ELSE /\ fs' = restore_parent(f3, e, dir, tv)
                        /\ counted' = counted \cup {e.path}
                        /\ UNCHANGED resterr

\* The reader passes over a header with a bad checksum.
rest_object ==
    /\ phase = "restore"
    /\ pos <= Len(archive)
    /\ IF Readable(archive[pos])
       THEN LET d == archreader_read_dico(archive[pos])
            IN restore_object(Entry(dico_get_generic(d, "STDATTR", "PATH")), d)
       ELSE UNCHANGED <<fs, counted, resterr, faults>>
    /\ pos' = pos + 1
    /\ UNCHANGED <<job, racevars, phase, savevars>>

rest_end ==
    /\ phase = "restore"
    /\ pos > Len(archive)
    /\ phase' = "done"
    /\ UNCHANGED <<job, racevars, savevars, restvars>>
-----------------------------------------------------------------------------
Init ==
    /\ job \in Jobs
    /\ xattrs = [i \in DOMAIN job.inodes |-> job.inodes[i].xattr]
    /\ seen = [i \in DOMAIN job.inodes |-> [n \in Names |-> {job.inodes[i].xattr[n]}]]
    /\ races = 0
    /\ phase = "stat"
    /\ cur = 1 /\ dico = <<>> /\ names = {} /\ name = "none"
    /\ attrsize = 0 /\ attrcnt = 0 /\ attrerrors = FALSE
    /\ archive = <<>> /\ saveerr = {}
    /\ pos = 1
    /\ fs = [dest |-> [p \in {Root} |-> p], ino |-> [p \in {Root} |-> Fresh]]
    /\ counted = {} /\ resterr = {} /\ faults = 0

Terminated == phase \in {"done", "undefined"} /\ UNCHANGED vars

Next ==
    \/ save_stat \/ save_list \/ save_size \/ save_value \/ save_queue \/ race
    \/ rest_object \/ rest_end
    \/ Terminated

Spec == Init /\ [][Next]_vars
-----------------------------------------------------------------------------
(* Properties *)

\* The type of every variable
AttributesTypeOK ==
    /\ job \in Jobs
    /\ phase \in {"stat", "list", "size", "value", "undefined", "restore", "done"}
    /\ cur \in 1 .. Len(job.tree) + 1
    /\ \A i \in 1 .. Len(dico) : dico[i].size \in Nat /\ dico[i].size <= 65535
    /\ names \subseteq Names /\ (phase \in {"value", "undefined"} => name \in Names)
    /\ attrsize \in Int /\ attrcnt \in 0 .. MaxNames /\ attrerrors \in BOOLEAN
    /\ saveerr \subseteq Paths /\ counted \subseteq Paths /\ resterr \subseteq Paths
    /\ pos \in 1 .. Len(archive) + 1
    /\ races \in 0 .. MaxRaces /\ faults \in 0 .. MaxFaults
    /\ DOMAIN fs.dest \subseteq Paths /\ Range(fs.dest) = DOMAIN fs.ino

Failed == saveerr \cup resterr

\* The attribute has had no other value than the one before the save.
Unchanged(i, n) == seen[i][n] = {job.inodes[i].xattr[n]}

\* The list of the names of its attributes can be had: it fits into the buffer,
\* and other programs add no names to it.
Listable(i) ==
    job.winattr \/ (job.listfits[i] /\ \A n \in Names : n \in OldNames(i) \/ Unchanged(i, n))

\* Path p was counted as restored, nothing failed for another link to its
\* inode, and its attributes did not change while it was saved.
Undisturbed(p) ==
    /\ p \in counted
    /\ \A q \in Failed : Entry(q).ino # Entry(p).ino
    /\ \A n \in Names : Unchanged(Entry(p).ino, n)

\* An object that is counted as restored has the extended attributes it had,
\* with their values, capabilities included, whatever the number of its links
\* and the size of the attributes.
CountedKeepsXattrs ==
    phase = "done" =>
        \A p \in Paths : Undisturbed(p) /\ Listable(Entry(p).ino) =>
            \A n \in Names : Attr(fs, p).xattr[n] = job.inodes[Entry(p).ino].xattr[n]

\* A time after a save and a restoration: the fraction is lost, and a time that
\* a u32 of seconds cannot hold comes back as another one.
Carried(t) == AtSecond(u32(t))

\* An object that is counted as restored has the owner and the mode it had, with
\* the set-user-id bit, and the time unless it is a directory: the whole seconds
\* of it, modulo 2^32.
CountedKeepsStd ==
    phase = "done" =>
        \A p \in Paths : Undisturbed(p) =>
            LET a == job.inodes[Entry(p).ino] b == Attr(fs, p)
            IN /\ a.owner = b.owner /\ a.mode = b.mode
               /\ Entry(p).kind # "DIR" => b.mtime = Carried(a.mtime)

\* What is restored into a directory after the directory itself does not
\* change its times, unless one of these objects fails: they are the times it
\* had, in whole seconds modulo 2^32.
Children(p) == {q \in Paths : Entry(q).parent = p}
TimesKept(p) ==
    Undisturbed(p) /\ Children(p) \cap Failed = {} =>
        Attr(fs, p).mtime = Carried(job.inodes[p].mtime)

DirTimesKept ==
    phase = "done" => \A p \in Paths \ {Root} : Entry(p).kind = "DIR" => TimesKept(p)

\* The root directory of a file system is restored with its times.
RootTimesKept == phase = "done" => TimesKept(Root)

\* Attribute n of inode i could be empty, or for createar_item_xattr() missing, at
\* one moment and have a value at another.
MayOverrun(i, n) ==
    /\ \E w \in seen[i][n] : w.size > 0
    /\ \E w \in seen[i][n] : w.size = 0 \/ (w = None /\ ~job.winattr)

\* Value v of attribute n was read from inode i: one it had, or the contents of
\* the buffer.  The latter takes a value where there was an empty one, or one
\* larger than the buffer can be where there was none.
FromSource(i, n, v) ==
    \/ v \in seen[i][n]
    \/ MayOverrun(i, n) /\ \E w \in seen[i][n] : w.size = 0 \/ w.size > 65535

\* A restored attribute has a value that the object had at some moment of the
\* save, or the exception of FromSource applies.
NoInventedValue ==
    \A p \in counted, n \in Names :
        LET v == Attr(fs, p).xattr[n]
        IN v = None \/ FromSource(Entry(p).ino, n, v)

\* The save does not touch memory beyond its buffer, unless the attribute it reads
\* was set by another program after it had been empty or missing.
OverrunNeedsRace ==
    phase = "undefined" => MayOverrun(job.tree[cur].ino, name)

\* If no error is counted, every object has been restored: no header that was
\* written is passed over, whatever its size.
NothingLeftOut == phase = "done" /\ Failed = {} => counted = Paths

\* Other programs have done nothing but remove attributes, and none is too large.
OnlyRemoved ==
    \A i \in DOMAIN seen, n \in Names : \A v \in seen[i][n] :
        v \in {job.inodes[i].xattr[n], None} /\ v.size <= 65535

\* Attributes that other programs remove during the save are no reason for an
\* object to be left out, or for others of its attributes to be lost.
VanishedIsNoError ==
    OnlyRemoved =>
        /\ phase # "undefined"
        /\ phase = "done" /\ faults = 0 =>
              /\ counted = Paths
              /\ \A p \in Paths, n \in Names :
                    Listable(Entry(p).ino) /\ xattrs[Entry(p).ino][n] # None =>
                        Attr(fs, p).xattr[n] = xattrs[Entry(p).ino][n]

\* An object that is counted as restored has all the attributes it had: the
\* standard ones, which a later call of the restoration may undo, and the
\* extended ones.
CountedKeepsAttributes == CountedKeepsStd /\ CountedKeepsXattrs

\* Other programs may set, change and remove attributes during the save.  What is
\* restored is a value that was there, and what vanishes costs nothing else.
\* The exception is an attribute that gets a value after it was empty or missing:
\* if it is read at the wrong moment its value may be junk, or the program may
\* damage its memory, and then nothing is promised.
RacesAreHarmless == NoInventedValue /\ VanishedIsNoError /\ OverrunNeedsRace

\* Every variable has its type, the sizes of the dictionary in their 16 bits,
\* and every header that was written can be read.
DicoIsReadable == AttributesTypeOK /\ NothingLeftOut
-----------------------------------------------------------------------------
(* The invariant from which these properties follow *)

IsSeq(s) == Len(s) \in Nat /\ s = [i \in 1 .. Len(s) |-> s[i]]

\* What other programs do: an attribute that has its old value never had another.
SourceInv ==
    /\ DOMAIN xattrs = DOMAIN job.inodes /\ DOMAIN seen = DOMAIN job.inodes
    /\ \A i \in DOMAIN job.inodes : DOMAIN xattrs[i] = Names /\ DOMAIN seen[i] = Names
    /\ \A i \in DOMAIN job.inodes, n \in Names :
          /\ xattrs[i][n] \in seen[i][n]
          /\ \A v \in seen[i][n] : v # None => v.size \in Nat
          /\ n \in OldNames(i) /\ xattrs[i][n] = job.inodes[i].xattr[n] => Unchanged(i, n)

\* A dictionary of entry e: the standard attributes, then the name and the value
\* of each extended attribute under the keys k and k + 1.
NameKeys(d) == {k \in 0 .. Len(d) - 5 : k % 2 = 0}

IsDico(d, e) ==
    /\ IsSeq(d) /\ Len(d) >= 4 /\ Len(d) % 2 = 0
    /\ \A k \in 1 .. 4 : d[k].section = "STDATTR"
    /\ d[1].key = "PATH" /\ d[1].data = e.path
    /\ d[2].key = "MODE" /\ d[2].data = job.inodes[e.ino].mode
    /\ d[3].key = "OWNER" /\ d[3].data = job.inodes[e.ino].owner
    /\ d[4].key = "MTIME" /\ d[4].data = u32(job.inodes[e.ino].mtime)
    /\ \A k \in 0 .. Len(d) - 5 : d[k + 5].section = Section /\ d[k + 5].key = k
    /\ \A k \in NameKeys(d) : /\ d[k + 5].data \in Names
                              /\ FromSource(e.ino, d[k + 5].data, d[k + 6].data)
    /\ \A k, l \in NameKeys(d) : d[k + 5].data = d[l + 5].data => k = l

Has(d, n) == \E k \in NameKeys(d) : d[k + 5].data = n

\* The attributes that have not changed are not missing from a dictionary, except
\* for those in `others'.
Complete(d, e, others) ==
    \A n \in Names \ others :
        Listable(e.ino) /\ Unchanged(e.ino, n) /\ n \in OldNames(e.ino) => Has(d, n)

\* The attribute whose value is about to be read is no longer in `names'.
Reading == IF phase = "value" THEN {name} ELSE {}

\* An object whose attributes are being read: nothing is read twice, and what is
\* not yet read or could not be read is all that is missing.
SavingInv(e) ==
    /\ IsDico(dico, e) /\ Len(dico) = 4 + 2 * attrcnt
    /\ attrcnt + Cardinality(names \cup Reading) <= MaxNames
    /\ \A n \in names \cup Reading : ~Has(dico, n)
    /\ OnlyRemoved => ~attrerrors
    /\ ~attrerrors => Complete(dico, e, names \cup Reading)

\* The size that was asked for is one that the attribute had.
SizeInv(e) ==
    /\ name \notin names /\ attrsize <= 65535
    /\ attrsize = -1 => ~job.winattr
    /\ \E v \in seen[e.ino][name] : v.size = attrsize

\* The memory of the program was overwritten.
OverrunInv(e) == MayOverrun(e.ino, name) /\ ~OnlyRemoved

ReadInv ==
    /\ phase \in {"stat", "list", "size", "value", "undefined"} => cur <= Len(job.tree)
    /\ phase = "list" => IsDico(dico, job.tree[cur]) /\ Len(dico) = 4
    /\ phase \in {"size", "value"} => SavingInv(job.tree[cur])
    /\ phase = "value" => SizeInv(job.tree[cur])
    /\ phase = "undefined" => OverrunInv(job.tree[cur])

\* The header of entry e
HeaderOf(h, e) ==
    /\ h.headerlen = Length(h.items) /\ h.count = Len(h.items)
    /\ IsDico(h.items, e) /\ Complete(h.items, e, {})

PathOf(h) == h.items[1].data

\* The archive has the headers of the entries in their order, and those that are
\* missing were counted.
ArchiveInv ==
    /\ IsSeq(archive)
    /\ phase \in {"restore", "done"} => cur = Len(job.tree) + 1
    /\ \A i \in 1 .. Len(archive) : \E k \in 1 .. cur - 1 : HeaderOf(archive[i], job.tree[k])
    /\ \A i, j \in 1 .. Len(archive), k, l \in 1 .. Len(job.tree) :
          i < j /\ PathOf(archive[i]) = job.tree[k].path /\ PathOf(archive[j]) = job.tree[l].path
          => k < l
    /\ \A k \in 1 .. cur - 1 :
          \/ job.tree[k].path \in saveerr
          \/ \E i \in 1 .. Len(archive) : PathOf(archive[i]) = job.tree[k].path
    /\ OnlyRemoved => saveerr = {}

\* The paths and inodes of a destination; an inode has the name of its first path.
IsAttr(a) == DOMAIN a = {"mode", "owner", "mtime", "xattr"} /\ DOMAIN a.xattr = Names

IsFs(f) ==
    /\ Root \in DOMAIN f.dest /\ DOMAIN f.dest \subseteq Paths
    /\ \A p \in DOMAIN f.dest : f.dest[p] = Entry(p).ino /\ f.dest[p] \in DOMAIN f.ino
    /\ \A i \in DOMAIN f.ino : i \in DOMAIN f.dest /\ f.dest[i] = i /\ IsAttr(f.ino[i])

\* An inode nothing of which is counted is as it was created, and one with a path
\* that is counted has its attributes: unless something failed for one of its
\* paths.
Untouched(a) == a.mode = "plain" /\ \A n \in Names : a.xattr[n] = None

Kept(i, a) ==
    /\ a.owner = job.inodes[i].owner /\ a.mode = job.inodes[i].mode
    /\ Entry(i).kind # "DIR" => a.mtime = Carried(job.inodes[i].mtime)
    /\ Listable(i) => \A n \in Names : Unchanged(i, n) => a.xattr[n] = job.inodes[i].xattr[n]

KeptIn(f, done, failed) ==
    \A i \in DOMAIN f.ino :
        /\ \A n \in Names : f.ino[i].xattr[n] = None \/ FromSource(i, n, f.ino[i].xattr[n])
        /\ (\A q \in failed : Entry(q).ino # i) =>
              IF \E q \in done : Entry(q).ino = i THEN Kept(i, f.ino[i]) ELSE Untouched(f.ino[i])

\* A directory that is counted has its time, unless something in it failed.
TimesIn(f, done, failed) ==
    \A p \in done \ (failed \cup {Root}) :
        Entry(p).kind = "DIR" /\ Children(p) \cap failed = {} =>
            f.ino[p].mtime = Carried(job.inodes[p].mtime)

RestInv ==
    /\ IsFs(fs)
    /\ phase \notin {"restore", "done"} => pos = 1 /\ counted = {} /\ resterr = {}
    /\ phase = "done" => pos = Len(archive) + 1
    /\ \A h \in 1 .. pos - 1 : PathOf(archive[h]) \in counted \cup resterr
    /\ counted \subseteq DOMAIN fs.dest
    /\ faults = 0 /\ OnlyRemoved => resterr = {}
    /\ KeptIn(fs, counted, Failed)
    /\ TimesIn(fs, counted, Failed)

AttrInv == AttributesTypeOK /\ SourceInv /\ ReadInv /\ ArchiveInv /\ RestInv
=============================================================================
