-------------------------- MODULE AttributesProofs --------------------------
(***************************************************************************)
(* The attributes of every tree, however large, with any number of changes *)
(* by other programs during the save and of calls that fail during the     *)
(* restoration: what is counted as restored has the attributes it had, its *)
(* times in whole seconds modulo 2^32.  Where another program sets an      *)
(* attribute that was empty or missing, the save may write beyond its      *)
(* buffer, and nothing is proved of a program that has done so.            *)
(* The argument is AttrInv: a header in the archive has every attribute    *)
(* that did not change, an inode of the destination is as it was created   *)
(* or as the headers of all its paths say, and headers come in the order   *)
(* of the tree, so that a directory that is missing when something is      *)
(* restored into it has failed and was counted.                            *)
(***************************************************************************)
EXTENDS Attributes, FiniteSetTheorems, TLAPS

-----------------------------------------------------------------------------
(* Sequences and dictionaries *)

\* A sequence of anything
LEMMA SeqIsSeq ==
    ASSUME NEW S, NEW s \in Seq(S)
    PROVE  IsSeq(s)
BY DEF IsSeq

\* Append to a sequence of anything
LEMMA AppendAny ==
    ASSUME NEW s, IsSeq(s), NEW x
    PROVE  /\ IsSeq(Append(s, x)) /\ Len(Append(s, x)) = Len(s) + 1
           /\ Append(s, x)[Len(s) + 1] = x
           /\ \A i \in 1 .. Len(s) : Append(s, x)[i] = s[i]
<1> DEFINE S == {s[i] : i \in 1 .. Len(s)} \cup {x}
<1>1. s \in Seq(S) BY DEF IsSeq
<1>2. Append(s, x) \in Seq(S) /\ Len(Append(s, x)) = Len(s) + 1 BY <1>1
<1>3. IsSeq(Append(s, x)) BY <1>2, SeqIsSeq
<1>4. Append(s, x)[Len(s) + 1] = x /\ \A i \in 1 .. Len(s) : Append(s, x)[i] = s[i] BY <1>1
<1> QED BY <1>2, <1>3, <1>4

\* SubSeq of all of it
LEMMA SubSeqAll ==
    ASSUME NEW s, IsSeq(s)
    PROVE  SubSeq(s, 1, Len(s)) = s
<1> DEFINE S == {s[i] : i \in 1 .. Len(s)}
<1>1. s \in Seq(S) BY DEF IsSeq
<1>2. SubSeq(s, 1, Len(s)) = [i \in 1 .. Len(s) |-> s[i]] BY <1>1
<1> QED BY <1>2 DEF IsSeq

-----------------------------------------------------------------------------
(* The tree *)

\* The index of an entry
LEMMA EntryFacts ==
    ASSUME JobType(job), NEW k \in 1 .. Len(job.tree)
    PROVE  /\ job.tree[k].path \in Paths /\ Entry(job.tree[k].path) = job.tree[k]
           /\ Root \in Paths /\ Entry(Root) = job.tree[1] /\ 1 \in 1 .. Len(job.tree)
           /\ Len(job.tree) \in Nat
<1>1. Len(job.tree) \in Nat \ {0} BY DEF JobType, TreeType
<1>2. \A i \in 1 .. Len(job.tree) : Entry(job.tree[i].path) = job.tree[i]
   <2> TAKE i \in 1 .. Len(job.tree)
   <2> DEFINE c == CHOOSE l \in 1 .. Len(job.tree) : job.tree[l].path = job.tree[i].path
   <2>1. c \in 1 .. Len(job.tree) /\ job.tree[c].path = job.tree[i].path BY Zenon
   <2>2. c = i BY <2>1 DEF JobType, TreeType
   <2> QED BY <2>2 DEF Entry
<1>3. 1 \in 1 .. Len(job.tree) BY <1>1
<1> QED BY <1>1, <1>2, <1>3 DEF Paths, Root

\* The entry of a path: its place in the tree, its inode and its directory
LEMMA PathFacts ==
    ASSUME JobType(job), NEW p \in Paths
    PROVE  \E k \in 1 .. Len(job.tree) :
              /\ job.tree[k].path = p /\ Entry(p) = job.tree[k]
              /\ Entry(p).path = p
BY EntryFacts DEF Paths

\* The file that a link stands for is in the tree and is itself no link.
LEMMA InodeFacts ==
    ASSUME JobType(job), NEW p \in Paths
    PROVE  /\ Entry(p).ino \in Paths /\ Entry(Entry(p).ino).ino = Entry(p).ino
           /\ Entry(p).ino \in DOMAIN job.inodes
           /\ Entry(p).kind # "HARDLINK" => Entry(p).ino = p
           /\ Entry(p).kind = "DIR" => Entry(p).ino = p
           /\ Entry(p).kind = "HARDLINK" => Entry(Entry(p).ino).kind # "DIR"
<1>1. PICK k \in 1 .. Len(job.tree) : job.tree[k].path = p /\ Entry(p) = job.tree[k] BY PathFacts
<1>2. /\ job.tree[k].kind = "HARDLINK" <=> job.tree[k].ino # job.tree[k].path
      /\ job.tree[k].ino \in DOMAIN job.inodes BY DEF JobType, TreeType
<1>3. PICK l \in 1 .. k : /\ job.tree[l].path = job.tree[k].ino /\ job.tree[l].ino = job.tree[l].path
                          /\ job.tree[k].kind = "HARDLINK" => job.tree[l].kind # "DIR"
   <2>1. TreeType(job.tree) BY DEF JobType
   <2> QED BY <2>1, Zenon DEF TreeType
<1>4. l \in 1 .. Len(job.tree) BY DEF JobType, TreeType
<1>5. Entry(job.tree[l].path) = job.tree[l] /\ job.tree[l].path \in Paths BY <1>4, EntryFacts
<1> QED BY <1>1, <1>2, <1>3, <1>5

\* The directories above an object are directories of the tree.
LEMMA DirFacts ==
    ASSUME JobType(job), NEW p \in Paths
    PROVE  /\ Entry(p).parent \in Paths /\ Entry(Entry(p).parent).kind = "DIR"
           /\ Entry(p).dirs \subseteq Paths
           /\ Entry(p).dirs = Entry(Entry(p).parent).dirs \cup {Entry(p).parent}
           /\ p # Root => Entry(p).parent # p
           /\ \A q \in Entry(p).dirs : Entry(q).kind = "DIR"
<1>0. TreeType(job.tree) /\ Root = job.tree[1].path BY DEF JobType, Root
<1>1. PICK k \in 1 .. Len(job.tree) : job.tree[k].path = p /\ Entry(p) = job.tree[k] BY PathFacts
<1>2. job.tree[k].parent \in job.tree[k].dirs BY <1>0 DEF TreeType
<1>3. \A q \in job.tree[k].dirs :
         /\ q \in Paths /\ Entry(q).kind = "DIR" 
         /\ q = job.tree[k].parent => job.tree[k].dirs = Entry(q).dirs \cup {q} /\ (k # 1 => q # p)
   <2> TAKE q \in job.tree[k].dirs
   <2>1. PICK l \in 1 .. k :
            /\ job.tree[l].path = q /\ job.tree[l].kind = "DIR"
            /\ q = job.tree[k].parent => job.tree[k].dirs = job.tree[l].dirs \cup {q}
            /\ l = k => k = 1
      <3>1. OnTheWay(job.tree, k, q) BY <1>0 DEF TreeType
      <3> QED BY <3>1 DEF OnTheWay
   <2>2. l \in 1 .. Len(job.tree) BY DEF JobType, TreeType
   <2>3. Entry(q) = job.tree[l] /\ q \in Paths BY <2>1, <2>2, EntryFacts
   <2>4. k # 1 => q # p BY <1>0, <1>1, <2>1, <2>2 DEF TreeType
   <2> QED BY <2>1, <2>3, <2>4
<1>4. p # Root => k # 1 BY <1>0, <1>1
<1> QED BY <1>1, <1>2, <1>3, <1>4

\* Directories come before what is in them, and inodes before further links.
LEMMA OrderFacts ==
    ASSUME JobType(job), NEW k \in 1 .. Len(job.tree)
    PROVE  /\ \A q \in job.tree[k].dirs \ {Root} : \E l \in 1 .. k - 1 : job.tree[l].path = q
           /\ job.tree[k].kind = "HARDLINK" => \E l \in 1 .. k - 1 : job.tree[l].path = job.tree[k].ino
<1>0. TreeType(job.tree) /\ Root = job.tree[1].path /\ Len(job.tree) \in Nat BY DEF JobType, TreeType, Root
<1>1. ASSUME NEW q \in job.tree[k].dirs, q # Root PROVE \E l \in 1 .. k - 1 : job.tree[l].path = q
   <2>1. PICK l \in 1 .. k : job.tree[l].path = q /\ (l = k => k = 1)
      <3>1. OnTheWay(job.tree, k, q) BY <1>0 DEF TreeType
      <3> QED BY <3>1 DEF OnTheWay
   <2>2. l # k BY <1>0, <1>1, <2>1
   <2>3. l \in 1 .. k - 1 BY ONLY <2>2, l \in 1 .. k, k \in 1 .. Len(job.tree), <1>0
   <2> QED BY <2>1, <2>3
<1>2. ASSUME job.tree[k].kind = "HARDLINK" PROVE \E l \in 1 .. k - 1 : job.tree[l].path = job.tree[k].ino
   <2>1. PICK l \in 1 .. k : job.tree[l].path = job.tree[k].ino BY <1>0 DEF TreeType
   <2>2. job.tree[k].ino # job.tree[k].path BY <1>0, <1>2 DEF TreeType
   <2>3. l \in 1 .. k - 1 BY ONLY <2>1, <2>2, l \in 1 .. k, k \in 1 .. Len(job.tree), <1>0
   <2> QED BY <2>1, <2>3
<1> QED BY <1>1, <1>2

-----------------------------------------------------------------------------
(* Dictionaries *)

\* Extended attributes are not in the section of the standard ones.
LEMMA SectionFacts ==
    Section # "STDATTR"
BY DEF Section

\* The only item with a key is the one that is found.
LEMMA DicoGet ==
    ASSUME NEW d, NEW section, NEW key, NEW j, Items(d, section, key) = {j}
    PROVE  dico_get_generic(d, section, key) = d[j].data
BY DEF dico_get_generic

\* The standard attributes of a header
LEMMA StdItems ==
    ASSUME NEW d, NEW e, IsDico(d, e)
    PROVE  /\ dico_get_generic(d, "STDATTR", "PATH") = e.path
           /\ dico_get_generic(d, "STDATTR", "MODE") = job.inodes[e.ino].mode
           /\ dico_get_generic(d, "STDATTR", "OWNER") = job.inodes[e.ino].owner
           /\ dico_get_generic(d, "STDATTR", "MTIME") = u32(job.inodes[e.ino].mtime)
<1>1. Len(d) \in Nat /\ Len(d) >= 4 BY DEF IsDico, IsSeq
<1>2. \A i \in 1 .. Len(d) : d[i].section = "STDATTR" => i \in 1 .. 4
   <2> SUFFICES ASSUME NEW i \in 1 .. Len(d), ~(i \in 1 .. 4) PROVE d[i].section # "STDATTR" OBVIOUS
   <2>1. i - 5 \in 0 .. Len(d) - 5 /\ (i - 5) + 5 = i BY <1>1
   <2>2. d[(i - 5) + 5].section = Section BY <2>1 DEF IsDico
   <2> QED BY <2>1, <2>2, SectionFacts
<1>3. \A i \in 1 .. 4 : i \in 1 .. Len(d) /\ d[i].section = "STDATTR" BY <1>1 DEF IsDico
<1>4. d[1].key = "PATH" /\ d[2].key = "MODE" /\ d[3].key = "OWNER" /\ d[4].key = "MTIME" BY DEF IsDico
<1>5. 1 .. 4 = {1, 2, 3, 4} OBVIOUS
<1>6. Items(d, "STDATTR", "PATH") = {1} BY <1>2, <1>3, <1>4, <1>5 DEF Items
<1>7. Items(d, "STDATTR", "MODE") = {2} BY <1>2, <1>3, <1>4, <1>5 DEF Items
<1>8. Items(d, "STDATTR", "OWNER") = {3} BY <1>2, <1>3, <1>4, <1>5 DEF Items
<1>9. Items(d, "STDATTR", "MTIME") = {4} BY <1>2, <1>3, <1>4, <1>5 DEF Items
<1> QED BY <1>6, <1>7, <1>8, <1>9, DicoGet DEF IsDico

\* The extended attributes of a header: none of them is incomplete.
LEMMA XattrItems ==
    ASSUME NEW d, NEW e, IsDico(d, e)
    PROVE  /\ Pairs(d) = NameKeys(d) /\ Stored(d) = NameKeys(d)
           /\ \A k \in NameKeys(d) : /\ dico_get_generic(d, Section, k) = d[k + 5].data
                                     /\ dico_get_generic(d, Section, k + 1) = d[k + 6].data
<1>1. Len(d) \in Nat /\ Len(d) >= 4 /\ Len(d) % 2 = 0 BY DEF IsDico, IsSeq
<1>2. \A i \in 1 .. Len(d) : d[i].section = Section <=> i \in 5 .. Len(d)
   <2> TAKE i \in 1 .. Len(d)
   <2>1. CASE i \in 1 .. 4 BY <2>1, SectionFacts DEF IsDico
   <2>2. CASE ~(i \in 1 .. 4)
      <3>1. i - 5 \in 0 .. Len(d) - 5 /\ (i - 5) + 5 = i /\ i \in 5 .. Len(d) BY <1>1, <2>2
      <3> QED BY <3>1 DEF IsDico
   <2> QED BY <2>1, <2>2
<1>3. {i \in 1 .. Len(d) : d[i].section = Section} = 5 .. Len(d) BY <1>1, <1>2
<1>4. Cardinality(5 .. Len(d)) = Len(d) - 4
   <2>1. 5 \in Int /\ Len(d) \in Int BY <1>1
   <2>2. Cardinality(5 .. Len(d)) = IF 5 > Len(d) THEN 0 ELSE Len(d) - 5 + 1 BY <2>1, FS_Interval, Zenon
   <2> QED BY <1>1, <2>2
<1>5. dico_count_one_section(d, Section) = Len(d) - 4 BY <1>3, <1>4 DEF dico_count_one_section
<1>6. Pairs(d) = NameKeys(d)
   <2>1. 0 .. (Len(d) - 4) - 1 = 0 .. Len(d) - 5 BY <1>1
   <2> QED BY <1>5, <2>1 DEF Pairs, NameKeys
<1>7. \A k \in 0 .. Len(d) - 5 : Items(d, Section, k) = {k + 5}
   <2> TAKE k \in 0 .. Len(d) - 5
   <2>1. k + 5 \in 1 .. Len(d) BY <1>1
   <2>2. d[k + 5].section = Section /\ d[k + 5].key = k BY DEF IsDico
   <2>3. ASSUME NEW i \in 1 .. Len(d), d[i].section = Section, d[i].key = k PROVE i = k + 5
      <3>1. i \in 5 .. Len(d) BY <1>2, <2>3
      <3>2. PICK l \in 0 .. Len(d) - 5 : l + 5 = i
         <4>1. i - 5 \in 0 .. Len(d) - 5 /\ (i - 5) + 5 = i BY <1>1, <3>1
         <4> QED BY <4>1
      <3>3. d[l + 5].key = l BY DEF IsDico
      <3> QED BY <2>3, <3>2, <3>3
   <2> QED BY <2>1, <2>2, <2>3 DEF Items
<1>8. \A k \in NameKeys(d) : k \in 0 .. Len(d) - 5 /\ k + 1 \in 0 .. Len(d) - 5 /\ (k + 1) + 5 = k + 6
   BY <1>1 DEF NameKeys
<1>9. Stored(d) = NameKeys(d) BY <1>6, <1>7, <1>8 DEF Stored
<1>10. \A k \in NameKeys(d) : /\ dico_get_generic(d, Section, k) = d[k + 5].data
                              /\ dico_get_generic(d, Section, k + 1) = d[k + 6].data
   <2> TAKE k \in NameKeys(d)
   <2>1. Items(d, Section, k) = {k + 5} /\ Items(d, Section, k + 1) = {k + 6} BY <1>7, <1>8
   <2> QED BY <2>1, DicoGet
<1> QED BY <1>6, <1>9, <1>10


IsU16(n) == n \in Nat /\ n <= 65535
Sizes(d) == \A i \in 1 .. Len(d) : IsU16(d[i].size)
Lacks(d, section, key) == \A i \in 1 .. Len(d) : d[i].section # section \/ d[i].key # key

\* r is d with one more item.
Extends(r, d, section, key, data) ==
    /\ IsSeq(r) /\ Len(r) = Len(d) + 1 /\ Sizes(r)
    /\ \A i \in 1 .. Len(d) : r[i] = d[i]
    /\ r[Len(d) + 1].section = section /\ r[Len(d) + 1].key = key
    /\ r[Len(d) + 1].data = data

\* A new item, if there is none with its section and key
LEMMA DicoAdd ==
    ASSUME NEW d, IsSeq(d), NEW section, NEW key, NEW size \in Int, NEW data,
           Lacks(d, section, key), Sizes(d)
    PROVE  Extends(dico_add_generic(d, section, key, size, data), d, section, key, data)
<1>1. PICK x : x = [section |-> section, key |-> key, size |-> U16(size), data |-> data] OBVIOUS
<1>2. x.section = section /\ x.key = key /\ x.data = data /\ IsU16(x.size) BY <1>1 DEF U16, IsU16
<1>3. dico_add_generic(d, section, key, size, data) = Append(d, x) BY <1>1, Zenon DEF dico_add_generic, Lacks
<1>4. Len(d) \in Nat BY DEF IsSeq
<1>5. PICK r : r = Append(d, x) OBVIOUS
<1>6. IsSeq(r) /\ Len(r) = Len(d) + 1 /\ r[Len(d) + 1] = x /\ \A i \in 1 .. Len(d) : r[i] = d[i]
   BY <1>5, AppendAny
<1>7. Sizes(r)
   <2> SUFFICES ASSUME NEW i \in 1 .. Len(r) PROVE IsU16(r[i].size) BY DEF Sizes
   <2>1. i \in 1 .. Len(d) \/ i = Len(d) + 1 BY ONLY i \in 1 .. Len(r), <1>4, <1>6
   <2> QED BY <1>2, <1>6, <2>1 DEF Sizes
<1>8. Extends(r, d, section, key, data) BY <1>2, <1>6, <1>7 DEF Extends
<1> QED BY <1>3, <1>5, <1>8

\* The standard attributes of an entry
LEMMA NewDico ==
    ASSUME NEW e
    PROVE  /\ IsDico(createar_item_stdattr(e), e) /\ Len(createar_item_stdattr(e)) = 4
           /\ Sizes(createar_item_stdattr(e))
<1>1. PICK d0 : d0 = dico_add_generic(<<>>, "STDATTR", "PATH", 8, e.path) OBVIOUS
<1>2. PICK d1 : d1 = dico_add_generic(d0, "STDATTR", "MODE", 4, job.inodes[e.ino].mode) OBVIOUS
<1>3. PICK d2 : d2 = dico_add_generic(d1, "STDATTR", "OWNER", 4, job.inodes[e.ino].owner) OBVIOUS
<1>4. PICK d3 : d3 = dico_add_generic(d2, "STDATTR", "MTIME", 8, u32(job.inodes[e.ino].mtime)) OBVIOUS
<1>5. createar_item_stdattr(e) = d3 BY <1>1, <1>2, <1>3, <1>4 DEF createar_item_stdattr
<1>6. IsSeq(<<>>) /\ Len(<<>>) = 0 /\ Sizes(<<>>) BY DEF IsSeq, Sizes
<1>7. /\ IsSeq(d0) /\ Len(d0) = 1 /\ Sizes(d0)
      /\ d0[1].section = "STDATTR" /\ d0[1].key = "PATH" /\ d0[1].data = e.path
   <2>2. Lacks(<<>>, "STDATTR", "PATH") BY <1>6 DEF Lacks
   <2>3. 8 \in Int OBVIOUS
   <2>4. Extends(d0, <<>>, "STDATTR", "PATH", e.path) BY <1>1, <1>6, <2>2, <2>3, DicoAdd, Zenon
   <2> QED BY <2>4, <1>6 DEF Extends
<1>8. /\ IsSeq(d1) /\ Len(d1) = 2 /\ Sizes(d1) /\ d1[1] = d0[1]
      /\ d1[2].section = "STDATTR" /\ d1[2].key = "MODE" /\ d1[2].data = job.inodes[e.ino].mode
   <2>1. \A i \in 1 .. Len(d0) : i = 1 BY <1>6, <1>7
   <2>2. Lacks(d0, "STDATTR", "MODE") BY <1>6, <1>7, <2>1 DEF Lacks
   <2>3. 4 \in Int OBVIOUS
   <2>4. Extends(d1, d0, "STDATTR", "MODE", job.inodes[e.ino].mode) BY <1>2, <1>7, <2>2, <2>3, DicoAdd, Zenon
   <2> QED BY <2>4, <1>7 DEF Extends
<1>9. /\ IsSeq(d2) /\ Len(d2) = 3 /\ Sizes(d2) /\ d2[1] = d1[1] /\ d2[2] = d1[2]
      /\ d2[3].section = "STDATTR" /\ d2[3].key = "OWNER" /\ d2[3].data = job.inodes[e.ino].owner
   <2>1. \A i \in 1 .. Len(d1) : i = 1 \/ i = 2 BY <1>6, <1>7, <1>8
   <2>2. Lacks(d1, "STDATTR", "OWNER") BY <1>6, <1>7, <1>8, <2>1 DEF Lacks
   <2>3. 4 \in Int OBVIOUS
   <2>4. Extends(d2, d1, "STDATTR", "OWNER", job.inodes[e.ino].owner) BY <1>3, <1>8, <2>2, <2>3, DicoAdd, Zenon
   <2> QED BY <2>4, <1>8 DEF Extends
<1>10. /\ IsSeq(d3) /\ Len(d3) = 4 /\ Sizes(d3) /\ d3[1] = d2[1] /\ d3[2] = d2[2] /\ d3[3] = d2[3]
       /\ d3[4].section = "STDATTR" /\ d3[4].key = "MTIME" /\ d3[4].data = u32(job.inodes[e.ino].mtime)
   <2>1. \A i \in 1 .. Len(d2) : i = 1 \/ i = 2 \/ i = 3 BY <1>6, <1>7, <1>8, <1>9
   <2>2. Lacks(d2, "STDATTR", "MTIME") BY <1>6, <1>7, <1>8, <1>9, <2>1 DEF Lacks
   <2>3. 8 \in Int OBVIOUS
   <2>4. Extends(d3, d2, "STDATTR", "MTIME", u32(job.inodes[e.ino].mtime)) BY <1>4, <1>9, <2>2, <2>3, DicoAdd, Zenon
   <2> QED BY <2>4, <1>9 DEF Extends
<1>11. NameKeys(d3) = {} /\ 0 .. Len(d3) - 5 = {} BY <1>10 DEF NameKeys
<1>12. \A i \in 1 .. 4 : i = 1 \/ i = 2 \/ i = 3 \/ i = 4 OBVIOUS
<1>13. \A k \in 1 .. 4 : d3[k].section = "STDATTR" BY <1>7, <1>8, <1>9, <1>10, <1>12
<1>14. IsDico(d3, e) BY <1>7, <1>8, <1>9, <1>10, <1>11, <1>13 DEF IsDico
<1> QED BY <1>5, <1>10, <1>14


\* No item has a key beyond the last one.
LEMMA NewKey ==
    ASSUME NEW d, NEW key \in Nat, Len(d) \in Nat, Len(d) <= key + 4,
           \A i \in 1 .. Len(d) : i \in 1 .. 4 => d[i].section # Section,
           \A i \in 1 .. Len(d) : ~(i \in 1 .. 4) => d[i].key = i - 5
    PROVE  Lacks(d, Section, key)
<1> SUFFICES ASSUME NEW i \in 1 .. Len(d), d[i].section = Section, d[i].key = key PROVE FALSE BY DEF Lacks
<1>1. ~(i \in 1 .. 4) OBVIOUS
<1>2. key = i - 5 BY <1>1
<1> QED BY ONLY <1>2, i \in 1 .. Len(d), Len(d) \in Nat, Len(d) <= key + 4, key \in Nat

\* One more attribute in a dictionary
LEMMA AddAttrFacts ==
    ASSUME NEW d, NEW e, IsDico(d, e), Sizes(d), attrcnt \in Nat, Len(d) = 4 + 2 * attrcnt,
           NEW n \in Names, ~Has(d, n), NEW v, v.size \in Int, FromSource(e.ino, n, v)
    PROVE  /\ IsDico(AddAttr(d, n, v), e) /\ Sizes(AddAttr(d, n, v))
           /\ Len(AddAttr(d, n, v)) = 4 + 2 * (attrcnt + 1)
           /\ \A m : Has(AddAttr(d, n, v), m) <=> Has(d, m) \/ m = n
<1>1. PICK d1 : d1 = dico_add_generic(d, Section, 2 * attrcnt, 12, n) OBVIOUS
<1>2. PICK d2 : d2 = dico_add_generic(d1, Section, 2 * attrcnt + 1, v.size, v) OBVIOUS
<1>3. AddAttr(d, n, v) = d2 BY <1>1, <1>2 DEF AddAttr
<1>4. PICK L : L = Len(d) OBVIOUS
<1>5. L \in Nat /\ L = 4 + 2 * attrcnt /\ IsSeq(d) BY <1>4 DEF IsDico, IsSeq
<1>6. \A i \in 1 .. 4 : d[i].section # Section BY SectionFacts DEF IsDico
<1>7. \A i \in 1 .. Len(d) : ~(i \in 1 .. 4) => d[i].key = i - 5 /\ d[i].section = Section
   <2> TAKE i \in 1 .. Len(d)
   <2> HAVE ~(i \in 1 .. 4)
   <2>1. i - 5 \in 0 .. Len(d) - 5 /\ (i - 5) + 5 = i BY <1>4, <1>5
   <2>2. PICK k \in 0 .. Len(d) - 5 : k = i - 5 /\ k + 5 = i BY <2>1
   <2>3. d[k + 5].section = Section /\ d[k + 5].key = k BY DEF IsDico
   <2> QED BY <2>2, <2>3
<1>8. Extends(d1, d, Section, 2 * attrcnt, n)
   <2>1. 2 * attrcnt \in Nat /\ Len(d) \in Nat /\ Len(d) <= 2 * attrcnt + 4 /\ 12 \in Int BY <1>4, <1>5
   <2>2. Lacks(d, Section, 2 * attrcnt) BY <1>6, <1>7, <2>1, NewKey
   <2> QED BY <1>1, <1>5, <2>1, <2>2, DicoAdd, Zenon
<1>9. /\ IsSeq(d1) /\ Len(d1) = L + 1 /\ Sizes(d1) /\ \A i \in 1 .. L : d1[i] = d[i]
      /\ d1[L + 1].section = Section /\ d1[L + 1].key = 2 * attrcnt /\ d1[L + 1].data = n
   BY <1>4, <1>8 DEF Extends
<1>10. Extends(d2, d1, Section, 2 * attrcnt + 1, v)
   <2>1. /\ 2 * attrcnt + 1 \in Nat /\ Len(d1) \in Nat /\ Len(d1) <= (2 * attrcnt + 1) + 4
         /\ L + 1 - 5 = 2 * attrcnt
      BY <1>5, <1>9
   <2>2. \A i \in 1 .. Len(d1) : i \in 1 .. L \/ i = L + 1 BY ONLY <1>5, <1>9
   <2>3. \A i \in 1 .. 4 : i \in 1 .. L BY ONLY <1>5, attrcnt \in Nat
   <2>4. \A i \in 1 .. Len(d1) : i \in 1 .. 4 => d1[i].section # Section BY <1>6, <1>9, <2>3
   <2>5. \A i \in 1 .. Len(d1) : ~(i \in 1 .. 4) => d1[i].key = i - 5 BY <1>4, <1>7, <1>9, <2>1, <2>2
   <2>6. Lacks(d1, Section, 2 * attrcnt + 1) BY <2>1, <2>4, <2>5, NewKey
   <2> QED BY <1>2, <1>9, <2>6, DicoAdd, Zenon
<1>11. /\ IsSeq(d2) /\ Len(d2) = L + 2 /\ Sizes(d2) /\ \A i \in 1 .. L + 1 : d2[i] = d1[i]
       /\ d2[L + 2].section = Section /\ d2[L + 2].key = 2 * attrcnt + 1 /\ d2[L + 2].data = v
   <2>1. Len(d1) + 1 = L + 2 BY <1>5, <1>9
   <2> QED BY <1>9, <1>10, <2>1 DEF Extends
<1>12. PICK k0 : k0 = 2 * attrcnt OBVIOUS
<1>13. k0 \in Nat /\ k0 + 5 = L + 1 /\ k0 + 6 = L + 2 /\ k0 % 2 = 0 /\ L % 2 = 0 /\ (L + 2) % 2 = 0
   BY <1>5, <1>12
<1>14. /\ \A i \in 1 .. L : d2[i] = d[i]
       /\ d2[k0 + 5].data = n /\ d2[k0 + 5].section = Section /\ d2[k0 + 5].key = k0
       /\ d2[k0 + 6].data = v /\ d2[k0 + 6].section = Section /\ d2[k0 + 6].key = k0 + 1
   <2>1. L + 1 \in 1 .. L + 1 /\ \A i \in 1 .. L : i \in 1 .. L + 1 BY <1>5
   <2>2. d2[L + 1] = d1[L + 1] BY <1>11, <2>1
   <2> QED BY <1>9, <1>11, <1>12, <1>13, <2>1, <2>2
<1>15. \A k : k \in NameKeys(d2) <=> k \in NameKeys(d) \/ k = k0
   <2>1. 0 .. Len(d2) - 5 = 0 .. L - 3 /\ 0 .. Len(d) - 5 = 0 .. L - 5 BY <1>4, <1>5, <1>11
   <2>2. \A k : k \in 0 .. L - 3 /\ k % 2 = 0 <=> (k \in 0 .. L - 5 /\ k % 2 = 0) \/ k = k0
      BY ONLY <1>13, <1>5
   <2> QED BY <2>1, <2>2 DEF NameKeys
<1>16. \A k \in NameKeys(d) : /\ d2[k + 5] = d[k + 5] /\ d2[k + 6] = d[k + 6] /\ k # k0
   <2> TAKE k \in NameKeys(d)
   <2>1. k \in 0 .. L - 5 /\ k % 2 = 0 BY <1>4 DEF NameKeys
   <2>2. k + 5 \in 1 .. L /\ k + 6 \in 1 .. L /\ k # k0 BY ONLY <2>1, <1>13, <1>5
   <2> QED BY <1>14, <2>2
<1>17. \A k \in 0 .. Len(d2) - 5 : d2[k + 5].section = Section /\ d2[k + 5].key = k
   <2> TAKE k \in 0 .. Len(d2) - 5
   <2>1. k \in 0 .. L - 5 \/ k = k0 \/ k = k0 + 1 BY <1>5, <1>11, <1>13
   <2>2. CASE k \in 0 .. L - 5
      <3>1. k + 5 \in 1 .. L BY <2>2, <1>5
      <3>2. d[k + 5].section = Section /\ d[k + 5].key = k BY <2>2, <1>4 DEF IsDico
      <3> QED BY <1>14, <3>1, <3>2
   <2>3. CASE k = k0 \/ k = k0 + 1
      <3>1. (k0 + 1) + 5 = k0 + 6 BY <1>13
      <3> QED BY <1>14, <2>3, <3>1
   <2> QED BY <2>1, <2>2, <2>3
<1>18. \A k \in NameKeys(d2) : /\ d2[k + 5].data \in Names
                               /\ FromSource(e.ino, d2[k + 5].data, d2[k + 6].data)
   <2> TAKE k \in NameKeys(d2)
   <2>1. CASE k = k0 BY <2>1, <1>14
   <2>2. CASE k \in NameKeys(d)
      <3>1. d[k + 5].data \in Names /\ FromSource(e.ino, d[k + 5].data, d[k + 6].data) BY <2>2 DEF IsDico
      <3> QED BY <2>2, <3>1, <1>16
   <2> QED BY <1>15, <2>1, <2>2
<1>19. \A k, l \in NameKeys(d2) : d2[k + 5].data = d2[l + 5].data => k = l
   <2>1. \A k, l \in NameKeys(d) : d[k + 5].data = d[l + 5].data => k = l BY DEF IsDico
   <2>2. \A k \in NameKeys(d) : d[k + 5].data # n BY DEF Has
   <2> QED BY <1>14, <1>15, <1>16, <2>1, <2>2
<1>20. \A k \in 1 .. 4 : d2[k] = d[k] BY <1>5, <1>14
<1>21. IsDico(d2, e)
   <2>1. /\ \A k \in 1 .. 4 : d2[k].section = "STDATTR"
         /\ d2[1].key = "PATH" /\ d2[1].data = e.path
         /\ d2[2].key = "MODE" /\ d2[2].data = job.inodes[e.ino].mode
         /\ d2[3].key = "OWNER" /\ d2[3].data = job.inodes[e.ino].owner
         /\ d2[4].key = "MTIME" /\ d2[4].data = u32(job.inodes[e.ino].mtime)
      BY <1>20 DEF IsDico
   <2>2. IsSeq(d2) /\ Len(d2) >= 4 /\ Len(d2) % 2 = 0 BY <1>5, <1>11, <1>13
   <2> QED BY <1>17, <1>18, <1>19, <2>1, <2>2 DEF IsDico
<1>22. \A m : Has(d2, m) <=> Has(d, m) \/ m = n BY <1>14, <1>15, <1>16 DEF Has
<1>23. Len(d2) = 4 + 2 * (attrcnt + 1) BY <1>5, <1>11
<1> QED BY <1>3, <1>11, <1>21, <1>22, <1>23


-----------------------------------------------------------------------------
(* The attributes that are set *)

\* What restore_attr_everything() does to owner, mode and times
LEMMA StdFacts ==
    ASSUME NEW a, IsAttr(a), NEW kind, NEW d, NEW e, IsDico(d, e),
           NEW r, r = restore_attr_std(a, kind, d)
    PROVE  /\ IsAttr(r)
           /\ r.owner = job.inodes[e.ino].owner /\ r.mtime = Carried(job.inodes[e.ino].mtime)
           /\ r.mode = IF kind = "SYMLINK" THEN a.mode ELSE job.inodes[e.ino].mode
           /\ \A n \in Names : r.xattr[n] \in {a.xattr[n], None}
<1>1. PICK own, mode, mtime : /\ own = dico_get_generic(d, "STDATTR", "OWNER")
                              /\ mode = dico_get_generic(d, "STDATTR", "MODE")
                              /\ mtime = dico_get_generic(d, "STDATTR", "MTIME")
   OBVIOUS
<1>2. /\ own = job.inodes[e.ino].owner /\ mode = job.inodes[e.ino].mode
      /\ mtime = u32(job.inodes[e.ino].mtime)
   BY <1>1, StdItems
<1>3. PICK a1 : a1 = Chown(a, kind, own) OBVIOUS
<1>4. /\ IsAttr(a1) /\ a1.owner = own
      /\ \A n \in Names : a1.xattr[n] \in {a.xattr[n], None}
      /\ kind = "SYMLINK" => a1.mode = a.mode
   <2>1. CASE kind \in {"FILE", "HARDLINK"}
      <3>1. PICK x : x = [a.xattr EXCEPT !["capability"] = None] OBVIOUS
      <3>2. DOMAIN x = Names /\ \A n \in Names : x[n] \in {a.xattr[n], None} BY <3>1 DEF IsAttr
      <3>3. a1 = [a EXCEPT !.owner = own, !.mode = "plain", !.xattr = x] BY <1>3, <2>1, <3>1 DEF Chown, IsAttr
      <3>4. DOMAIN a1 = DOMAIN a /\ a1.owner = own /\ a1.xattr = x BY <3>3 DEF IsAttr
      <3> QED BY <2>1, <3>2, <3>4 DEF IsAttr
   <2>2. CASE ~(kind \in {"FILE", "HARDLINK"})
      <3>1. a1 = [a EXCEPT !.owner = own] BY <1>3, <2>2 DEF Chown
      <3> QED BY <3>1 DEF IsAttr
   <2> QED BY <2>1, <2>2
<1>5. PICK a2 : a2 = IF kind = "SYMLINK" THEN a1 ELSE [a1 EXCEPT !.mode = mode] OBVIOUS
<1>6. /\ IsAttr(a2) /\ a2.owner = own /\ a2.xattr = a1.xattr
      /\ a2.mode = IF kind = "SYMLINK" THEN a.mode ELSE mode
   BY <1>4, <1>5 DEF IsAttr
<1>7. r = [a2 EXCEPT !.mtime = AtSecond(mtime)] BY <1>1, <1>3, <1>5 DEF restore_attr_std
<1>8. IsAttr(r) /\ r.owner = own /\ r.mtime = AtSecond(mtime) /\ r.mode = a2.mode /\ r.xattr = a2.xattr
   BY <1>6, <1>7 DEF IsAttr
<1> QED BY <1>2, <1>4, <1>6, <1>8 DEF Carried

\* What restore_attr_xattr() does to the attributes of an inode
LEMMA XattrFacts ==
    ASSUME NEW a, IsAttr(a), NEW d, NEW e, IsDico(d, e), NEW refused,
           NEW r, r = restore_attr_xattr(a, d, refused)
    PROVE  /\ IsAttr(r) /\ r.owner = a.owner /\ r.mtime = a.mtime /\ r.mode = a.mode
           /\ \A n \in Names : \/ r.xattr[n] = a.xattr[n] /\ (refused = {} => ~Has(d, n))
                               \/ \E k \in NameKeys(d) : d[k + 5].data = n /\ r.xattr[n] = d[k + 6].data
<1> DEFINE mine(n) == {i \in Stored(d) \ refused : dico_get_generic(d, Section, i) = n}
           X == [n \in Names |-> IF mine(n) = {} THEN a.xattr[n]
                                 ELSE dico_get_generic(d, Section, (CHOOSE i \in mine(n) : TRUE) + 1)]
<1>1. r = [a EXCEPT !.xattr = X] BY DEF restore_attr_xattr
<1>2. DOMAIN X = Names OBVIOUS
<1>3. PICK x : x = X OBVIOUS
<1>4. r.xattr = x /\ IsAttr(r) /\ r.owner = a.owner /\ r.mtime = a.mtime /\ r.mode = a.mode
   <2>1. DOMAIN x = Names /\ r = [a EXCEPT !.xattr = x] BY <1>1, <1>2, <1>3
   <2> QED BY <2>1 DEF IsAttr
<1>5. ASSUME NEW n \in Names
      PROVE \/ x[n] = a.xattr[n] /\ (refused = {} => ~Has(d, n))
            \/ \E k \in NameKeys(d) : d[k + 5].data = n /\ x[n] = d[k + 6].data
   <2>1. CASE mine(n) = {}
      <3>1. x[n] = a.xattr[n] BY <1>3, <2>1
      <3>2. refused = {} => ~Has(d, n)
         <4> SUFFICES ASSUME refused = {}, NEW k \in NameKeys(d), d[k + 5].data = n PROVE FALSE BY DEF Has
         <4>1. k \in mine(n) BY XattrItems
         <4> QED BY <4>1, <2>1
      <3> QED BY <3>1, <3>2
   <2>2. CASE mine(n) # {}
      <3>1. PICK k : k = CHOOSE i \in mine(n) : TRUE OBVIOUS
      <3>2. k \in mine(n) BY <2>2, <3>1
      <3>3. x[n] = dico_get_generic(d, Section, k + 1) BY <1>3, <2>2, <3>1
      <3>4. k \in NameKeys(d) /\ dico_get_generic(d, Section, k) = n BY <3>2, XattrItems
      <3> QED BY <3>3, <3>4, XattrItems
   <2> QED BY <2>1, <2>2
<1> QED BY <1>4, <1>5

\* extractar_restore_attr_everything()
\* Attributes r are attributes a after all those of dictionary d were applied.
Applied(r, a, kind, d, e) ==
    /\ r.owner = job.inodes[e.ino].owner /\ r.mtime = Carried(job.inodes[e.ino].mtime)
    /\ r.mode = IF kind = "SYMLINK" THEN a.mode ELSE job.inodes[e.ino].mode
    /\ \A n \in Names : \/ r.xattr[n] \in {a.xattr[n], None} /\ ~Has(d, n)
                        \/ FromSource(e.ino, n, r.xattr[n])

\* What is applied comes from the dictionary, and nothing is left out unless a
\* call fails.
LEMMA EverythingFacts ==
    ASSUME NEW a, IsAttr(a), NEW kind, NEW d, NEW e, IsDico(d, e), NEW nochown, NEW refused,
           NEW r, r = restore_attr_everything(a, kind, d, nochown, refused)
    PROVE  /\ IsAttr(r)
           /\ \A n \in Names : r.xattr[n] \in {a.xattr[n], None} \/ FromSource(e.ino, n, r.xattr[n])
           /\ ~nochown /\ refused = {} => Applied(r, a, kind, d, e)
<1>1. PICK a1 : a1 = IF nochown THEN a ELSE restore_attr_std(a, kind, d) OBVIOUS
<1>2. r = restore_attr_xattr(a1, d, refused) BY <1>1 DEF restore_attr_everything
<1>3. /\ IsAttr(a1) /\ \A n \in Names : a1.xattr[n] \in {a.xattr[n], None}
      /\ ~nochown => /\ a1.owner = job.inodes[e.ino].owner /\ a1.mtime = Carried(job.inodes[e.ino].mtime)
                     /\ a1.mode = IF kind = "SYMLINK" THEN a.mode ELSE job.inodes[e.ino].mode
   <2>1. CASE nochown BY <1>1, <2>1
   <2>2. CASE ~nochown
      <3>1. a1 = restore_attr_std(a, kind, d) BY <1>1, <2>2
      <3> QED BY <3>1, <2>2, StdFacts
   <2> QED BY <2>1, <2>2
<1>4. /\ IsAttr(r) /\ r.owner = a1.owner /\ r.mtime = a1.mtime /\ r.mode = a1.mode
      /\ \A n \in Names : \/ r.xattr[n] = a1.xattr[n] /\ (refused = {} => ~Has(d, n))
                          \/ \E k \in NameKeys(d) : d[k + 5].data = n /\ r.xattr[n] = d[k + 6].data
   BY <1>2, <1>3, XattrFacts
<1>5. \A k \in NameKeys(d) : FromSource(e.ino, d[k + 5].data, d[k + 6].data) BY DEF IsDico
<1>6. ~nochown /\ refused = {} => Applied(r, a, kind, d, e)
  BY <1>3, <1>4, <1>5 DEF Applied
<1>7. \A n \in Names : r.xattr[n] \in {a.xattr[n], None} \/ FromSource(e.ino, n, r.xattr[n])
  BY <1>3, <1>4, <1>5
<1> QED BY <1>4, <1>6, <1>7


-----------------------------------------------------------------------------
(* The destination *)

\* The attributes of an inode but for its time
Alike(a, b) == a.mode = b.mode /\ a.owner = b.owner /\ a.xattr = b.xattr

\* What creating objects does to those that are there: only the directories of
\* the new paths get a new time.
Grows(f, g, new) ==
    /\ IsFs(g)
    /\ DOMAIN g.dest = DOMAIN f.dest \cup new
    /\ \A i \in DOMAIN f.ino :
          /\ i \in DOMAIN g.ino /\ Alike(g.ino[i], f.ino[i])
          /\ (\A p \in new : Entry(p).parent # i) => g.ino[i].mtime = f.ino[i].mtime
          /\ Entry(i).kind # "DIR" => g.ino[i].mtime = f.ino[i].mtime
    /\ \A i \in DOMAIN g.ino \ DOMAIN f.ino : g.ino[i] = Fresh

\* A new inode has attributes, and none that was restored.
LEMMA FreshFacts ==
    IsAttr(Fresh) /\ Untouched(Fresh)
BY DEF IsAttr, Untouched, Fresh

\* What the creation of an object does to the destination
LEMMA CreateFacts ==
    ASSUME JobType(job), NEW f, IsFs(f), NEW new, DOMAIN new \subseteq Paths,
           \A p \in DOMAIN new : /\ new[p] = Entry(p).ino
                                 /\ new[p] \in DOMAIN f.dest \cup DOMAIN new
    PROVE  Grows(f, Create(f, new), DOMAIN new)
<1>1. PICK made, dirs, g : /\ made = Range(new) \ DOMAIN f.ino
                           /\ dirs = {extract_dirpath(p) : p \in DOMAIN new}
                           /\ g = Create(f, new)
   OBVIOUS
<1>2. g = [dest |-> [p \in DOMAIN f.dest \cup DOMAIN new |->
                        IF p \in DOMAIN new THEN new[p] ELSE f.dest[p]],
           ino |-> [i \in DOMAIN f.ino \cup made |->
                       IF i \in made THEN Fresh
                       ELSE IF i \in dirs THEN [f.ino[i] EXCEPT !.mtime = Now]
                       ELSE f.ino[i]]]
   BY <1>1 DEF Create
<1>3. DOMAIN g.dest = DOMAIN f.dest \cup DOMAIN new /\ DOMAIN g.ino = DOMAIN f.ino \cup made BY <1>2
<1>4. \A p \in DOMAIN g.dest : g.dest[p] = IF p \in DOMAIN new THEN new[p] ELSE f.dest[p] BY <1>2, <1>3
<1>5. \A i \in DOMAIN g.ino : g.ino[i] = IF i \in made THEN Fresh
                                         ELSE IF i \in dirs THEN [f.ino[i] EXCEPT !.mtime = Now]
                                         ELSE f.ino[i]
   BY <1>2, <1>3
<1>6. /\ Root \in DOMAIN f.dest /\ DOMAIN f.dest \subseteq Paths
      /\ \A p \in DOMAIN f.dest : f.dest[p] = Entry(p).ino /\ f.dest[p] \in DOMAIN f.ino
      /\ \A i \in DOMAIN f.ino : i \in DOMAIN f.dest /\ f.dest[i] = i /\ IsAttr(f.ino[i])
   BY DEF IsFs
<1>7. \A p \in DOMAIN new : new[p] \in DOMAIN f.ino \cup made BY <1>1 DEF Range
<1>8. \A p \in DOMAIN g.dest : g.dest[p] = Entry(p).ino /\ g.dest[p] \in DOMAIN g.ino
   BY <1>3, <1>4, <1>6, <1>7
<1>9. ASSUME NEW i \in made PROVE i \in DOMAIN g.dest /\ g.dest[i] = i
   <2>1. PICK p \in DOMAIN new : new[p] = i BY <1>1 DEF Range
   <2>2. i = Entry(p).ino /\ i \in DOMAIN g.dest BY <2>1, <1>3
   <2>3. Entry(i).ino = i BY <2>2, InodeFacts
   <2> QED BY <2>2, <2>3, <1>8
<1>10. ASSUME NEW i \in DOMAIN f.ino PROVE /\ i \in DOMAIN g.dest /\ g.dest[i] = i /\ i \in DOMAIN g.ino
                                           /\ i \notin made
   <2>1. i \in DOMAIN f.dest /\ f.dest[i] = i /\ Entry(i).ino = i BY <1>6
   <2> QED BY <2>1, <1>1, <1>3, <1>8
<1>11. ASSUME NEW i \in DOMAIN f.ino
       PROVE /\ IsAttr(g.ino[i]) /\ Alike(g.ino[i], f.ino[i])
             /\ i \notin dirs => g.ino[i].mtime = f.ino[i].mtime
   <2>1. IsAttr(f.ino[i]) /\ i \in DOMAIN g.ino /\ i \notin made BY <1>6, <1>10
   <2>2. CASE i \in dirs
      <3>1. g.ino[i] = [f.ino[i] EXCEPT !.mtime = Now] BY <1>5, <2>1, <2>2
      <3> QED BY <2>1, <2>2, <3>1 DEF IsAttr, Alike
   <2>3. CASE i \notin dirs
      <3>1. g.ino[i] = f.ino[i] BY <1>5, <2>1, <2>3
      <3> QED BY <2>1, <3>1 DEF Alike
   <2> QED BY <2>2, <2>3
<1>12. \A i \in made : g.ino[i] = Fresh BY <1>3, <1>5
<1>13. IsFs(g)
   <2>1. \A i \in DOMAIN g.ino : i \in DOMAIN g.dest /\ g.dest[i] = i /\ IsAttr(g.ino[i])
      BY <1>3, <1>9, <1>10, <1>11, <1>12, FreshFacts
   <2> QED BY <1>3, <1>6, <1>8, <2>1 DEF IsFs
<1>14. \A i : i \in dirs => Entry(i).kind = "DIR" /\ \E p \in DOMAIN new : Entry(p).parent = i
   BY <1>1, DirFacts DEF extract_dirpath
<1>15. Grows(f, g, DOMAIN new)
   <2>1. \A i \in DOMAIN f.ino :
            /\ i \in DOMAIN g.ino /\ Alike(g.ino[i], f.ino[i])
            /\ (\A p \in DOMAIN new : Entry(p).parent # i) => g.ino[i].mtime = f.ino[i].mtime
            /\ Entry(i).kind # "DIR" => g.ino[i].mtime = f.ino[i].mtime
      BY <1>10, <1>11, <1>14
   <2>2. \A i \in DOMAIN g.ino \ DOMAIN f.ino : g.ino[i] = Fresh BY <1>3, <1>12
   <2> QED BY <1>3, <1>13, <2>1, <2>2 DEF Grows
<1> QED BY <1>1, <1>15

\* mkdir_recursive() of the directory of an object
LEMMA MkdirFacts ==
    ASSUME JobType(job), NEW f, IsFs(f), NEW p \in Paths, Entry(p).kind = "DIR"
    PROVE  /\ Grows(f, mkdir_recursive(f, p), (Entry(p).dirs \cup {p}) \ DOMAIN f.dest)
           /\ p \in DOMAIN mkdir_recursive(f, p).dest
<1>1. PICK m : m = (Entry(p).dirs \cup {p}) \ DOMAIN f.dest OBVIOUS
<1>2. PICK new : new = [q \in m |-> q] OBVIOUS
<1>3. DOMAIN new = m /\ \A q \in m : new[q] = q BY <1>2
<1>4. m \subseteq Paths /\ \A q \in m : Entry(q).ino = q BY <1>1, DirFacts, InodeFacts
<1>5. Grows(f, Create(f, new), DOMAIN new) BY <1>3, <1>4, CreateFacts
<1>6. mkdir_recursive(f, p) = Create(f, new) BY <1>1, <1>2 DEF mkdir_recursive
<1>7. Grows(f, mkdir_recursive(f, p), m) BY <1>3, <1>5, <1>6
<1> QED BY <1>1, <1>7 DEF Grows

\* The creation of an object whose directory is there
LEMMA RestoreCreateFacts ==
    ASSUME JobType(job), NEW f, IsFs(f), NEW p \in Paths, Entry(p).dirs \subseteq DOMAIN f.dest,
           Entry(p).kind = "HARDLINK" => Entry(p).ino \in DOMAIN f.dest
    PROVE  \E new \in SUBSET {p} : /\ Grows(f, restore_create(f, Entry(p)), new)
                                   /\ p \in DOMAIN restore_create(f, Entry(p)).dest
<1>1. Entry(p).path = p BY PathFacts
<1>2. CASE Entry(p).kind = "DIR"
   <2>1. restore_create(f, Entry(p)) = mkdir_recursive(f, p) BY <1>1, <1>2 DEF restore_create
   <2>2. PICK new : new = (Entry(p).dirs \cup {p}) \ DOMAIN f.dest OBVIOUS
   <2>3. new \in SUBSET {p} BY <2>2
   <2> QED BY <1>2, <2>1, <2>2, <2>3, MkdirFacts
<1>3. CASE Entry(p).kind # "DIR"
   <2>1. PICK new : new = [q \in {p} |-> IF Entry(p).kind = "HARDLINK" THEN f.dest[Entry(p).ino] ELSE q]
      OBVIOUS
   <2>2. restore_create(f, Entry(p)) = Create(f, new) BY <1>1, <1>3, <2>1 DEF restore_create
   <2>3. DOMAIN new = {p} /\ new[p] = Entry(p).ino /\ new[p] \in DOMAIN f.dest \cup DOMAIN new
      <3>1. DOMAIN new = {p} BY <2>1
      <3>2. CASE Entry(p).kind = "HARDLINK"
         <4>1. new[p] = f.dest[Entry(p).ino] BY <2>1, <3>2
         <4>2. f.dest[Entry(p).ino] = Entry(Entry(p).ino).ino BY <3>2 DEF IsFs
         <4> QED BY <3>1, <3>2, <4>1, <4>2, InodeFacts
      <3>3. CASE Entry(p).kind # "HARDLINK"
         <4>1. new[p] = p BY <2>1, <3>3
         <4> QED BY <3>1, <3>3, <4>1, InodeFacts
      <3> QED BY <3>2, <3>3
   <2>4. Grows(f, Create(f, new), DOMAIN new) BY <2>3, CreateFacts
   <2> QED BY <2>2, <2>3, <2>4 DEF Grows
<1> QED BY <1>2, <1>3

\* New attributes for the inode of a path
LEMMA SetAttrFacts ==
    ASSUME JobType(job), NEW f, IsFs(f), NEW p \in DOMAIN f.dest, NEW a, IsAttr(a),
           NEW g, g = SetAttr(f, p, a)
    PROVE  /\ IsFs(g) /\ g.dest = f.dest /\ DOMAIN g.ino = DOMAIN f.ino
           /\ Entry(p).ino \in DOMAIN f.ino /\ g.ino[Entry(p).ino] = a
           /\ \A i \in DOMAIN f.ino : i # Entry(p).ino => g.ino[i] = f.ino[i]
<1>1. f.dest[p] = Entry(p).ino /\ Entry(p).ino \in DOMAIN f.ino BY DEF IsFs
<1>2. g = [dest |-> f.dest, ino |-> [f.ino EXCEPT ![Entry(p).ino] = a]] BY <1>1 DEF SetAttr
<1>3. /\ g.dest = f.dest /\ DOMAIN g.ino = DOMAIN f.ino /\ g.ino[Entry(p).ino] = a
      /\ \A i \in DOMAIN f.ino : i # Entry(p).ino => g.ino[i] = f.ino[i]
   BY <1>1, <1>2
<1>4. IsFs(g) BY <1>1, <1>3 DEF IsFs
<1> QED BY <1>1, <1>3, <1>4

\* utimes() of a directory
LEMMA UtimesFacts ==
    ASSUME JobType(job), NEW f, IsFs(f), NEW p \in DOMAIN f.dest, NEW t,
           NEW g, g = Utimes(f, p, t)
    PROVE  /\ IsFs(g) /\ g.dest = f.dest /\ DOMAIN g.ino = DOMAIN f.ino
           /\ Entry(p).ino \in DOMAIN f.ino
           /\ g.ino[Entry(p).ino].mtime = t /\ Alike(g.ino[Entry(p).ino], f.ino[Entry(p).ino])
           /\ \A i \in DOMAIN f.ino : i # Entry(p).ino => g.ino[i] = f.ino[i]
<1>1. f.dest[p] = Entry(p).ino /\ Entry(p).ino \in DOMAIN f.ino /\ IsAttr(f.ino[Entry(p).ino]) BY DEF IsFs
<1>2. PICK a : a = [f.ino[Entry(p).ino] EXCEPT !.mtime = t] OBVIOUS
<1>3. IsAttr(a) /\ a.mtime = t /\ Alike(a, f.ino[Entry(p).ino]) BY <1>1, <1>2 DEF IsAttr, Alike
<1>4. g = SetAttr(f, p, a) BY <1>1, <1>2 DEF Utimes, Attr
<1> QED BY <1>3, <1>4, SetAttrFacts


-----------------------------------------------------------------------------
(* What other programs do during the save *)

\* The parts of JobType that the lemmas below use
LEMMA JobFacts ==
    ASSUME job \in Jobs
    PROVE  JobType(job)
BY AttributesAssumption

\* A step after which what was read is still what the source had, and what has
\* changed has changed.
Steady ==
    /\ job' = job
    /\ \A i \in DOMAIN job.inodes, n \in Names :
          /\ seen[i][n] \subseteq seen'[i][n]
          /\ seen'[i][n] = {job.inodes[i].xattr[n]} => seen[i][n] = {job.inodes[i].xattr[n]}
    /\ OnlyRemoved' => OnlyRemoved

\* A step that leaves the objects and their attributes alone
LEMMA QuietIsSteady ==
    ASSUME UNCHANGED <<job, xattrs, seen>>
    PROVE  Steady
BY DEF Steady, OnlyRemoved

\* Another program sets, changes or removes an attribute.
LEMMA RaceStep ==
    ASSUME job \in Jobs, SourceInv, race
    PROVE  SourceInv' /\ Steady
<1> USE DEF Unchanged
<1>0. JobType(job) BY JobFacts
<1>1. PICK j \in RaceInodes \cap {job.tree[k].ino : k \in cur .. Len(job.tree)}, m \in OwnNames,
           v \in {None} \cup {[size |-> s, val |-> "new"] : s \in RaceSizes} :
         /\ v # xattrs[j][m]
         /\ xattrs' = [xattrs EXCEPT ![j][m] = v]
         /\ seen' = [seen EXCEPT ![j][m] = @ \cup {v}]
   BY DEF race
<1>2. job' = job BY DEF race
<1>3. seen' = [seen EXCEPT ![j][m] = seen[j][m] \cup {v}] BY <1>1
<1>4. v # None => v.size \in Nat /\ v.val = "new" BY <1>1, AttributesAssumption
<1>5. /\ DOMAIN xattrs = DOMAIN job.inodes /\ DOMAIN seen = DOMAIN job.inodes
      /\ \A i \in DOMAIN job.inodes : DOMAIN xattrs[i] = Names /\ DOMAIN seen[i] = Names
      /\ \A i \in DOMAIN job.inodes, n \in Names :
            /\ xattrs[i][n] \in seen[i][n]
            /\ \A w \in seen[i][n] : w # None => w.size \in Nat
            /\ n \in OldNames(i) /\ xattrs[i][n] = job.inodes[i].xattr[n] => Unchanged(i, n)
   BY DEF SourceInv
<1>6. m \in Names BY DEF OwnNames, Names
<1>7. /\ DOMAIN xattrs' = DOMAIN job.inodes /\ DOMAIN seen' = DOMAIN job.inodes
      /\ \A i \in DOMAIN job.inodes : DOMAIN xattrs'[i] = Names /\ DOMAIN seen'[i] = Names
   BY <1>1, <1>3, <1>5
<1>8. ASSUME NEW i \in DOMAIN job.inodes, NEW n \in Names
      PROVE  IF i = j /\ n = m THEN xattrs'[i][n] = v /\ seen'[i][n] = seen[i][n] \cup {v}
             ELSE xattrs'[i][n] = xattrs[i][n] /\ seen'[i][n] = seen[i][n]
   BY <1>1, <1>3, <1>5, <1>6
<1>9. ASSUME NEW i \in DOMAIN job.inodes, NEW n \in Names, n \in OldNames(i)
      PROVE  job.inodes[i].xattr[n] # v
   <2>1. job.inodes[i].xattr[n] # None BY <1>9 DEF OldNames
   <2>2. job.inodes[i].xattr[n].val = "old" BY <1>0, <2>1 DEF JobType
   <2> QED BY <2>1, <2>2, <1>4
<1>10. ASSUME NEW i \in DOMAIN job.inodes, NEW n \in Names
       PROVE  /\ xattrs'[i][n] \in seen'[i][n]
              /\ \A w \in seen'[i][n] : w # None => w.size \in Nat
              /\ n \in OldNames(i) /\ xattrs'[i][n] = job.inodes[i].xattr[n]
                    => seen'[i][n] = {job.inodes[i].xattr[n]}
              /\ seen[i][n] \subseteq seen'[i][n]
              /\ seen'[i][n] = {job.inodes[i].xattr[n]} => seen[i][n] = {job.inodes[i].xattr[n]}
   <2>1. CASE i = j /\ n = m BY <1>4, <1>5, <1>8, <1>9, <2>1
   <2>2. CASE ~(i = j /\ n = m) BY <1>5, <1>8, <2>2
   <2> QED BY <2>1, <2>2
<1>11. \A i : OldNames(i)' = OldNames(i) BY <1>2 DEF OldNames
<1>12. SourceInv' BY <1>2, <1>7, <1>10, <1>11 DEF SourceInv
<1>13. OnlyRemoved' => OnlyRemoved
   <2> SUFFICES ASSUME OnlyRemoved', NEW i \in DOMAIN seen, NEW n \in Names, NEW w \in seen[i][n]
                PROVE  w \in {job.inodes[i].xattr[n], None} /\ w.size <= 65535
      BY DEF OnlyRemoved
   <2>1. i \in DOMAIN seen' /\ w \in seen'[i][n] BY <1>5, <1>7, <1>10
   <2> QED BY <2>1, <1>2 DEF OnlyRemoved
<1> QED BY <1>2, <1>10, <1>12, <1>13 DEF Steady

\* What other programs could do stays possible, and what they have done is done.
LEMMA SteadySource ==
    ASSUME Steady, NEW i \in DOMAIN job.inodes
    PROVE  /\ \A n \in Names : MayOverrun(i, n) => MayOverrun(i, n)'
           /\ \A n \in Names : \A v : FromSource(i, n, v) => FromSource(i, n, v)'
           /\ \A n \in Names : Unchanged(i, n)' => Unchanged(i, n)
           /\ Listable(i)' => Listable(i)
           /\ OldNames(i)' = OldNames(i)
<1>1. job' = job /\ \A n \in Names : seen[i][n] \subseteq seen'[i][n] BY DEF Steady
<1>2. \A n \in Names : MayOverrun(i, n) => MayOverrun(i, n)' BY <1>1 DEF MayOverrun
<1>3. \A n \in Names : \A v : FromSource(i, n, v) => FromSource(i, n, v)' BY <1>1, <1>2 DEF FromSource
<1>4. \A n \in Names : Unchanged(i, n)' => Unchanged(i, n) BY <1>1 DEF Steady, Unchanged
<1>5. OldNames(i)' = OldNames(i) BY <1>1 DEF OldNames
<1>6. Listable(i)' => Listable(i) BY <1>1, <1>4, <1>5 DEF Listable
<1> QED BY <1>2, <1>3, <1>4, <1>5, <1>6

\* What was read stays true of the source.
LEMMA SteadyDico ==
    ASSUME Steady, NEW e, e.ino \in DOMAIN job.inodes, NEW d
    PROVE  /\ IsDico(d, e) => IsDico(d, e)'
           /\ \A others : Complete(d, e, others) => Complete(d, e, others)'
           /\ NameKeys(d)' = NameKeys(d) /\ \A n : Has(d, n)' <=> Has(d, n)
<1>1. job' = job /\ Section' = Section BY DEF Steady, Section
<1>2. NameKeys(d)' = NameKeys(d) /\ \A n : Has(d, n)' <=> Has(d, n) BY DEF NameKeys, Has
<1>3. \A n \in Names : \A v : FromSource(e.ino, n, v) => FromSource(e.ino, n, v)' BY SteadySource
<1>4. IsDico(d, e) => IsDico(d, e)'
   <2> HAVE IsDico(d, e)
   <2>1. \A k \in NameKeys(d) : /\ d[k + 5].data \in Names
                                /\ FromSource(e.ino, d[k + 5].data, d[k + 6].data)'
      BY <1>3 DEF IsDico
   <2>2. \A k \in NameKeys(d)' : /\ d[k + 5].data \in Names
                                 /\ FromSource(e.ino, d[k + 5].data, d[k + 6].data)'
      BY <1>2, <2>1
   <2> QED BY <1>1, <1>2, <2>2 DEF IsDico, IsSeq, u32
<1>5. ASSUME NEW others, Complete(d, e, others) PROVE Complete(d, e, others)'
   <2> SUFFICES ASSUME NEW n \in Names \ others, Listable(e.ino)', Unchanged(e.ino, n)',
                       n \in OldNames(e.ino)'
                PROVE  Has(d, n)'
      BY DEF Complete
   <2>1. Listable(e.ino) /\ Unchanged(e.ino, n) /\ n \in OldNames(e.ino) BY SteadySource
   <2> QED BY <1>2, <1>5, <2>1 DEF Complete
<1> QED BY <1>2, <1>4, <1>5

\* A header stays true while the values seen only grow.
LEMMA SteadyHeader ==
    ASSUME Steady, NEW e, e.ino \in DOMAIN job.inodes, NEW h, HeaderOf(h, e)
    PROVE  HeaderOf(h, e)'
<1>1. IsDico(h.items, e)' /\ Complete(h.items, e, {})' BY SteadyDico DEF HeaderOf
<1>2. h.headerlen = Length(h.items) /\ h.count = Len(h.items) BY DEF HeaderOf
<1>3. (h.headerlen = Length(h.items) /\ h.count = Len(h.items))' BY ONLY <1>2
<1> QED BY <1>1, <1>3, Zenon DEF HeaderOf


-----------------------------------------------------------------------------
(* The save *)

\* A step of the save reads what is there, and only other programs change it.
LEMMA SourceStep ==
    ASSUME AttrInv, [Next]_vars
    PROVE  SourceInv' /\ Steady /\ job' = job /\ JobType(job)
<1>1. job \in Jobs /\ SourceInv BY DEF AttrInv, AttributesTypeOK
<1>2. JobType(job) BY <1>1, JobFacts
<1>3. CASE race BY <1>1, <1>2, <1>3, RaceStep DEF Steady
<1>4. CASE ~race
   <2>1. UNCHANGED <<job, xattrs, seen>>
      <3>1. CASE save_stat \/ save_list \/ save_size
         BY <3>1 DEF save_stat, save_list, save_size, racevars
      <3>2. CASE save_value \/ save_queue
         BY <3>2 DEF save_value, save_queue, racevars
      <3>3. CASE rest_object \/ rest_end \/ Terminated \/ UNCHANGED vars
         BY <3>3 DEF rest_object, rest_end, Terminated, vars, racevars
      <3> QED BY <1>4, <3>1, <3>2, <3>3 DEF Next
   <2>2. SourceInv' BY <1>1, <2>1 DEF SourceInv, Unchanged, OldNames
   <2> QED BY <1>2, <2>1, <2>2, QuietIsSteady
<1> QED BY <1>3, <1>4

\* What is known of an object that is being saved
Saving(e) ==
    /\ IsDico(dico, e) /\ Sizes(dico) /\ Len(dico) = 4 + 2 * attrcnt
    /\ attrcnt \in Nat
    /\ names \subseteq Names /\ IsFiniteSet(names)
    /\ attrcnt + Cardinality(names \cup Reading) <= MaxNames
    /\ \A n \in names \cup Reading : ~Has(dico, n)
    /\ OnlyRemoved => ~attrerrors
    /\ ~attrerrors => Complete(dico, e, names \cup Reading)

\* Where the save is: the object it reads and the name it has reached
LEMMA SavingFacts ==
    ASSUME AttrInv, phase \in {"size", "value"}, NEW e, e = job.tree[cur]
    PROVE  Saving(e)
<1>1. AttributesTypeOK /\ ReadInv BY DEF AttrInv
<1>2. /\ IsDico(dico, e) /\ Len(dico) = 4 + 2 * attrcnt
      /\ attrcnt + Cardinality(names \cup Reading) <= MaxNames
      /\ \A n \in names \cup Reading : ~Has(dico, n)
      /\ OnlyRemoved => ~attrerrors
      /\ ~attrerrors => Complete(dico, e, names \cup Reading)
   BY <1>1 DEF ReadInv, SavingInv
<1>3. names \subseteq Names /\ attrcnt \in Nat BY <1>1 DEF AttributesTypeOK
<1>4. Sizes(dico) BY <1>1 DEF AttributesTypeOK, Sizes, IsU16
<1>5. IsFiniteSet(names) BY <1>3, AttributesAssumption, FS_Subset
<1> QED BY <1>2, <1>3, <1>4, <1>5 DEF Saving

\* The entry that is being saved
LEMMA CurFacts ==
    ASSUME AttrInv, phase \in {"stat", "list", "size", "value", "undefined"}
    PROVE  /\ cur \in 1 .. Len(job.tree) /\ job.tree[cur].ino \in DOMAIN job.inodes
           /\ Len(job.tree) \in Nat
<1>1. JobType(job) BY JobFacts DEF AttrInv, AttributesTypeOK
<1>2. Len(job.tree) \in Nat BY <1>1 DEF JobType, TreeType
<1>3. cur \in 1 .. Len(job.tree) + 1 BY DEF AttrInv, AttributesTypeOK
<1>4. cur <= Len(job.tree) BY DEF AttrInv, ReadInv
<1>5. cur \in 1 .. Len(job.tree) BY <1>2, <1>3, <1>4
<1> QED BY <1>1, <1>2, <1>5 DEF JobType

\* An attribute that has its old value is there.
LEMMA StillThere ==
    ASSUME SourceInv, NEW i \in DOMAIN job.inodes, NEW n \in Names, Unchanged(i, n)
    PROVE  /\ xattrs[i][n] = job.inodes[i].xattr[n]
           /\ n \in OldNames(i) <=> xattrs[i][n] # None
BY DEF SourceInv, Unchanged, OldNames

\* The names that are listed are few enough, and those that are not listed are
\* not needed.
LEMMA ListFacts ==
    ASSUME AttrInv, phase = "list", NEW e, e = job.tree[cur], NEW s \in ListedNames(e)
    PROVE  /\ s \subseteq Names /\ IsFiniteSet(s) /\ Cardinality(s) <= MaxNames
           /\ \A n \in Names \ s : ~(Listable(e.ino) /\ Unchanged(e.ino, n) /\ n \in OldNames(e.ino))
<1>1. JobType(job) /\ SourceInv BY JobFacts DEF AttrInv, AttributesTypeOK
<1>2. cur \in 1 .. Len(job.tree) /\ e.ino \in DOMAIN job.inodes BY CurFacts
<1>3. IsFiniteSet(Names) /\ Cardinality(WinNames) <= MaxNames BY AttributesAssumption
<1>4. s \subseteq Names BY DEF ListedNames, NamesOf, OwnNames, Names
<1>5. IsFiniteSet(s) BY <1>3, <1>4, FS_Subset
<1>6. MaxNames \in Nat BY DEF MaxNames
<1>7. Cardinality(s) <= MaxNames
   <2>1. CASE job.winattr
      <3>1. s \subseteq WinNames BY <2>1 DEF ListedNames
      <3>2. IsFiniteSet(WinNames) BY <1>3, FS_Subset DEF Names
      <3>3. Cardinality(s) <= Cardinality(WinNames) BY <3>1, <3>2, FS_Subset
      <3>4. Cardinality(WinNames) \in Nat /\ Cardinality(s) \in Nat BY <1>5, <3>2, FS_CardinalityType
      <3> QED BY <1>3, <1>6, <3>3, <3>4
   <2>2. CASE ~job.winattr
      <3>1. s = {} \/ Cardinality(s) <= MaxNames BY <2>2 DEF ListedNames, MayFit
      <3> QED BY <3>1, <1>6, FS_EmptySet
   <2> QED BY <2>1, <2>2
<1>8. ASSUME NEW n \in Names, n \notin s,
             Listable(e.ino), Unchanged(e.ino, n), n \in OldNames(e.ino)
      PROVE  FALSE
   <2>1. job.inodes[e.ino].xattr[n] # None BY <1>8 DEF OldNames
   <2>2. n \in IF job.winattr THEN WinNames ELSE XattrNames BY <1>1, <1>2, <2>1 DEF JobType
   <2>3. CASE job.winattr
      <3>1. n = "dos_name" /\ e.path = Root BY <1>8, <2>2, <2>3 DEF ListedNames
      <3>2. 1 \in 1 .. Len(job.tree) /\ Root = job.tree[1].path BY <1>2, EntryFacts, <1>1 DEF Root
      <3>3. cur = 1 BY <1>1, <1>2, <3>1, <3>2 DEF JobType, TreeType
      <3>4. job.tree[1].kind = "DIR" BY <1>1 DEF JobType, TreeType
      <3>5. job.tree[1].ino = job.tree[1].path
         <4>1. TreeType(job.tree) BY <1>1 DEF JobType
         <4>2. job.tree[1].kind = "HARDLINK" <=> job.tree[1].ino # job.tree[1].path BY <4>1, <3>2 DEF TreeType
         <4> QED BY <4>2, <3>4
      <3>6. job.inodes[job.tree[1].path].xattr["dos_name"] = None BY <1>1, <1>8, <2>3, <3>1 DEF JobType
      <3> QED BY <2>1, <3>1, <3>3, <3>5, <3>6
   <2>4. CASE ~job.winattr
      <3>1. PICK i : i = e.ino OBVIOUS
      <3>2. NamesOf(i) \subseteq OldNames(i)
         <4> SUFFICES ASSUME NEW m \in NamesOf(i), m \notin OldNames(i) PROVE FALSE OBVIOUS
         <4>1. m \in Names /\ xattrs[i][m] # None BY DEF NamesOf, OwnNames, Names
         <4>2. Unchanged(i, m) BY <1>8, <2>4, <3>1, <4>1 DEF Listable
         <4> QED BY <1>1, <1>2, <3>1, <4>1, <4>2, StillThere
      <3>3. ~MayNotFit(i) BY <1>8, <2>4, <3>1, <3>2 DEF Listable, MayNotFit
      <3>4. s = NamesOf(i) BY <2>4, <3>1, <3>3 DEF ListedNames
      <3>5. n \in NamesOf(i) BY <1>1, <1>2, <1>8, <2>2, <2>4, <3>1, StillThere DEF NamesOf, OwnNames
      <3> QED BY <1>8, <3>4, <3>5
   <2> QED BY <2>3, <2>4
<1> QED BY <1>4, <1>5, <1>7, <1>8


\* While no object is being saved there is nothing to know of it.
LEMMA IdleReadInv ==
    ASSUME phase' \in {"stat", "restore", "done"}, phase' = "stat" => cur' <= Len(job'.tree)
    PROVE  ReadInv'
BY DEF ReadInv

\* lstat64(): the standard attributes are in the header from here on.
LEMMA ReadStat ==
    ASSUME AttrInv, save_stat, job' = job
    PROVE  ReadInv' /\ Sizes(dico)'
<1>1. PICK e : e = job.tree[cur] OBVIOUS
<1>2. cur <= Len(job.tree) /\ phase = "stat" BY DEF AttrInv, ReadInv, save_stat
<1>3. PICK d : d = createar_item_stdattr(e) OBVIOUS
<1>4. dico' = d /\ phase' = "list" /\ cur' = cur BY <1>1, <1>3 DEF save_stat
<1>5. IsDico(d, e) /\ Len(d) = 4 /\ Sizes(d) BY <1>3, NewDico
<1>6. IsDico(d, e)'
   <2>1. Steady BY QuietIsSteady DEF save_stat, racevars
   <2>2. e.ino \in DOMAIN job.inodes BY <1>1, <1>2, CurFacts
   <2> QED BY <1>5, <2>1, <2>2, SteadyDico
<1>7. ReadInv' BY <1>1, <1>2, <1>4, <1>5, <1>6 DEF ReadInv
<1>8. Sizes(dico)' BY <1>4, <1>5 DEF Sizes, IsU16
<1> QED BY <1>7, <1>8

\* llistxattr(): the names that are still to be read
LEMMA ReadList ==
    ASSUME AttrInv, save_list, job' = job
    PROVE  ReadInv' /\ names' \subseteq Names /\ attrcnt' = 0
<1>1. PICK e : e = job.tree[cur] OBVIOUS
<1>2. phase = "list" /\ phase' = "size" /\ cur' = cur /\ dico' = dico /\ attrcnt' = 0 /\ attrerrors' = FALSE
   BY DEF save_list
<1>3. cur <= Len(job.tree) /\ IsDico(dico, e) /\ Len(dico) = 4 BY <1>1, <1>2 DEF AttrInv, ReadInv
<1>4. PICK s, d : s = names' /\ d = dico OBVIOUS
<1>5. names' = s /\ s \in ListedNames(e) BY <1>1, <1>4 DEF save_list
<1>6. /\ s \subseteq Names /\ IsFiniteSet(s) /\ Cardinality(s) <= MaxNames
      /\ \A n \in Names \ s :
            ~(Listable(e.ino) /\ Unchanged(e.ino, n) /\ n \in OldNames(e.ino))
   BY <1>1, <1>2, <1>5, ListFacts
<1>7. NameKeys(d) = {}
   <2>1. Len(d) = 4 BY <1>3, <1>4
   <2> QED BY ONLY <2>1 DEF NameKeys
<1>8. Complete(d, e, s) /\ \A n : ~Has(d, n) BY <1>6, <1>7 DEF Complete, Has
<1>9. IsDico(d, e)' /\ Complete(d, e, s)' /\ \A n : ~Has(d, n)'
   <2>1. Steady BY QuietIsSteady DEF save_list, racevars
   <2>2. e.ino \in DOMAIN job.inodes BY <1>1, <1>2, CurFacts
   <2> QED BY <1>3, <1>4, <1>8, <2>1, <2>2, SteadyDico
<1>10. (names \cup Reading)' = s BY <1>2, <1>5 DEF Reading
<1>11. attrcnt' + Cardinality(s) <= MaxNames /\ Len(dico') = 4 + 2 * attrcnt'
   <2>1. Cardinality(s) \in Nat BY <1>6, FS_CardinalityType
   <2> QED BY <1>2, <1>3, <1>6, <2>1
<1>12. SavingInv(e)' BY <1>2, <1>4, <1>9, <1>10, <1>11 DEF SavingInv
<1>13. ReadInv' BY <1>1, <1>2, <1>3, <1>12 DEF ReadInv
<1> QED BY <1>2, <1>5, <1>6, <1>13

\* lgetxattr() with no buffer: the size of the next value
LEMMA ReadSize ==
    ASSUME AttrInv, save_size, job' = job
    PROVE  ReadInv' /\ names' \subseteq Names /\ (phase' = "value" => name' \in Names) /\ attrsize' \in Int
<1>1. PICK e, d : e = job.tree[cur] /\ d = dico OBVIOUS
<1>2. phase = "size" /\ cur' = cur /\ dico' = dico /\ attrcnt' = attrcnt BY DEF save_size
<1>3. Saving(e) /\ Reading = {} /\ cur <= Len(job.tree) BY <1>1, <1>2, SavingFacts DEF Reading, AttrInv, ReadInv
<1>a. PICK n \in names :
         /\ name' = n /\ names' = names \ {n} /\ attrsize' = xattrs[e.ino][n].size
         /\ \/ xattrs[e.ino][n].size > MaxAttrSize /\ phase' = "size" /\ attrerrors' = TRUE
            \/ xattrs[e.ino][n].size = -1 /\ job.winattr /\ phase' = "size" /\ attrerrors' = attrerrors
            \/ /\ xattrs[e.ino][n].size <= MaxAttrSize /\ (xattrs[e.ino][n].size = -1 => ~job.winattr)
               /\ phase' = "value" /\ attrerrors' = attrerrors
   BY <1>1, Zenon DEF save_size
<1>b. PICK v : v = xattrs[e.ino][n] OBVIOUS
<1>4. /\ v = xattrs[e.ino][n]
      /\ name' = n /\ names' = names \ {n} /\ attrsize' = v.size
      /\ \/ v.size > MaxAttrSize /\ phase' = "size" /\ attrerrors' = TRUE
         \/ v.size = -1 /\ job.winattr /\ phase' = "size" /\ attrerrors' = attrerrors
         \/ /\ v.size <= MaxAttrSize /\ (v.size = -1 => ~job.winattr)
            /\ phase' = "value" /\ attrerrors' = attrerrors
   BY <1>a, <1>b, Zenon
<1>5. e.ino \in DOMAIN job.inodes BY <1>1, <1>2, CurFacts
<1>6. names \subseteq Names /\ n \in Names /\ attrerrors \in BOOLEAN
   BY <1>3 DEF Saving, AttrInv, AttributesTypeOK
<1>7. /\ v \in seen[e.ino][n] /\ e.ino \in DOMAIN seen
      /\ v.size \in Int /\ (v.size = -1 => v = None)
   <2>1. v \in seen[e.ino][n] /\ e.ino \in DOMAIN seen /\ (v # None => v.size \in Nat)
      BY <1>4, <1>5, <1>6 DEF AttrInv, SourceInv
   <2> QED BY <2>1 DEF None
<1>8. PICK s : s = names \ {n} OBVIOUS
<1>9. /\ Cardinality(names) \in Nat /\ IsFiniteSet(s) /\ Cardinality(s) = Cardinality(names) - 1
   BY <1>3, <1>8, FS_RemoveElement, FS_CardinalityType DEF Saving
<1>10. Steady BY QuietIsSteady DEF save_size, racevars
<1>11. IsDico(d, e)' /\ (\A m : Has(d, m)' <=> Has(d, m)) /\ \A o : Complete(d, e, o) => Complete(d, e, o)'
   BY <1>1, <1>3, <1>5, <1>10, SteadyDico DEF Saving
<1>12. OnlyRemoved' => OnlyRemoved BY <1>10 DEF Steady
<1>13. ASSUME phase' = "size", OnlyRemoved => ~attrerrors', attrerrors' \in BOOLEAN,
              ~attrerrors' => ~attrerrors /\ v = None
       PROVE  ReadInv'
   <2>1. (names \cup Reading)' = s BY <1>4, <1>8, <1>13 DEF Reading
   <2>3. attrcnt + Cardinality(s) <= MaxNames
      <3>1. attrcnt + Cardinality(names) <= MaxNames /\ attrcnt \in Nat BY <1>3 DEF Saving
      <3> QED BY <3>1, <1>9 DEF MaxNames
   <2>4. \A m \in s : ~Has(d, m)' BY <1>1, <1>3, <1>8, <1>11 DEF Saving
   <2>5. Len(dico') = 4 + 2 * attrcnt' BY <1>2, <1>3 DEF Saving
   <2>6. ~attrerrors' => Complete(d, e, s)
      <3> SUFFICES ASSUME ~attrerrors', NEW m \in Names \ s, Listable(e.ino), Unchanged(e.ino, m),
                          m \in OldNames(e.ino)
                   PROVE  Has(d, m)
         BY DEF Complete
      <3>1. ~attrerrors /\ v = None BY <1>13
      <3>2. m # n
         <4> SUFFICES ASSUME m = n PROVE FALSE OBVIOUS
         <4>1. SourceInv BY DEF AttrInv
         <4>2. xattrs[e.ino][n] # None BY <1>5, <1>6, <4>1, StillThere
         <4> QED BY <1>4, <3>1, <4>2
      <3>3. m \in Names \ (names \cup Reading) BY <1>3, <1>8, <3>2
      <3> QED BY <1>1, <1>3, <3>1, <3>3 DEF Saving, Complete
   <2>7. SavingInv(e)' BY <1>1, <1>2, <1>11, <1>12, <1>13, <2>1, <2>3, <2>4, <2>5, <2>6 DEF SavingInv
   <2>8. ReadInv' BY <1>1, <1>2, <1>3, <1>13, <2>7 DEF ReadInv
   <2> QED BY <2>8
<1>14. ASSUME phase' = "value", attrerrors' = attrerrors,
              v.size <= MaxAttrSize, v.size = -1 => ~job.winattr
       PROVE  ReadInv'
   <2>0. PICK all : all = names OBVIOUS
   <2>1. (names \cup Reading)' = all
      <3>1. (names \cup Reading)' = s \cup {n} BY <1>4, <1>8, <1>14 DEF Reading
      <3> QED BY <1>4, <1>8, <2>0, <3>1
   <2>2. all = names \cup Reading BY <1>3, <2>0
   <2>3. \A m \in all : ~Has(d, m)' BY <1>1, <1>3, <1>11, <2>2 DEF Saving
   <2>4. ~attrerrors => Complete(d, e, all)' BY <1>1, <1>3, <1>11, <2>2 DEF Saving
   <2>5. name' \notin names' /\ attrsize' <= 65535 /\ (attrsize' = -1 => ~job'.winattr)
      BY <1>4, <1>7, <1>14 DEF MaxAttrSize
   <2>6. \E w \in seen'[e.ino][name'] : w.size = attrsize'
      <3>1. seen' = seen BY DEF save_size, racevars
      <3> QED BY <1>4, <1>7, <3>1
   <2>7. OnlyRemoved' => ~attrerrors' BY <1>3, <1>12, <1>14 DEF Saving
   <2>8. /\ Len(dico') = 4 + 2 * attrcnt'
         /\ attrcnt' + Cardinality(all) <= MaxNames BY <1>2, <1>3, <2>2 DEF Saving
   <2>9. job'.tree[cur'] = e /\ dico' = d BY <1>1, <1>2
   <2>a. ~attrerrors' => Complete(d, e, all)' BY <1>14, <2>4
   <2>10. SavingInv(e)' BY <1>11, <2>1, <2>3, <2>a, <2>7, <2>8, <2>9 DEF SavingInv
   <2>11. SizeInv(e)' BY <2>5, <2>6 DEF SizeInv
   <2>12. ReadInv' BY <1>2, <1>3, <1>14, <2>9, <2>10, <2>11 DEF ReadInv
   <2> QED BY <2>12
<1>15. names' \subseteq Names /\ (phase' = "value" => name' \in Names) /\ attrsize' \in Int
   BY <1>4, <1>6, <1>7
<1>16. CASE v.size > MaxAttrSize /\ phase' = "size" /\ attrerrors' = TRUE
   <2>1. ~OnlyRemoved
      <3>1. OnlyRemoved => v.size <= 65535 BY <1>6, <1>7 DEF OnlyRemoved
      <3> QED BY <1>7, <1>16, <3>1 DEF MaxAttrSize
   <2> QED BY <1>13, <1>15, <1>16, <2>1
<1>17. CASE v.size = -1 /\ phase' = "size" /\ attrerrors' = attrerrors
   <2>1. OnlyRemoved => ~attrerrors BY <1>3 DEF Saving
   <2>2. (OnlyRemoved => ~attrerrors') /\ attrerrors' \in BOOLEAN /\ (~attrerrors' => ~attrerrors)
      BY ONLY <1>6, <1>17, <2>1
   <2>3. v = None BY <1>7, <1>17
   <2>4. ReadInv' BY <1>13, <1>17, <2>2, <2>3
   <2> QED BY <1>15, <2>4
<1>18. CASE /\ v.size <= MaxAttrSize /\ (v.size = -1 => ~job.winattr)
            /\ phase' = "value" /\ attrerrors' = attrerrors
   BY <1>14, <1>15, <1>18
<1> QED BY <1>4, <1>16, <1>17, <1>18, Zenon


\* lgetxattr() with a buffer: the value, if it is still there and not longer
LEMMA ReadValue ==
    ASSUME AttrInv, save_value, job' = job
    PROVE  ReadInv' /\ Sizes(dico)' /\ attrcnt' \in 0 .. MaxNames /\ attrerrors' \in BOOLEAN
<1>1. PICK e, d, v : e = job.tree[cur] /\ d = dico /\ v = Value OBVIOUS
<1>2. phase = "value" /\ cur' = cur /\ names' = names /\ name' = name BY DEF save_value
<1>3. Saving(e) /\ Reading = {name} BY <1>1, <1>2, SavingFacts DEF Reading
<1>4. cur <= Len(job.tree) BY <1>2 DEF AttrInv, ReadInv
<1>5. name \in Names /\ attrerrors \in BOOLEAN /\ attrsize \in Int BY <1>2 DEF AttrInv, AttributesTypeOK
<1>6. PICK w \in seen[e.ino][name] : w.size = attrsize /\ (attrsize = -1 => ~job.winattr)
   <2>1. SizeInv(e) BY <1>1, <1>2 DEF AttrInv, ReadInv
   <2> QED BY <1>1, <2>1 DEF SizeInv
<1>7. name \notin names BY <1>1, <1>2 DEF AttrInv, ReadInv, SizeInv
<1>8. e.ino \in DOMAIN job.inodes BY <1>1, <1>2, CurFacts
<1>9. /\ v \in seen[e.ino][name] /\ e.ino \in DOMAIN seen /\ v = xattrs[e.ino][name]
      /\ v # None => v.size \in Nat
      /\ w # None => w.size \in Nat
      /\ SourceInv
   BY <1>1, <1>5, <1>6, <1>8 DEF AttrInv, SourceInv, Value
<1>a. attrsize <= 0 => w.size = 0 \/ (w = None /\ ~job.winattr)
   <2>1. w = None => attrsize = -1 BY <1>6 DEF None
   <2> QED BY <1>6, <1>9, <2>1
<1>10. PICK s, all : s = names /\ all = names \cup {name} OBVIOUS
<1>11. /\ IsFiniteSet(s) /\ Cardinality(s) \in Nat /\ Cardinality(all) = Cardinality(s) + 1
       /\ attrcnt \in Nat /\ attrcnt + Cardinality(all) <= MaxNames
   <2>1. IsFiniteSet(s) /\ attrcnt \in Nat /\ attrcnt + Cardinality(all) <= MaxNames
      BY <1>3, <1>10 DEF Saving
   <2> QED BY <2>1, <1>7, <1>10, FS_AddElement, FS_CardinalityType
<1>12. phase' = "size" => (names \cup Reading)' = s BY <1>2, <1>10 DEF Reading
<1>13. Steady BY QuietIsSteady DEF save_value, racevars
<1>14. OnlyRemoved' => OnlyRemoved BY <1>13 DEF Steady
<1>15. /\ IsDico(d, e) /\ Sizes(d) /\ Len(d) = 4 + 2 * attrcnt
       /\ \A n \in all : ~Has(d, n)
       /\ OnlyRemoved => ~attrerrors
       /\ ~attrerrors => Complete(d, e, all)
   BY <1>1, <1>3, <1>10 DEF Saving
<1>16. ASSUME phase' = "size", dico' = d, attrcnt' = attrcnt, OnlyRemoved => ~attrerrors', attrerrors' \in BOOLEAN,
              ~attrerrors' => Complete(d, e, s)
       PROVE  ReadInv' /\ Sizes(dico)' /\ attrcnt' \in 0 .. MaxNames /\ attrerrors' \in BOOLEAN
   <2>1. IsDico(d, e)' /\ (\A m : Has(d, m)' <=> Has(d, m)) /\ (Complete(d, e, s) => Complete(d, e, s)')
      BY <1>8, <1>13, <1>15, SteadyDico
   <2>2. attrcnt + Cardinality(s) <= MaxNames /\ attrcnt <= MaxNames BY <1>11 DEF MaxNames
   <2>3. \A n \in s : ~Has(d, n)' BY <1>10, <1>15, <2>1
   <2>4. SavingInv(e)' BY <1>12, <1>14, <1>15, <1>16, <2>1, <2>2, <2>3 DEF SavingInv
   <2>5. ReadInv' BY <1>1, <1>2, <1>4, <1>16, <2>4 DEF ReadInv
   <2>6. Sizes(dico)' BY <1>15, <1>16 DEF Sizes, IsU16
   <2>7. attrcnt' \in 0 .. MaxNames
      <3>1. attrcnt \in Nat BY <1>11
      <3>2. attrcnt \in 0 .. MaxNames BY <3>1, <2>2 DEF MaxNames
      <3> QED BY <1>16, <3>2
   <2> QED BY <1>16, <2>5, <2>6, <2>7
<1>17. CASE v = None /\ phase' = "size" /\ UNCHANGED <<dico, attrcnt, attrerrors>>
   <2>1. ~attrerrors => Complete(d, e, s)
      <3> SUFFICES ASSUME ~attrerrors, NEW n \in Names \ s, Listable(e.ino), Unchanged(e.ino, n),
                          n \in OldNames(e.ino)
                   PROVE  Has(d, n)
         BY DEF Complete
      <3>1. n # name BY <1>8, <1>9, <1>17, StillThere
      <3>2. n \in Names \ all BY <1>10, <3>1
      <3> QED BY <1>15, <3>2 DEF Complete
   <2> QED BY <1>1, <1>5, <1>15, <1>16, <1>17, <2>1
<1>18. CASE /\ v # None /\ attrsize > 0 /\ v.size > attrsize
            /\ phase' = "size" /\ attrerrors' = TRUE /\ UNCHANGED <<dico, attrcnt>>
   <2>1. ~OnlyRemoved
      <3> SUFFICES ASSUME OnlyRemoved PROVE FALSE OBVIOUS
      <3>1. v = job.inodes[e.ino].xattr[name] BY <1>5, <1>9, <1>18 DEF OnlyRemoved
      <3>2. w # None BY <1>6, <1>18 DEF None
      <3>3. w = job.inodes[e.ino].xattr[name] BY <1>5, <1>6, <1>9, <3>2 DEF OnlyRemoved
      <3> QED BY <1>6, <1>9, <1>18, <3>1, <3>3
   <2> QED BY <1>1, <1>16, <1>18, <2>1
<1>19. CASE /\ v # None /\ phase' = "size"
            /\ dico' = AddAttr(dico, name, Fetched) /\ attrcnt' = attrcnt + 1
            /\ UNCHANGED attrerrors
   <2>1. PICK r, f : r = AddAttr(d, name, f) /\ f = Fetched OBVIOUS
   <2>2. f.size \in Int /\ FromSource(e.ino, name, f)
      <3> DEFINE junk == attrsize <= 0 /\ v.size > 0 /\ (attrsize = 0 \/ v.size > 65535)
      <3>1. CASE junk
         <4>1. f.size = U16(v.size) BY <1>1, <2>1, <3>1 DEF Fetched, Overruns
         <4>2. f.size \in Int BY <4>1, <1>9, <1>19 DEF U16
         <4>3. MayOverrun(e.ino, name) BY <1>6, <1>9, <1>a, <3>1 DEF MayOverrun
         <4>4. \E x \in seen[e.ino][name] : x.size = 0 \/ x.size > 65535 BY <1>6, <1>9, <3>1
         <4> QED BY <4>2, <4>3, <4>4 DEF FromSource
      <3>2. CASE ~junk
         <4>1. f = v BY <1>1, <2>1, <3>2 DEF Fetched, Overruns
         <4> QED BY <1>9, <1>19, <4>1 DEF FromSource
      <3> QED BY <3>1, <3>2
   <2>3. dico' = r BY <1>1, <1>19, <2>1
   <2>4. /\ IsDico(r, e) /\ Sizes(r) /\ Len(r) = 4 + 2 * (attrcnt + 1)
         /\ \A m : Has(r, m) <=> Has(d, m) \/ m = name
      BY <1>5, <1>10, <1>11, <1>15, <2>1, <2>2, AddAttrFacts
   <2>5. ~attrerrors => Complete(r, e, s)
      <3> SUFFICES ASSUME ~attrerrors, NEW n \in Names \ s, Listable(e.ino), Unchanged(e.ino, n),
                          n \in OldNames(e.ino)
                   PROVE  Has(r, n)
         BY DEF Complete
      <3>1. CASE n = name BY <2>4, <3>1
      <3>2. CASE n # name
         <4>1. n \in Names \ all BY <1>10, <3>2
         <4>2. Has(d, n) BY <1>15, <4>1 DEF Complete
         <4> QED BY <2>4, <4>2
      <3> QED BY <3>1, <3>2
   <2>6. \A n \in s : ~Has(r, n) BY <1>7, <1>10, <1>15, <2>4
   <2>7. IsDico(r, e)' /\ (\A m : Has(r, m)' <=> Has(r, m)) /\ (Complete(r, e, s) => Complete(r, e, s)')
      BY <1>8, <1>13, <2>4, SteadyDico
   <2>8. attrcnt' + Cardinality(s) <= MaxNames /\ attrcnt' \in 0 .. MaxNames
      <3>1. attrcnt + 1 + Cardinality(s) <= MaxNames /\ attrcnt + 1 \in 0 .. MaxNames BY <1>11 DEF MaxNames
      <3> QED BY <1>19, <3>1
   <2>9. attrerrors' = attrerrors /\ Len(dico') = 4 + 2 * attrcnt' BY <1>19, <2>3, <2>4
   <2>10. SavingInv(e)'
      <3>1. (names \cup Reading)' = s BY <1>12, <1>19
      <3>2. OnlyRemoved' => ~attrerrors' BY <1>14, <1>15, <2>9
      <3>3. ~attrerrors' => Complete(r, e, s)' BY <2>5, <2>7, <2>9
      <3>4. \A n \in s : ~Has(r, n)' BY <2>6, <2>7
      <3> QED BY <2>3, <2>7, <2>8, <2>9, <3>1, <3>2, <3>3, <3>4 DEF SavingInv
   <2>11. ReadInv' BY <1>1, <1>2, <1>4, <1>19, <2>10 DEF ReadInv
   <2>12. Sizes(dico)' BY <2>3, <2>4 DEF Sizes, IsU16
   <2> QED BY <1>5, <2>8, <2>9, <2>11, <2>12
<1>20. CASE /\ v # None /\ attrsize <= 0 /\ v.size > 0 /\ phase' = "undefined"
            /\ UNCHANGED <<dico, attrcnt, attrerrors>>
   <2>1. MayOverrun(e.ino, name) BY <1>6, <1>9, <1>a, <1>20 DEF MayOverrun
   <2>2. ~OnlyRemoved
      <3> SUFFICES ASSUME OnlyRemoved PROVE FALSE OBVIOUS
      <3>1. v = job.inodes[e.ino].xattr[name] BY <1>5, <1>9, <1>20 DEF OnlyRemoved
      <3>2. name \in OldNames(e.ino) BY <1>5, <1>20, <3>1 DEF OldNames
      <3>3. seen[e.ino][name] = {v} BY <1>5, <1>8, <1>9, <3>1, <3>2 DEF SourceInv, Unchanged
      <3>4. w = v BY <1>6, <3>3
      <3> QED BY <1>6, <1>9, <1>20, <3>4
   <2>3. UNCHANGED <<job, seen>> BY DEF save_value, racevars
   <2>4. OverrunInv(e)' BY <1>2, <2>1, <2>2, <2>3 DEF OverrunInv, MayOverrun, OnlyRemoved
   <2>5. ReadInv' BY <1>1, <1>2, <1>4, <1>20, <2>4 DEF ReadInv
   <2>6. Sizes(dico)' BY <1>1, <1>15, <1>20 DEF Sizes, IsU16
   <2>7. attrcnt \in 0 .. MaxNames BY DEF AttrInv, AttributesTypeOK
   <2> QED BY <1>5, <1>20, <2>5, <2>6, <2>7
<1>21. \/ v = None /\ phase' = "size" /\ UNCHANGED <<dico, attrcnt, attrerrors>>
       \/ /\ v # None /\ attrsize > 0 /\ v.size > attrsize
          /\ phase' = "size" /\ attrerrors' = TRUE /\ UNCHANGED <<dico, attrcnt>>
       \/ /\ v # None /\ phase' = "size"
          /\ dico' = AddAttr(dico, name, Fetched) /\ attrcnt' = attrcnt + 1
          /\ UNCHANGED attrerrors
       \/ /\ v # None /\ attrsize <= 0 /\ v.size > 0 /\ phase' = "undefined"
          /\ UNCHANGED <<dico, attrcnt, attrerrors>>
   BY <1>1 DEF save_value, TooLarge, Overruns
<1> QED BY <1>17, <1>18, <1>19, <1>20, <1>21

\* The steps that leave the header in hand as it is
LEMMA ReadQuiet ==
    ASSUME AttrInv, Steady, UNCHANGED <<phase, savevars>>
    PROVE  ReadInv'
<1>0. CASE ~(phase \in {"list", "size", "value", "undefined"})
   BY <1>0 DEF AttrInv, ReadInv, savevars, Steady
<1> SUFFICES ASSUME phase \in {"list", "size", "value", "undefined"} PROVE ReadInv' BY <1>0
<1>1. PICK e, d, s : e = job.tree[cur] /\ d = dico /\ s = names \cup Reading OBVIOUS
<1>2. /\ job' = job /\ cur' = cur /\ dico' = d /\ names' = names /\ name' = name
      /\ attrsize' = attrsize /\ attrcnt' = attrcnt /\ attrerrors' = attrerrors
      /\ (names \cup Reading)' = s
   BY <1>1 DEF savevars, Reading, Steady
<1>3. e.ino \in DOMAIN job.inodes /\ ReadInv BY <1>1, <1>2, CurFacts DEF AttrInv
<1>4. /\ IsDico(d, e) => IsDico(d, e)'
      /\ \A m : Has(d, m)' <=> Has(d, m)
      /\ Complete(d, e, s) => Complete(d, e, s)'
   BY <1>3, SteadyDico
<1>5. OnlyRemoved' => OnlyRemoved BY DEF Steady
<1>6. SavingInv(e) => SavingInv(e)'
   <2> HAVE SavingInv(e)
   <2>1. /\ IsDico(d, e) /\ Len(d) = 4 + 2 * attrcnt
         /\ attrcnt + Cardinality(s) <= MaxNames
         /\ \A n \in s : ~Has(d, n)
         /\ OnlyRemoved => ~attrerrors
         /\ ~attrerrors => Complete(d, e, s)
      BY <1>1 DEF SavingInv
   <2> QED BY <1>2, <1>4, <1>5, <2>1 DEF SavingInv
<1>7. ASSUME phase = "value" PROVE SizeInv(e)'
   <2>1. name \in Names BY <1>7 DEF AttrInv, AttributesTypeOK
   <2>2. SizeInv(e) BY <1>1, <1>3, <1>7 DEF ReadInv
   <2>3. PICK w \in seen[e.ino][name] : w.size = attrsize BY <2>2 DEF SizeInv
   <2>4. w \in seen'[e.ino][name'] BY <1>2, <1>3, <2>1, <2>3 DEF Steady
   <2> QED BY <1>2, <2>2, <2>3, <2>4 DEF SizeInv
<1>8. ASSUME phase = "undefined" PROVE OverrunInv(e)'
   <2>1. name \in Names BY <1>8 DEF AttrInv, AttributesTypeOK
   <2>2. MayOverrun(e.ino, name) /\ ~OnlyRemoved BY <1>1, <1>3, <1>8 DEF ReadInv, OverrunInv
   <2>3. MayOverrun(e.ino, name)' BY <1>2, <1>3, <2>1, <2>2, SteadySource DEF MayOverrun
   <2> QED BY <1>5, <2>2, <2>3 DEF OverrunInv
<1> QED BY <1>1, <1>2, <1>3, <1>4, <1>6, <1>7, <1>8 DEF ReadInv

\* Every step keeps what is known of the header in hand.
LEMMA ReadStep ==
    ASSUME AttrInv, [Next]_vars
    PROVE  ReadInv'
<1>1. SourceInv' /\ Steady /\ job' = job /\ JobType(job) BY SourceStep
<1>2. CASE save_stat \/ save_list BY <1>1, <1>2, ReadStat, ReadList
<1>3. CASE save_size \/ save_value BY <1>1, <1>3, ReadSize, ReadValue
<1>4. CASE race BY <1>1, <1>4, ReadQuiet DEF race
<1>5. CASE save_queue
   <2>1. cur \in 1 .. Len(job.tree) /\ Len(job.tree) \in Nat BY <1>5, CurFacts DEF save_queue
   <2>2. cur' = cur + 1 /\ phase' = IF cur = Len(job.tree) THEN "restore" ELSE "stat" BY <1>5 DEF save_queue
   <2>3. phase' = "stat" => cur' <= Len(job'.tree) BY <1>1, <2>1, <2>2
   <2> QED BY <2>2, <2>3, IdleReadInv
<1>6. CASE rest_object \/ rest_end
   <2>1. phase' \in {"restore", "done"} BY <1>6 DEF rest_object, rest_end
   <2> QED BY <2>1, IdleReadInv
<1>7. CASE Terminated \/ UNCHANGED vars BY <1>1, <1>7, ReadQuiet DEF Terminated, vars
<1> QED BY <1>2, <1>3, <1>4, <1>5, <1>6, <1>7 DEF Next


-----------------------------------------------------------------------------
(* The archive *)

\* A header gives its entry.
LEMMA HeaderEntry ==
    ASSUME JobType(job), NEW h, NEW k \in 1 .. Len(job.tree), HeaderOf(h, job.tree[k])
    PROVE  PathOf(h) = job.tree[k].path /\ \A l \in 1 .. Len(job.tree) : PathOf(h) = job.tree[l].path => l = k
<1>1. PathOf(h) = job.tree[k].path BY DEF HeaderOf, IsDico, PathOf
<1>2. TreeType(job.tree) BY DEF JobType
<1> QED BY <1>1, <1>2 DEF TreeType

\* The steps that leave the archive as it is
LEMMA ArchiveQuiet ==
    ASSUME AttrInv, Steady, UNCHANGED <<archive, saveerr, cur>>,
           phase' \in {"restore", "done"} => phase \in {"restore", "done"}
    PROVE  ArchiveInv'
<1>1. ArchiveInv /\ job' = job /\ cur \in 1 .. Len(job.tree) + 1 BY DEF AttrInv, Steady, AttributesTypeOK
<1>2. JobType(job) BY JobFacts DEF AttrInv, AttributesTypeOK
<1>3. Len(job.tree) \in Nat BY <1>2 DEF JobType, TreeType
<1>4. ASSUME NEW i \in 1 .. Len(archive)
      PROVE  \E k \in 1 .. cur - 1 : HeaderOf(archive[i], job.tree[k])'
   <2>1. PICK k \in 1 .. cur - 1 : HeaderOf(archive[i], job.tree[k]) BY <1>1 DEF ArchiveInv
   <2>2. PICK h, e : h = archive[i] /\ e = job.tree[k] OBVIOUS
   <2>3. k \in 1 .. Len(job.tree) BY <1>1, <1>3
   <2>4. e.ino \in DOMAIN job.inodes BY <1>2, <2>2, <2>3 DEF JobType
   <2>5. HeaderOf(h, e)' BY <2>1, <2>2, <2>4, SteadyHeader
   <2>6. h = archive'[i] /\ e = job'.tree[k] BY <1>1, <2>2
   <2> QED BY <2>5, <2>6
<1>5. \A i \in 1 .. Len(archive') : \E k \in 1 .. cur' - 1 : HeaderOf(archive[i], job.tree[k])'
   BY <1>4
<1>6. OnlyRemoved' => OnlyRemoved BY DEF Steady
<1> QED BY <1>1, <1>5, <1>6 DEF ArchiveInv, IsSeq, PathOf

\* The header of the object that is saved
LEMMA ArchiveQueue ==
    ASSUME AttrInv, save_queue, Steady
    PROVE  ArchiveInv' /\ Len(archive') \in Nat /\ saveerr' \subseteq Paths
<1>1. PICK e, d, c : e = job.tree[cur] /\ d = dico /\ c = cur OBVIOUS
<1>2. /\ phase = "size" /\ names = {} /\ cur' = cur + 1 /\ job' = job
      /\ phase' = IF cur = Len(job.tree) THEN "restore" ELSE "stat"
   BY DEF save_queue
<1>3. JobType(job) BY JobFacts DEF AttrInv, AttributesTypeOK
<1>4. c \in 1 .. Len(job.tree) /\ Len(job.tree) \in Nat /\ e.ino \in DOMAIN job.inodes
   BY <1>1, <1>2, CurFacts
<1>5. Saving(e) /\ Reading = {} BY <1>1, <1>2, SavingFacts DEF Reading
<1>6. attrerrors \in BOOLEAN /\ saveerr \subseteq Paths BY DEF AttrInv, AttributesTypeOK
<1>7. /\ IsDico(d, e) /\ Len(d) = 4 + 2 * attrcnt /\ attrcnt \in Nat
      /\ OnlyRemoved => ~attrerrors
      /\ ~attrerrors => Complete(d, e, {})
   BY <1>1, <1>2, <1>5 DEF Saving
<1>8. attrcnt <= MaxNames
   <2>1. Cardinality({}) = 0 BY FS_EmptySet
   <2>2. attrcnt + Cardinality({}) <= MaxNames BY <1>2, <1>5 DEF Saving
   <2> QED BY <1>7, <2>1, <2>2
<1>9. ArchiveInv BY DEF AttrInv
<1>10. /\ IsSeq(archive) /\ Len(archive) \in Nat
       /\ \A i \in 1 .. Len(archive) : \E k \in 1 .. c - 1 : HeaderOf(archive[i], job.tree[k])
       /\ \A i, j \in 1 .. Len(archive), k, l \in 1 .. Len(job.tree) :
             /\ i < j /\ PathOf(archive[i]) = job.tree[k].path
             /\ PathOf(archive[j]) = job.tree[l].path
             => k < l
       /\ \A k \in 1 .. c - 1 : \/ job.tree[k].path \in saveerr
                                \/ \E i \in 1 .. Len(archive) : PathOf(archive[i]) = job.tree[k].path
       /\ OnlyRemoved => saveerr = {}
   BY <1>1, <1>9 DEF ArchiveInv, IsSeq
<1>11. phase' \in {"restore", "done"} => cur' = Len(job'.tree) + 1 BY <1>1, <1>2, <1>4
<1>12. OnlyRemoved' => OnlyRemoved BY DEF Steady
<1>13. 1 .. cur' - 1 = 1 .. c /\ \A k \in 1 .. c : k \in 1 .. c - 1 \/ k = c BY <1>1, <1>2, <1>4
<1>14. ASSUME NEW h, NEW k \in 1 .. Len(job.tree), HeaderOf(h, job.tree[k]) PROVE HeaderOf(h, job.tree[k])'
   <2>1. PICK t : t = job.tree[k] OBVIOUS
   <2>2. t.ino \in DOMAIN job.inodes BY <1>3, <2>1 DEF JobType
   <2>3. HeaderOf(h, t)' BY <1>14, <2>1, <2>2, SteadyHeader
   <2> QED BY <1>2, <2>1, <2>3
<1>15. \A k \in 1 .. c : k \in 1 .. Len(job.tree) BY <1>4
<1>16. CASE attrerrors
   <2>1. saveerr' = saveerr \cup {e.path} /\ archive' = archive BY <1>1, <1>16 DEF save_queue
   <2>2. ~OnlyRemoved BY <1>7, <1>16
   <2>3. e.path \in Paths BY <1>1, <1>3, <1>4, EntryFacts
   <2>4. \A k \in 1 .. c : \/ job.tree[k].path \in saveerr'
                           \/ \E i \in 1 .. Len(archive) : PathOf(archive[i]) = job.tree[k].path
      BY <1>1, <1>10, <1>13, <2>1
   <2>5. ASSUME NEW i \in 1 .. Len(archive) PROVE \E k \in 1 .. c : HeaderOf(archive[i], job.tree[k])'
      <3>1. PICK h : h = archive[i] OBVIOUS
      <3>2. PICK k \in 1 .. c - 1 : HeaderOf(h, job.tree[k]) BY <1>10, <3>1
      <3>3. k \in 1 .. c BY <1>4
      <3>4. HeaderOf(h, job.tree[k])' BY <1>14, <1>15, <3>2, <3>3
      <3> QED BY <2>1, <3>1, <3>3, <3>4
   <2>6. ArchiveInv'
      BY <1>2, <1>10, <1>11, <1>12, <1>13, <2>1, <2>2, <2>4, <2>5 DEF ArchiveInv, IsSeq, PathOf
   <2> QED BY <1>6, <1>10, <2>1, <2>3, <2>6
<1>17. CASE ~attrerrors
   <2>1. PICK h : h = writebuf_add_dico(d) OBVIOUS
   <2>2. saveerr' = saveerr /\ archive' = Append(archive, h) BY <1>1, <1>17, <2>1 DEF save_queue
   <2>3. HeaderOf(h, e)
      <3>1. h.items = d /\ h.headerlen = Length(d) /\ h.count = U16(Len(d)) BY <2>1 DEF writebuf_add_dico
      <3>2. U16(Len(d)) = Len(d) BY <1>7, <1>8 DEF U16, MaxNames
      <3> QED BY <1>7, <1>17, <3>1, <3>2, Zenon DEF HeaderOf
   <2>4. PICK r, m : r = archive' /\ m = Len(archive) OBVIOUS
   <2>5. /\ IsSeq(r) /\ Len(r) = m + 1 /\ m \in Nat /\ r[m + 1] = h
         /\ \A i \in 1 .. m : r[i] = archive[i]
      BY <1>10, <2>2, <2>4, AppendAny
   <2>6. \A i \in 1 .. m + 1 : i \in 1 .. m \/ i = m + 1 BY ONLY <2>5
   <2>7. PathOf(h) = job.tree[c].path /\ \A l \in 1 .. Len(job.tree) : PathOf(h) = job.tree[l].path => l = c
      BY <1>1, <1>3, <1>4, <2>3, HeaderEntry
   <2>8. ASSUME NEW i \in 1 .. m + 1 PROVE \E k \in 1 .. c : HeaderOf(r[i], job.tree[k])
      <3>1. CASE i = m + 1
         <4>1. c \in 1 .. c BY <1>4
         <4> QED BY <1>1, <2>3, <2>5, <3>1, <4>1
      <3>2. CASE i \in 1 .. m
         <4>1. PICK k \in 1 .. c - 1 : HeaderOf(archive[i], job.tree[k]) BY <1>10, <2>4, <3>2
         <4>2. k \in 1 .. c BY <1>4
         <4> QED BY <2>5, <3>2, <4>1, <4>2
      <3> QED BY <2>6, <3>1, <3>2
   <2>9. ASSUME NEW i \in 1 .. m, NEW k \in 1 .. Len(job.tree), PathOf(archive[i]) = job.tree[k].path
         PROVE  k < c
      <3>1. PICK l \in 1 .. c - 1 : HeaderOf(archive[i], job.tree[l]) BY <1>10, <2>4
      <3>2. PICK g : g = archive[i] OBVIOUS
      <3>3. l \in 1 .. Len(job.tree) /\ l < c BY <1>4
      <3>4. k = l BY <1>3, <2>9, <3>1, <3>2, <3>3, HeaderEntry
      <3> QED BY <3>3, <3>4
   <2>10. ASSUME NEW i \in 1 .. m + 1, NEW j \in 1 .. m + 1, NEW k \in 1 .. Len(job.tree),
                 NEW l \in 1 .. Len(job.tree), i < j,
                 PathOf(r[i]) = job.tree[k].path, PathOf(r[j]) = job.tree[l].path
          PROVE  k < l
      <3>1. i \in 1 .. m BY <2>5, <2>10
      <3>2. PathOf(archive[i]) = job.tree[k].path BY <2>5, <2>10, <3>1 DEF PathOf
      <3>3. CASE j = m + 1
         <4>1. l = c BY <2>5, <2>7, <2>10, <3>3
         <4> QED BY <2>9, <3>1, <3>2, <4>1
      <3>4. CASE j \in 1 .. m
         <4>1. PathOf(archive[j]) = job.tree[l].path BY <2>5, <2>10, <3>4 DEF PathOf
         <4> QED BY <1>10, <2>4, <2>10, <3>1, <3>2, <3>4, <4>1
      <3> QED BY <2>6, <3>3, <3>4
   <2>11. ASSUME NEW k \in 1 .. c
          PROVE  \/ job.tree[k].path \in saveerr
                 \/ \E i \in 1 .. m + 1 : PathOf(r[i]) = job.tree[k].path
      <3>1. CASE k = c
         <4>1. m + 1 \in 1 .. m + 1 BY <2>5
         <4> QED BY <2>5, <2>7, <3>1, <4>1
      <3>2. CASE k \in 1 .. c - 1 /\ job.tree[k].path \notin saveerr
         <4>1. PICK i \in 1 .. m : PathOf(archive[i]) = job.tree[k].path BY <1>10, <2>4, <3>2
         <4>2. i \in 1 .. m + 1 /\ r[i] = archive[i] BY <2>5
         <4> QED BY <4>1, <4>2 DEF PathOf
      <3> QED BY <1>13, <3>1, <3>2
   <2>12. \A i \in 1 .. m + 1 : \E k \in 1 .. c : HeaderOf(archive[i], job.tree[k])'
      <3> TAKE i \in 1 .. m + 1
      <3>1. PICK g : g = r[i] OBVIOUS
      <3>2. PICK k \in 1 .. c : HeaderOf(g, job.tree[k]) BY <2>8, <3>1
      <3>3. HeaderOf(g, job.tree[k])' BY <1>14, <1>15, <3>2
      <3> QED BY <2>4, <3>1, <3>3
   <2>13. ArchiveInv'
      <3>1. IsSeq(archive)' BY <2>4, <2>5 DEF IsSeq
      <3>2. 1 .. Len(archive') = 1 .. m + 1 BY <2>4, <2>5
      <3>3. \A i, j \in 1 .. Len(archive'), k, l \in 1 .. Len(job'.tree) :
               /\ i < j /\ PathOf(archive'[i]) = job'.tree[k].path
               /\ PathOf(archive'[j]) = job'.tree[l].path
               => k < l
         BY <1>2, <2>4, <2>10, <3>2
      <3>4. \A k \in 1 .. cur' - 1 :
               \/ job'.tree[k].path \in saveerr'
               \/ \E i \in 1 .. Len(archive') : PathOf(archive'[i]) = job'.tree[k].path
         BY <1>2, <1>13, <2>2, <2>4, <2>11, <3>2
      <3>5. \A i \in 1 .. Len(archive') : \E k \in 1 .. cur' - 1 : HeaderOf(archive[i], job.tree[k])'
         BY <1>13, <2>12, <3>2
      <3> QED BY <1>10, <1>11, <1>12, <2>2, <3>1, <3>3, <3>4, <3>5 DEF ArchiveInv, PathOf
   <2> QED BY <1>6, <2>2, <2>4, <2>5, <2>13
<1> QED BY <1>6, <1>16, <1>17


\* Every step keeps what is known of the headers in the archive.
LEMMA ArchiveStep ==
    ASSUME AttrInv, [Next]_vars
    PROVE  ArchiveInv'
<1>1. Steady BY SourceStep
<1>2. CASE save_queue BY <1>1, <1>2, ArchiveQueue
<1>3. CASE save_stat \/ save_list \/ save_size \/ save_value
   <2>1. phase' \in {"list", "size", "value", "undefined"} /\ UNCHANGED <<archive, saveerr, cur>>
      BY <1>3 DEF save_stat, save_list, save_size, save_value
   <2> QED BY <1>1, <2>1, ArchiveQuiet
<1>4. CASE race \/ rest_object \/ rest_end \/ Terminated \/ UNCHANGED vars
   <2>1. /\ UNCHANGED <<archive, saveerr, cur>>
         /\ phase' \in {"restore", "done"} => phase \in {"restore", "done"}
      BY <1>4 DEF race, rest_object, rest_end, Terminated, vars, savevars
   <2> QED BY <1>1, <2>1, ArchiveQuiet
<1> QED BY <1>2, <1>3, <1>4 DEF Next

\* The header that is restored
LEMMA RestHeader ==
    ASSUME AttrInv, phase = "restore", pos <= Len(archive)
    PROVE  /\ pos \in 1 .. Len(archive) /\ Len(archive) \in Nat /\ Readable(archive[pos])
           /\ archreader_read_dico(archive[pos]) = archive[pos].items
           /\ \E k \in 1 .. Len(job.tree) :
                 /\ HeaderOf(archive[pos], job.tree[k])
                 /\ Entry(dico_get_generic(archive[pos].items, "STDATTR", "PATH")) = job.tree[k]
<1>1. JobType(job) BY JobFacts DEF AttrInv, AttributesTypeOK
<1>2. Len(archive) \in Nat /\ cur = Len(job.tree) + 1 BY DEF AttrInv, ArchiveInv, IsSeq
<1>3. pos \in 1 .. Len(archive)
   <2>1. pos \in 1 .. Len(archive) + 1 BY DEF AttrInv, AttributesTypeOK
   <2> QED BY <1>2, <2>1
<1>4. Len(job.tree) \in Nat BY <1>1 DEF JobType, TreeType
<1>5. 1 .. cur - 1 = 1 .. Len(job.tree) BY <1>2, <1>4
<1>6. PICK h : h = archive[pos] OBVIOUS
<1>7. PICK k \in 1 .. Len(job.tree) : HeaderOf(h, job.tree[k]) BY <1>3, <1>5, <1>6 DEF AttrInv, ArchiveInv
<1>8. Readable(h) BY <1>7 DEF HeaderOf, Readable
<1>9. IsDico(h.items, job.tree[k]) /\ h.count = Len(h.items) BY <1>7 DEF HeaderOf
<1>10. archreader_read_dico(h) = h.items BY <1>9, SubSeqAll DEF archreader_read_dico, IsDico
<1>11. dico_get_generic(h.items, "STDATTR", "PATH") = job.tree[k].path BY <1>9, StdItems
<1>12. Entry(job.tree[k].path) = job.tree[k] BY <1>1, EntryFacts
<1> QED BY <1>2, <1>3, <1>6, <1>7, <1>8, <1>10, <1>11, <1>12

\* What comes before an entry in the tree has been restored, or has failed.
LEMMA EarlierFacts ==
    ASSUME AttrInv, phase = "restore", pos <= Len(archive),
           NEW k \in 1 .. Len(job.tree), HeaderOf(archive[pos], job.tree[k]), NEW l \in 1 .. k - 1
    PROVE  job.tree[l].path \in counted \cup Failed
<1>1. JobType(job) BY JobFacts DEF AttrInv, AttributesTypeOK
<1>2. Len(job.tree) \in Nat /\ l \in 1 .. Len(job.tree) /\ l < k BY <1>1 DEF JobType, TreeType
<1>3. pos \in 1 .. Len(archive) /\ Len(archive) \in Nat /\ cur = Len(job.tree) + 1
   BY RestHeader DEF AttrInv, ArchiveInv
<1>4. l \in 1 .. cur - 1 BY <1>2, <1>3
<1>5. CASE job.tree[l].path \in saveerr BY <1>5 DEF Failed
<1>6. CASE \E i \in 1 .. Len(archive) : PathOf(archive[i]) = job.tree[l].path
   <2>1. PICK i \in 1 .. Len(archive) : PathOf(archive[i]) = job.tree[l].path BY <1>6
   <2>2. PICK h : h = archive[pos] OBVIOUS
   <2>3. PathOf(h) = job.tree[k].path /\ \A m \in 1 .. Len(job.tree) : PathOf(h) = job.tree[m].path => m = k
      BY <1>1, <2>2, HeaderEntry
   <2>4. i # pos BY <1>2, <2>1, <2>2, <2>3
   <2>5. ~(pos < i)
      <3> SUFFICES ASSUME pos < i PROVE FALSE OBVIOUS
      <3>1. k < l BY <1>2, <1>3, <2>1, <2>2, <2>3 DEF AttrInv, ArchiveInv
      <3> QED BY <1>2, <3>1
   <2>6. i \in 1 .. pos - 1 BY <1>3, <2>4, <2>5
   <2>7. PathOf(archive[i]) \in counted \cup resterr BY <2>6 DEF AttrInv, RestInv
   <2> QED BY <2>1, <2>7 DEF Failed
<1> QED BY <1>4, <1>5, <1>6 DEF AttrInv, ArchiveInv

-----------------------------------------------------------------------------
(* What the steps of the restoration of an object do to the objects that are *)
(* there                                                                     *)

\* The path of an inode leads to it.
LEMMA DestFacts ==
    ASSUME JobType(job), NEW f, IsFs(f), NEW p \in DOMAIN f.dest
    PROVE  p \in Paths /\ Entry(p).ino \in DOMAIN f.ino /\ f.dest[p] = Entry(p).ino
BY DEF IsFs

\* An inode of the destination is one of the tree.
LEMMA InoFacts ==
    ASSUME JobType(job), NEW f, IsFs(f), NEW i \in DOMAIN f.ino
    PROVE  i \in Paths /\ i \in DOMAIN job.inodes /\ Entry(i).ino = i
<1>1. i \in DOMAIN f.dest /\ i \in Paths /\ f.dest[i] = i /\ f.dest[i] = Entry(i).ino
  BY DEF IsFs
<1> QED BY <1>1, InodeFacts

\* New objects are as they were created.
LEMMA GrowsKept ==
    ASSUME JobType(job), NEW f, IsFs(f), NEW g, NEW new, Grows(f, g, new),
           NEW C, C \subseteq DOMAIN f.dest, NEW F, KeptIn(f, C, F)
    PROVE  KeptIn(g, C, F)
<1> SUFFICES ASSUME NEW i \in DOMAIN g.ino
             PROVE  /\ \A n \in Names : g.ino[i].xattr[n] = None \/ FromSource(i, n, g.ino[i].xattr[n])
                    /\ (\A q \in F : Entry(q).ino # i) =>
                          IF \E q \in C : Entry(q).ino = i THEN Kept(i, g.ino[i]) ELSE Untouched(g.ino[i])
  BY DEF KeptIn
<1>1. CASE i \in DOMAIN f.ino
  <2>1. /\ g.ino[i].mode = f.ino[i].mode /\ g.ino[i].owner = f.ino[i].owner
        /\ g.ino[i].xattr = f.ino[i].xattr
        /\ Entry(i).kind # "DIR" => g.ino[i].mtime = f.ino[i].mtime
    BY <1>1 DEF Grows, Alike
  <2>2. Kept(i, f.ino[i]) => Kept(i, g.ino[i])
    BY <2>1 DEF Kept
  <2>3. Untouched(f.ino[i]) => Untouched(g.ino[i])
    BY <2>1 DEF Untouched
  <2> QED BY <1>1, <2>1, <2>2, <2>3 DEF KeptIn
<1>2. CASE i \notin DOMAIN f.ino
  <2>1. g.ino[i] = Fresh
    BY <1>2 DEF Grows
  <2>2. \A q \in C : Entry(q).ino # i
    BY <1>2, DestFacts
  <2> QED BY <2>1, <2>2, FreshFacts DEF Untouched
<1> QED BY <1>1, <1>2

\* A new path changes the time of a directory only if it is a path in it.
LEMMA GrowsTimes ==
    ASSUME JobType(job), NEW f, IsFs(f), NEW g, NEW new, Grows(f, g, new),
           NEW C, C \subseteq DOMAIN f.dest, NEW F, new \subseteq F, TimesIn(f, C, F)
    PROVE  TimesIn(g, C, F)
<1> SUFFICES ASSUME NEW c \in C \ (F \cup {Root}), Entry(c).kind = "DIR", Children(c) \cap F = {}
             PROVE  g.ino[c].mtime = Carried(job.inodes[c].mtime)
  BY DEF TimesIn
<1>1. c \in Paths /\ c \in DOMAIN f.ino
  BY DestFacts, InodeFacts
<1>2. new \subseteq Paths
  BY DEF Grows, IsFs
<1>3. \A q \in new : Entry(q).parent # c
  BY <1>2 DEF Children
<1>4. g.ino[c].mtime = f.ino[c].mtime
  BY <1>1, <1>3 DEF Grows
<1> QED BY <1>4 DEF TimesIn

\* More failures excuse more.
LEMMA MoreFailed ==
    ASSUME NEW f, NEW C, NEW F, NEW G, F \subseteq G
    PROVE  /\ KeptIn(f, C, F) => KeptIn(f, C, G)
           /\ TimesIn(f, C, F) => TimesIn(f, C, G)
<1>1. KeptIn(f, C, F) => KeptIn(f, C, G)
  BY DEF KeptIn
<1>2. TimesIn(f, C, F) => TimesIn(f, C, G)
  BY DEF TimesIn
<1> QED BY <1>1, <1>2

\* The inode of a path is not that of another directory.
LEMMA OtherDir ==
    ASSUME JobType(job), NEW p \in Paths, NEW c \in Paths, Entry(c).kind = "DIR", c # p
    PROVE  Entry(p).ino # c
BY InodeFacts

\* Of an attribute that has not changed there is one value.
LEMMA OneValue ==
    ASSUME SourceInv, NEW i \in DOMAIN job.inodes, NEW n \in Names, Unchanged(i, n),
           NEW v, FromSource(i, n, v)
    PROVE  v = job.inodes[i].xattr[n]
<1>1. PICK x : x = job.inodes[i].xattr[n]
  OBVIOUS
<1>2. seen[i][n] = {x}
  BY <1>1 DEF Unchanged
<1>3. ~MayOverrun(i, n)
  <2> SUFFICES ASSUME x.size > 0, x.size = 0 \/ x = None
               PROVE  FALSE
    BY <1>2 DEF MayOverrun
  <2> QED BY DEF None
<1> QED BY <1>1, <1>2, <1>3 DEF FromSource

\* Attributes that are applied in part: the path counts as failed.
LEMMA SetAttrFails ==
    ASSUME JobType(job), NEW f, IsFs(f), NEW p \in DOMAIN f.dest, NEW C, NEW F,
           KeptIn(f, C, F), TimesIn(f, C, F), p \in F, C \subseteq DOMAIN f.dest,
           NEW d, IsDico(d, Entry(p)), NEW nochown, NEW refused,
           NEW a, a = restore_attr_everything(f.ino[Entry(p).ino], Entry(p).kind, d, nochown, refused),
           NEW g, g = SetAttr(f, p, a)
    PROVE  IsFs(g) /\ g.dest = f.dest /\ KeptIn(g, C, F) /\ TimesIn(g, C, F)
<1>1. p \in Paths /\ Entry(p).ino \in DOMAIN f.ino
  BY DestFacts
<1>2. IsAttr(f.ino[Entry(p).ino])
  BY <1>1 DEF IsFs
<1>3. /\ IsAttr(a)
      /\ \A n \in Names : \/ a.xattr[n] \in {f.ino[Entry(p).ino].xattr[n], None}
                          \/ FromSource(Entry(p).ino, n, a.xattr[n])
  BY <1>2, EverythingFacts
<1>4. /\ IsFs(g) /\ g.dest = f.dest /\ DOMAIN g.ino = DOMAIN f.ino
      /\ g.ino[Entry(p).ino] = a
      /\ \A i \in DOMAIN f.ino : i # Entry(p).ino => g.ino[i] = f.ino[i]
  BY <1>3, SetAttrFacts
<1>5. KeptIn(g, C, F)
  <2> SUFFICES ASSUME NEW i \in DOMAIN f.ino
               PROVE  /\ \A n \in Names : g.ino[i].xattr[n] = None \/ FromSource(i, n, g.ino[i].xattr[n])
                      /\ (\A q \in F : Entry(q).ino # i) =>
                            IF \E q \in C : Entry(q).ino = i THEN Kept(i, g.ino[i]) ELSE Untouched(g.ino[i])
    BY <1>4 DEF KeptIn
  <2>1. CASE i = Entry(p).ino
    <3>1. \A n \in Names : f.ino[i].xattr[n] = None \/ FromSource(i, n, f.ino[i].xattr[n])
      BY DEF KeptIn
    <3> QED BY <2>1, <3>1, <1>3, <1>4
  <2>2. CASE i # Entry(p).ino
    <3>1. g.ino[i] = f.ino[i]
      BY <2>2, <1>4
    <3> QED BY <3>1 DEF KeptIn
  <2> QED BY <2>1, <2>2
<1>6. TimesIn(g, C, F)
  <2> SUFFICES ASSUME NEW c \in C \ (F \cup {Root}), Entry(c).kind = "DIR", Children(c) \cap F = {}
               PROVE  g.ino[c].mtime = Carried(job.inodes[c].mtime)
    BY DEF TimesIn
  <2>1. f.ino[c].mtime = Carried(job.inodes[c].mtime)
    BY DEF TimesIn
  <2>2. c \in Paths /\ c \in DOMAIN f.ino
    BY DestFacts, InodeFacts
  <2>3. g.ino[c] = f.ino[c]
    BY <1>1, <1>4, <2>2, OtherDir
  <2> QED BY <2>1, <2>3
<1> QED BY <1>4, <1>5, <1>6

\* Destination g is f after the inode of path p got all its attributes.
WellSet(g, f, p, C, F) ==
    /\ IsFs(g) /\ g.dest = f.dest /\ DOMAIN g.ino = DOMAIN f.ino
    /\ KeptIn(g, C \cup {p}, F)
    /\ g.ino[Entry(p).ino].mtime = Carried(job.inodes[Entry(p).ino].mtime)
    /\ \A i \in DOMAIN f.ino : i # Entry(p).ino => g.ino[i] = f.ino[i]

\* Attributes that are applied completely: the path is counted.
LEMMA SetAttrKept ==
    ASSUME JobType(job), SourceInv, NEW f, IsFs(f), NEW p \in DOMAIN f.dest, NEW C, NEW F,
           KeptIn(f, C, F), C \subseteq DOMAIN f.dest,
           NEW d, IsDico(d, Entry(p)), Complete(d, Entry(p), {}),
           NEW nochown, ~nochown, NEW refused, refused = {},
           NEW a, a = restore_attr_everything(f.ino[Entry(p).ino], Entry(p).kind, d, nochown, refused),
           NEW g, g = SetAttr(f, p, a)
    PROVE  WellSet(g, f, p, C, F)
<1> DEFINE j == Entry(p).ino
           b == f.ino[j]
<1>1. p \in Paths /\ j \in DOMAIN f.ino /\ j \in DOMAIN job.inodes /\ Entry(j).ino = j
  BY DestFacts, InodeFacts
<1>2. IsAttr(b)
  BY <1>1 DEF IsFs
<1>a. IsAttr(a)
  BY <1>2, EverythingFacts
<1>3. /\ a.owner = job.inodes[j].owner /\ a.mtime = Carried(job.inodes[j].mtime)
      /\ a.mode = IF Entry(p).kind = "SYMLINK" THEN b.mode ELSE job.inodes[j].mode
      /\ \A n \in Names : \/ a.xattr[n] \in {b.xattr[n], None} /\ ~Has(d, n)
                          \/ FromSource(j, n, a.xattr[n])
  <2>1. PICK c, e, k : c = b /\ e = Entry(p) /\ k = Entry(p).kind
    OBVIOUS
  <2>2. IsAttr(c) /\ IsDico(d, e) /\ a = restore_attr_everything(c, k, d, nochown, refused)
    BY <1>2, <2>1
  <2>3. ~nochown /\ refused = {} => Applied(a, c, k, d, e)
    BY ONLY <2>2, EverythingFacts
  <2>4. Applied(a, c, k, d, e)
    BY <2>3
  <2> QED BY <2>1, <2>4 DEF Applied
<1>4. /\ IsFs(g) /\ g.dest = f.dest /\ DOMAIN g.ino = DOMAIN f.ino
      /\ g.ino[j] = a
      /\ \A i \in DOMAIN f.ino : i # j => g.ino[i] = f.ino[i]
  BY <1>a, SetAttrFacts
<1>5. /\ \A n \in Names : b.xattr[n] = None \/ FromSource(j, n, b.xattr[n])
      /\ (\A q \in F : Entry(q).ino # j) => Kept(j, b) \/ Untouched(b)
  BY <1>1 DEF KeptIn
<1>6. ASSUME \A q \in F : Entry(q).ino # j
      PROVE  Kept(j, a)
  <2>1. a.mode = job.inodes[j].mode
    <3>1. CASE Entry(p).kind = "SYMLINK"
      <4>1. job.inodes[j].mode = "plain"
        <5>1. PICK k \in 1 .. Len(job.tree) : Entry(p) = job.tree[k]
          BY <1>1, PathFacts
        <5>2. job.tree[k].kind = "SYMLINK" => job.inodes[job.tree[k].ino].mode = "plain"
          BY DEF JobType
        <5> QED BY <5>1, <5>2, <3>1
      <4>2. b.mode = "plain"
        BY <1>5, <1>6, <4>1 DEF Kept, Untouched
      <4> QED BY <3>1, <1>3, <4>1, <4>2
    <3> QED BY <1>3, <3>1
  <2>2. ASSUME Listable(j), NEW n \in Names, Unchanged(j, n)
        PROVE  a.xattr[n] = job.inodes[j].xattr[n]
    <3>1. CASE FromSource(j, n, a.xattr[n])
      BY <3>1, <1>1, <2>2, OneValue
    <3>2. CASE a.xattr[n] \in {b.xattr[n], None} /\ ~Has(d, n)
      <4>1. n \notin OldNames(j)
        BY <2>2, <3>2 DEF Complete
      <4>2. job.inodes[j].xattr[n] = None
        BY <4>1 DEF OldNames
      <4>3. FromSource(j, n, b.xattr[n]) => b.xattr[n] = None
        BY <4>2, <1>1, <2>2, OneValue
      <4> QED BY <3>2, <4>2, <4>3, <1>5
    <3> QED BY <1>3, <3>1, <3>2
  <2> QED BY <2>1, <2>2, <1>3 DEF Kept
<1>7. KeptIn(g, C \cup {p}, F)
  <2> SUFFICES ASSUME NEW i \in DOMAIN f.ino
               PROVE  /\ \A n \in Names : g.ino[i].xattr[n] = None \/ FromSource(i, n, g.ino[i].xattr[n])
                      /\ (\A q \in F : Entry(q).ino # i) =>
                            IF \E q \in C \cup {p} : Entry(q).ino = i THEN Kept(i, g.ino[i]) ELSE Untouched(g.ino[i])
    BY <1>4 DEF KeptIn
  <2>1. CASE i = j
    BY <2>1, <1>3, <1>4, <1>5, <1>6
  <2>2. CASE i # j
    <3>1. g.ino[i] = f.ino[i]
      BY <2>2, <1>4
    <3>2. (\E q \in C \cup {p} : Entry(q).ino = i) <=> (\E q \in C : Entry(q).ino = i)
      BY <2>2
    <3> QED BY <3>1, <3>2 DEF KeptIn
  <2> QED BY <2>1, <2>2
<1> QED BY <1>3, <1>4, <1>7 DEF WellSet

\* The time of a directory is no part of what is kept.
LEMMA UtimesKept ==
    ASSUME JobType(job), NEW f, IsFs(f), NEW q \in DOMAIN f.dest, Entry(q).kind = "DIR", NEW t,
           NEW C, NEW F, KeptIn(f, C, F), NEW g, g = Utimes(f, q, t)
    PROVE  KeptIn(g, C, F)
<1>1. /\ IsFs(g) /\ DOMAIN g.ino = DOMAIN f.ino /\ Entry(q).ino = q
      /\ Alike(g.ino[q], f.ino[q])
      /\ \A i \in DOMAIN f.ino : i # q => g.ino[i] = f.ino[i]
  BY UtimesFacts, DestFacts, InodeFacts
<1> SUFFICES ASSUME NEW i \in DOMAIN f.ino
             PROVE  /\ \A n \in Names : g.ino[i].xattr[n] = None \/ FromSource(i, n, g.ino[i].xattr[n])
                    /\ (\A x \in F : Entry(x).ino # i) =>
                          IF \E x \in C : Entry(x).ino = i THEN Kept(i, g.ino[i]) ELSE Untouched(g.ino[i])
  BY <1>1 DEF KeptIn
<1>2. /\ g.ino[i].mode = f.ino[i].mode /\ g.ino[i].owner = f.ino[i].owner
      /\ g.ino[i].xattr = f.ino[i].xattr
      /\ Entry(i).kind # "DIR" => g.ino[i].mtime = f.ino[i].mtime
  BY <1>1 DEF Alike
<1>3. Kept(i, f.ino[i]) => Kept(i, g.ino[i])
  BY <1>2 DEF Kept
<1>4. Untouched(f.ino[i]) => Untouched(g.ino[i])
  BY <1>2 DEF Untouched
<1> QED BY <1>2, <1>3, <1>4 DEF KeptIn

-----------------------------------------------------------------------------
(* The restoration of an object *)

\* What other programs do to the source does not undo what is restored.
LEMMA SteadyKept ==
    ASSUME Steady, JobType(job), NEW f, IsFs(f), NEW C, NEW F, KeptIn(f, C, F), TimesIn(f, C, F)
    PROVE  IsFs(f)' /\ KeptIn(f, C, F)' /\ TimesIn(f, C, F)'
<1>1. job' = job
  BY DEF Steady
<1>2. /\ Root' = Root /\ Paths' = Paths
      /\ \A q : Entry(q)' = Entry(q)
      /\ \A q : Children(q)' = Children(q)
  BY <1>1 DEF Root, Paths, Entry, Children
<1>3. IsFs(f)'
  BY <1>2 DEF IsFs, IsAttr
<1>4. TimesIn(f, C, F)'
  BY <1>1, <1>2 DEF TimesIn
<1>5. KeptIn(f, C, F)'
  <2> SUFFICES ASSUME NEW i \in DOMAIN f.ino
               PROVE  (/\ \A n \in Names : f.ino[i].xattr[n] = None \/ FromSource(i, n, f.ino[i].xattr[n])
                       /\ (\A q \in F : Entry(q).ino # i) =>
                             IF \E q \in C : Entry(q).ino = i THEN Kept(i, f.ino[i]) ELSE Untouched(f.ino[i]))'
    BY DEF KeptIn
  <2>1. i \in DOMAIN job.inodes
    BY InoFacts
  <2>2. \A n \in Names : \A v : FromSource(i, n, v) => FromSource(i, n, v)'
    BY <2>1, SteadySource
  <2>3. \A n \in Names : Unchanged(i, n)' => Unchanged(i, n)
    BY <2>1, SteadySource
  <2>4. Listable(i)' => Listable(i)
    BY <2>1, SteadySource
  <2>5. PICK a : a = f.ino[i]
    OBVIOUS
  <2>6. Kept(i, a) => Kept(i, a)'
    BY <1>1, <1>2, <2>3, <2>4 DEF Kept
  <2>7. /\ \A n \in Names : a.xattr[n] = None \/ FromSource(i, n, a.xattr[n])
        /\ (\A q \in F : Entry(q).ino # i) =>
              IF \E q \in C : Entry(q).ino = i THEN Kept(i, a) ELSE Untouched(a)
    BY <2>5 DEF KeptIn
  <2>8. /\ \A n \in Names : a.xattr[n] = None \/ FromSource(i, n, a.xattr[n])'
        /\ (\A q \in F : Entry(q)'.ino # i) =>
              IF \E q \in C : Entry(q)'.ino = i THEN Kept(i, a)' ELSE Untouched(a)
    BY <2>2, <2>6, <2>7, <1>2
  <2> QED BY <2>5, <2>8
<1> QED BY <1>3, <1>4, <1>5

\* The parts of the invariant that say what the destination is like
FsInv(f, done, failed) ==
    /\ IsFs(f) /\ done \subseteq DOMAIN f.dest
    /\ KeptIn(f, done, failed) /\ TimesIn(f, done, failed)

\* The file that a hard link leads to is there.
Linkable(f, e) == e.kind = "HARDLINK" => e.ino \in DOMAIN f.dest

\* Every step keeps what is known of the inodes of the destination.
LEMMA FsStep ==
    ASSUME Steady, JobType(job), NEW f, NEW C, NEW F, FsInv(f, C, F),
           f = fs', C = counted', F = Failed'
    PROVE  FsInv(fs, counted, Failed)'
<1>1. FsInv(f, C, F)'
  BY SteadyKept DEF FsInv
<1> QED BY <1>1

\* The invariant of the destination while the object of a header is restored
LEMMA RestFacts ==
    ASSUME AttrInv
    PROVE  /\ JobType(job) /\ SourceInv
           /\ FsInv(fs, counted, Failed)
BY JobFacts DEF AttrInv, AttributesTypeOK, RestInv, FsInv

\* The directories that mkdir_recursive() creates are those of objects that failed.
LEMMA ParentFacts ==
    ASSUME AttrInv, phase = "restore", pos <= Len(archive),
           NEW k \in 1 .. Len(job.tree), HeaderOf(archive[pos], job.tree[k]),
           NEW p, p = job.tree[k].path, NEW f, f = mkdir_recursive(fs, Entry(p).parent)
    PROVE  /\ FsInv(f, counted, Failed)
           /\ Entry(p).dirs \subseteq DOMAIN f.dest
           /\ DOMAIN fs.dest \subseteq DOMAIN f.dest
<1>1. JobType(job) /\ IsFs(fs) /\ KeptIn(fs, counted, Failed) /\ TimesIn(fs, counted, Failed)
      /\ counted \subseteq DOMAIN fs.dest
  BY RestFacts DEF FsInv
<1>2. p \in Paths /\ Entry(p) = job.tree[k]
  BY <1>1, EntryFacts
<1>3. PICK dir : dir = Entry(p).parent
  OBVIOUS
<1>4. /\ dir \in Paths /\ Entry(dir).kind = "DIR"
      /\ Entry(p).dirs = Entry(dir).dirs \cup {dir}
  BY <1>1, <1>2, <1>3, DirFacts
<1>5. PICK new : new = Entry(p).dirs \ DOMAIN fs.dest
  OBVIOUS
<1>6. Grows(fs, f, new)
  BY <1>1, <1>3, <1>4, <1>5, MkdirFacts
<1>7. new \subseteq Failed
  <2> SUFFICES ASSUME NEW q \in new
               PROVE  q \in Failed
    OBVIOUS
  <2>1. q \in job.tree[k].dirs \ {Root} /\ q \notin counted
    BY <1>1, <1>2, <1>5 DEF IsFs
  <2>2. PICK l \in 1 .. k - 1 : job.tree[l].path = q
    BY <1>1, <2>1, OrderFacts
  <2> QED BY <2>1, <2>2, EarlierFacts
<1>8. DOMAIN f.dest = DOMAIN fs.dest \cup new /\ IsFs(f)
  BY <1>6 DEF Grows
<1>9. KeptIn(f, counted, Failed)
  BY <1>1, <1>6, GrowsKept
<1>10. TimesIn(f, counted, Failed)
  BY <1>1, <1>6, <1>7, GrowsTimes
<1> QED BY <1>1, <1>5, <1>8, <1>9, <1>10 DEF FsInv

\* A step that fails after the object was created
LEMMA LateFacts ==
    ASSUME JobType(job), NEW f, NEW C, NEW F, FsInv(f, C, F),
           NEW p \in Paths, Entry(p).dirs \subseteq DOMAIN f.dest,
           Linkable(f, Entry(p)),
           NEW d, IsDico(d, Entry(p)), NEW nochown, NEW refused,
           NEW f2, f2 = restore_create(f, Entry(p)),
           NEW a, a = restore_attr_everything(Attr(f2, p), Entry(p).kind, d, nochown, refused),
           NEW g, g = SetAttr(f2, p, a)
    PROVE  FsInv(g, C, F \cup {p})
<1>1. IsFs(f) /\ C \subseteq DOMAIN f.dest /\ KeptIn(f, C, F) /\ TimesIn(f, C, F)
  BY DEF FsInv
<1>2. PICK new \in SUBSET {p} : Grows(f, f2, new) /\ p \in DOMAIN f2.dest
  BY <1>1, RestoreCreateFacts DEF Linkable
<1>3. IsFs(f2) /\ C \subseteq DOMAIN f2.dest
  BY <1>1, <1>2 DEF Grows
<1>4. PICK G : G = F \cup {p}
  OBVIOUS
<1>5. KeptIn(f2, C, G)
  BY <1>1, <1>2, <1>4, GrowsKept, MoreFailed
<1>6. TimesIn(f, C, G)
  BY <1>1, <1>4, MoreFailed
<1>7. new \subseteq G
  BY <1>4
<1>8. TimesIn(f2, C, G)
  BY <1>1, <1>2, <1>6, <1>7, GrowsTimes
<1>9. Attr(f2, p) = f2.ino[Entry(p).ino]
  BY <1>2, <1>3, DestFacts DEF Attr
<1>10. IsFs(g) /\ g.dest = f2.dest /\ KeptIn(g, C, G) /\ TimesIn(g, C, G)
  BY <1>2, <1>3, <1>4, <1>5, <1>8, <1>9, SetAttrFails
<1> QED BY <1>3, <1>4, <1>10 DEF FsInv

\* An object that is restored completely: the time of its directory is put back.
LEMMA CompleteFacts ==
    ASSUME JobType(job), SourceInv, NEW f, NEW C, NEW F, FsInv(f, C, F),
           NEW p \in Paths, Entry(p).dirs \subseteq DOMAIN f.dest,
           Linkable(f, Entry(p)),
           NEW d, IsDico(d, Entry(p)), Complete(d, Entry(p), {}),
           NEW nochown, ~nochown, NEW refused, refused = {},
           NEW f2, f2 = restore_create(f, Entry(p)),
           NEW a, a = restore_attr_everything(Attr(f2, p), Entry(p).kind, d, nochown, refused),
           NEW f3, f3 = SetAttr(f2, p, a),
           NEW dir, dir = Entry(p).parent,
           NEW g, g = Utimes(f3, dir, get_parent_dir_time(f, dir))
    PROVE  FsInv(g, C \cup {p}, F)
<1>1. IsFs(f) /\ C \subseteq DOMAIN f.dest /\ KeptIn(f, C, F) /\ TimesIn(f, C, F)
  BY DEF FsInv
<1>2. PICK new \in SUBSET {p} : Grows(f, f2, new) /\ p \in DOMAIN f2.dest
  BY <1>1, RestoreCreateFacts DEF Linkable
<1>3. IsFs(f2) /\ C \subseteq DOMAIN f2.dest /\ DOMAIN f.dest \subseteq DOMAIN f2.dest
  BY <1>1, <1>2 DEF Grows
<1>4. KeptIn(f2, C, F)
  BY <1>1, <1>2, GrowsKept
<1>5. Attr(f2, p) = f2.ino[Entry(p).ino]
  BY <1>2, <1>3, DestFacts DEF Attr
<1>6. /\ IsFs(f3) /\ f3.dest = f2.dest /\ DOMAIN f3.ino = DOMAIN f2.ino
      /\ KeptIn(f3, C \cup {p}, F)
      /\ f3.ino[Entry(p).ino].mtime = Carried(job.inodes[Entry(p).ino].mtime)
      /\ \A i \in DOMAIN f2.ino : i # Entry(p).ino => f3.ino[i] = f2.ino[i]
  <2>1. a = restore_attr_everything(f2.ino[Entry(p).ino], Entry(p).kind, d, nochown, refused)
    BY <1>5
  <2>2. WellSet(f3, f2, p, C, F)
    BY <1>2, <1>3, <1>4, <2>1, SetAttrKept
  <2> QED BY <2>2 DEF WellSet
<1>7. /\ dir \in Paths /\ Entry(dir).kind = "DIR" /\ Entry(dir).ino = dir
      /\ p # Root => dir # p
      /\ dir \in DOMAIN f.dest
  <2>1. dir \in Paths /\ Entry(dir).kind = "DIR" /\ (p # Root => dir # p) /\ dir \in Entry(p).dirs
    BY DirFacts
  <2> QED BY <2>1, InodeFacts
<1>8. PICK t : t = get_parent_dir_time(f, dir)
  OBVIOUS
<1>9. t = [f.ino[dir].mtime EXCEPT !.frac = 0]
  BY <1>1, <1>7, <1>8, DestFacts DEF Attr, get_parent_dir_time
<1>10. dir \in DOMAIN f3.dest
  BY <1>3, <1>6, <1>7
<1>11. /\ IsFs(g) /\ g.dest = f3.dest /\ DOMAIN g.ino = DOMAIN f3.ino
       /\ g.ino[dir].mtime = t
       /\ \A i \in DOMAIN f3.ino : i # dir => g.ino[i] = f3.ino[i]
  BY <1>6, <1>7, <1>8, <1>10, UtimesFacts
<1>12. KeptIn(g, C \cup {p}, F)
  BY <1>6, <1>7, <1>8, <1>10, UtimesKept
<1>13. TimesIn(g, C \cup {p}, F)
  <2> SUFFICES ASSUME NEW c \in (C \cup {p}) \ (F \cup {Root}), Entry(c).kind = "DIR", Children(c) \cap F = {}
               PROVE  g.ino[c].mtime = Carried(job.inodes[c].mtime)
    BY DEF TimesIn
  <2>1. c \in Paths /\ Entry(c).ino = c /\ c \in DOMAIN f3.ino
    <3>1. c \in DOMAIN f2.dest /\ c \in Paths
      BY <1>2, <1>3, DestFacts
    <3> QED BY <3>1, <1>3, <1>6, InodeFacts, DestFacts
  <2>2. c \in C => f.ino[c].mtime = Carried(job.inodes[c].mtime)
    BY <1>1 DEF TimesIn
  <2>3. CASE c = dir
    <3>1. f.ino[dir].mtime = AtSecond(u32(job.inodes[c].mtime))
      BY <2>2, <2>3, <1>7 DEF Carried
    <3>2. t = AtSecond(u32(job.inodes[c].mtime))
      BY <1>9, <3>1 DEF AtSecond
    <3> QED BY <2>3, <1>11, <3>2 DEF Carried
  <2>4. CASE c # dir /\ c = p
    BY <2>1, <2>4, <1>6, <1>11
  <2>5. CASE c # dir /\ c # p
    <3>1. g.ino[c] = f2.ino[c]
      BY <2>1, <2>5, <1>6, <1>11, OtherDir
    <3>2. \A q \in new : Entry(q).parent # c
      BY <2>5
    <3>3. c \in C /\ c \in DOMAIN f.ino
      BY <1>1, <2>1, <2>5, DestFacts
    <3>4. f2.ino[c].mtime = f.ino[c].mtime
      BY <1>2, <3>2, <3>3 DEF Grows
    <3> QED BY <2>2, <3>1, <3>3, <3>4
  <2> QED BY <2>3, <2>4, <2>5
<1>14. C \cup {p} \subseteq DOMAIN g.dest
  BY <1>2, <1>3, <1>6, <1>11
<1> QED BY <1>11, <1>12, <1>13, <1>14 DEF FsInv

\* The outcomes of restore_object(): it fails before the object is created, or
\* after it, or it succeeds.
EarlyFails(e, f) ==
    /\ fs' = f /\ counted' = counted /\ resterr' = resterr \cup {e.path}
    /\ \/ e.kind = "HARDLINK" /\ ~Exists(f, e.ino) /\ faults' = faults
       \/ faults < MaxFaults /\ faults' = faults + 1

Created(e, d, f, nochown, refused, f2, a, f3) ==
    /\ e.kind = "HARDLINK" => Exists(f, e.ino)
    /\ f2 = restore_create(f, e)
    /\ a = restore_attr_everything(Attr(f2, e.path), e.kind, d, nochown, refused)
    /\ f3 = SetAttr(f2, e.path, a)

LateFails(e, d, f3) ==
    /\ fs' = f3 /\ counted' = counted /\ resterr' = resterr \cup {e.path}
    /\ \/ faults < MaxFaults /\ faults' = faults + 1
       \/ Stored(d) # Pairs(d) /\ faults' = faults

Succeeds(e, f, f3, nochown, refused) ==
    /\ ~nochown /\ refused = {}
    /\ fs' = Utimes(f3, e.parent, get_parent_dir_time(f, e.parent))
    /\ counted' = counted \cup {e.path} /\ resterr' = resterr /\ faults' = faults

\* The ways in which the restore of one object ends
LEMMA RestoreCases ==
    ASSUME NEW e, NEW d, restore_object(e, d), extract_dirpath(e.path) = e.parent,
           NEW f, f = mkdir_recursive(fs, e.parent)
    PROVE  \/ EarlyFails(e, f)
           \/ \E nochown, refused, f2, a, f3 :
                 /\ Created(e, d, f, nochown, refused, f2, a, f3)
                 /\ LateFails(e, d, f3) \/ Succeeds(e, f, f3, nochown, refused)
<1> DEFINE dir == e.parent
           tv == get_parent_dir_time(f, dir)
           linkable == e.kind = "HARDLINK" => Exists(f, e.ino)
           F2 == restore_create(f, e)
           A(nochown, refused) == restore_attr_everything(Attr(F2, e.path), e.kind, d, nochown, refused)
           F3(nochown, refused) == SetAttr(F2, e.path, A(nochown, refused))
           Early == /\ ~linkable \/ Fault("create")
                    /\ fs' = f
                    /\ resterr' = resterr \cup {e.path}
                    /\ faults' = IF linkable THEN faults + 1 ELSE faults
                    /\ UNCHANGED counted
           Chowns == IF Fault("lchown") THEN BOOLEAN ELSE {FALSE}
           Refusals(nochown) == IF Fault("lsetxattr") /\ ~nochown
                                THEN {{}} \cup {{i} : i \in Stored(d)} ELSE {{}}
           Rest(nochown, refused) ==
               /\ faults' = IF nochown \/ refused # {} THEN faults + 1 ELSE faults
               /\ IF nochown \/ refused # {} \/ Stored(d) # Pairs(d)
                  THEN /\ fs' = F3(nochown, refused)
                       /\ resterr' = resterr \cup {e.path}
                       /\ UNCHANGED counted
                  ELSE /\ fs' = restore_parent(F3(nochown, refused), e, dir, tv)
                       /\ counted' = counted \cup {e.path}
                       /\ UNCHANGED resterr
<1>1. \/ Early
      \/ linkable /\ \E nochown \in Chowns : \E refused \in Refusals(nochown) : Rest(nochown, refused)
  BY DEF restore_object
<1>2. CASE Early
  BY <1>2 DEF EarlyFails, Fault
<1>3. CASE linkable /\ \E nochown \in Chowns : \E refused \in Refusals(nochown) : Rest(nochown, refused)
  <2>a. PICK nochown \in Chowns : \E refused \in Refusals(nochown) : Rest(nochown, refused)
    <3> HIDE DEF Chowns, Refusals, Rest, linkable
    <3> QED BY <1>3
  <2>1. PICK refused \in Refusals(nochown) : Rest(nochown, refused)
    <3> HIDE DEF Refusals, Rest
    <3> QED BY <2>a
  <2>2. Created(e, d, f, nochown, refused, F2, A(nochown, refused), F3(nochown, refused))
    BY <1>3 DEF Created
  <2>3. nochown \in BOOLEAN /\ (nochown \/ refused # {} => faults < MaxFaults)
    BY DEF Fault
  <2>4. CASE nochown \/ refused # {} \/ Stored(d) # Pairs(d)
    <3>1. LateFails(e, d, F3(nochown, refused))
      <4> HIDE DEF F3, A, F2, tv, dir, linkable
      <4> QED BY <2>1, <2>3, <2>4 DEF LateFails
    <3> HIDE DEF F3, A, F2, tv, dir, linkable
    <3> QED BY <2>2, <3>1
  <2>5. CASE ~(nochown \/ refused # {} \/ Stored(d) # Pairs(d))
    <3>1. Succeeds(e, f, F3(nochown, refused), nochown, refused)
      <4>1. fs' = Utimes(F3(nochown, refused), dir, tv)
        BY <2>1, <2>5 DEF restore_parent
      <4> HIDE DEF F3, A, F2
      <4> QED BY <2>1, <2>5, <4>1 DEF Succeeds
    <3> HIDE DEF F3, A, F2, tv, dir, linkable
    <3> QED BY <2>2, <3>1
  <2> QED BY <2>4, <2>5
<1> QED
  <2> HIDE DEF Early, Chowns, Refusals, Rest, linkable
  <2> QED BY <1>1, <1>2, <1>3

\* What the restoration of the object with path p does
Restored(p) ==
    /\ FsInv(fs', counted', saveerr \cup resterr')
    /\ p \in counted' \cup resterr' /\ counted \cup resterr \subseteq counted' \cup resterr'
    /\ counted' \cup resterr' \subseteq counted \cup resterr \cup {p}
    /\ faults' \in 0 .. MaxFaults
    /\ faults' = 0 /\ OnlyRemoved => resterr' = {}

\* rest_object in the terms of the lemmas above
LEMMA RestObject ==
    ASSUME AttrInv, rest_object
    PROVE  \E p \in Paths : Restored(p) /\ p = PathOf(archive[pos])
<1>1. phase = "restore" /\ pos <= Len(archive)
  BY DEF rest_object
<1>2. PICK k \in 1 .. Len(job.tree) :
         /\ HeaderOf(archive[pos], job.tree[k])
         /\ Entry(dico_get_generic(archive[pos].items, "STDATTR", "PATH")) = job.tree[k]
  BY <1>1, RestHeader
<1>3. PICK d : d = archive[pos].items
  OBVIOUS
<1>4. PICK p : p = job.tree[k].path
  OBVIOUS
<1>5. /\ JobType(job) /\ SourceInv /\ FsInv(fs, counted, Failed)
  BY RestFacts
<1>6. p \in Paths /\ Entry(p) = job.tree[k] /\ Entry(p).path = p
  BY <1>4, <1>5, EntryFacts
<1>7. IsDico(d, Entry(p)) /\ Complete(d, Entry(p), {})
  BY <1>2, <1>3, <1>6 DEF HeaderOf
<1>8. restore_object(Entry(p), d)
  BY <1>1, <1>2, <1>3, <1>6, RestHeader DEF rest_object
<1>9. p = PathOf(archive[pos])
  BY <1>2, <1>4, <1>5, HeaderEntry
<1>10. PICK f : f = mkdir_recursive(fs, Entry(p).parent)
  OBVIOUS
<1>11. /\ FsInv(f, counted, Failed)
       /\ Entry(p).dirs \subseteq DOMAIN f.dest
       /\ DOMAIN fs.dest \subseteq DOMAIN f.dest
  BY <1>1, <1>2, <1>4, <1>10, ParentFacts
<1>12. faults \in 0 .. MaxFaults /\ faults \in Nat /\ MaxFaults \in Nat
  BY AttributesAssumption DEF AttrInv, AttributesTypeOK
<1>13. faults = 0 /\ OnlyRemoved => resterr = {} /\ saveerr = {}
  BY DEF AttrInv, RestInv, ArchiveInv
<1>14. Stored(d) = Pairs(d)
  BY <1>7, XattrItems
<1>15. extract_dirpath(Entry(p).path) = Entry(p).parent
  BY <1>6 DEF extract_dirpath
<1>16. \/ EarlyFails(Entry(p), f)
       \/ \E nochown, refused, f2, a, f3 :
             /\ Created(Entry(p), d, f, nochown, refused, f2, a, f3)
             /\ LateFails(Entry(p), d, f3) \/ Succeeds(Entry(p), f, f3, nochown, refused)
  BY <1>8, <1>10, <1>15, RestoreCases
<1>17. PICK C, F : C = counted /\ F = Failed
  OBVIOUS
<1>18. F = saveerr \cup resterr
  BY <1>17 DEF Failed
<1>19. CASE EarlyFails(Entry(p), f)
  <2>1. fs' = f /\ counted' = C /\ resterr' = resterr \cup {p}
    BY <1>6, <1>17, <1>19 DEF EarlyFails
  <2>2. FsInv(f, C, F \cup {p})
    BY <1>11, <1>17, MoreFailed DEF FsInv
  <2>3. faults' \in 0 .. MaxFaults /\ ~(faults' = 0 /\ OnlyRemoved)
    <3>1. CASE faults < MaxFaults /\ faults' = faults + 1
      BY <3>1, <1>12
    <3>2. CASE Entry(p).kind = "HARDLINK" /\ ~Exists(f, Entry(p).ino) /\ faults' = faults
      <4>1. PICK l \in 1 .. k - 1 : job.tree[l].path = Entry(p).ino
        BY <1>5, <1>6, <3>2, OrderFacts
      <4>2. Entry(p).ino \in counted \cup Failed
        BY <1>1, <1>2, <4>1, EarlierFacts
      <4>3. Entry(p).ino \notin counted
        BY <1>11, <3>2 DEF Exists, FsInv
      <4> QED BY <1>12, <1>13, <4>2, <4>3, <3>2 DEF Failed
    <3> QED BY <3>1, <3>2, <1>19 DEF EarlyFails
  <2>4. F \cup {p} = saveerr \cup resterr'
    BY <1>18, <2>1
  <2>5. Restored(p)
    BY <1>11, <1>17, <2>1, <2>2, <2>3, <2>4 DEF Restored
  <2> QED BY <1>6, <1>9, <2>5
<1>20. CASE \E nochown, refused, f2, a, f3 :
             /\ Created(Entry(p), d, f, nochown, refused, f2, a, f3)
             /\ LateFails(Entry(p), d, f3) \/ Succeeds(Entry(p), f, f3, nochown, refused)
  <2>1. PICK nochown, refused, f2, a, f3 :
             /\ Created(Entry(p), d, f, nochown, refused, f2, a, f3)
             /\ LateFails(Entry(p), d, f3) \/ Succeeds(Entry(p), f, f3, nochown, refused)
    BY <1>20
  <2>2. /\ Linkable(f, Entry(p))
        /\ f2 = restore_create(f, Entry(p))
        /\ a = restore_attr_everything(Attr(f2, p), Entry(p).kind, d, nochown, refused)
        /\ f3 = SetAttr(f2, p, a)
    BY <1>6, <2>1 DEF Created, Exists, Linkable
  <2>3. FsInv(f, C, F)
    BY <1>11, <1>17
  <2>4. CASE LateFails(Entry(p), d, f3)
    <3>1. fs' = f3 /\ counted' = C /\ resterr' = resterr \cup {p} /\ faults < MaxFaults /\ faults' = faults + 1
      BY <1>6, <1>14, <1>17, <2>4 DEF LateFails
    <3>2. FsInv(f3, C, F \cup {p})
      BY ONLY <1>5, <1>6, <1>7, <1>11, <2>2, <2>3, LateFacts, Zenon
    <3>3. F \cup {p} = saveerr \cup resterr'
      BY <1>18, <3>1
    <3>4. faults' \in 0 .. MaxFaults /\ faults' # 0
      BY <3>1, <1>12
    <3>5. Restored(p)
      BY <1>17, <3>1, <3>2, <3>3, <3>4 DEF Restored
    <3> QED BY <1>6, <1>9, <3>5
  <2>5. CASE Succeeds(Entry(p), f, f3, nochown, refused)
    <3>1. PICK g, dir : g = fs' /\ dir = Entry(p).parent
      OBVIOUS
    <3>2. /\ ~nochown /\ refused = {}
          /\ g = Utimes(f3, dir, get_parent_dir_time(f, dir))
          /\ counted' = C \cup {p} /\ resterr' = resterr /\ faults' = faults
      BY <1>6, <1>17, <2>5, <3>1 DEF Succeeds
    <3>3. FsInv(g, C \cup {p}, F)
      <4>1. ~nochown
        BY <3>2
      <4>2. refused = {}
        BY <3>2
      <4>3. dir = Entry(p).parent
        BY <3>1
      <4>4. g = Utimes(f3, dir, get_parent_dir_time(f, dir))
        BY <3>2
      <4> QED BY ONLY <1>5, <1>6, <1>7, <1>11, <2>2, <2>3, <4>1, <4>2, <4>3, <4>4, CompleteFacts, ZenonT(60)
    <3>4. Restored(p)
      BY <1>12, <1>13, <1>17, <1>18, <3>1, <3>2, <3>3 DEF Restored
    <3> QED BY <1>6, <1>9, <3>4
  <2> QED BY <2>1, <2>4, <2>5
<1> QED BY <1>16, <1>19, <1>20

\* A step that restores nothing
LEMMA RestQuiet ==
    ASSUME AttrInv, Steady, UNCHANGED restvars, saveerr \subseteq saveerr',
           archive' = archive \/ pos = 1,
           phase \in {"restore", "done"} => phase' \in {"restore", "done"},
           phase' = "done" => pos = Len(archive') + 1
    PROVE  RestInv'
<1>1. JobType(job) /\ FsInv(fs, counted, Failed)
  BY RestFacts
<1>2. PICK f, C, G : f = fs' /\ C = counted' /\ G = Failed'
  OBVIOUS
<1>3. fs' = fs /\ counted' = counted /\ resterr' = resterr /\ pos' = pos /\ faults' = faults
  BY DEF restvars
<1>4. Failed \subseteq G
  BY <1>2, <1>3 DEF Failed
<1>5. FsInv(f, C, G)
  BY <1>1, <1>2, <1>3, <1>4, MoreFailed DEF FsInv
<1>6. FsInv(fs, counted, Failed)'
  BY <1>1, <1>2, <1>5, FsStep
<1>7. RestInv
  BY DEF AttrInv
<1>8. phase' \notin {"restore", "done"} => pos' = 1 /\ counted' = {} /\ resterr' = {}
  BY <1>3, <1>7 DEF RestInv
<1>9. \A h \in 1 .. pos' - 1 : (PathOf(archive[h]) \in counted \cup resterr)'
  BY <1>3, <1>7 DEF RestInv, PathOf
<1>10. (faults = 0 /\ OnlyRemoved => resterr = {})'
  BY <1>3, <1>7 DEF RestInv, Steady
<1> QED BY <1>3, <1>6, <1>8, <1>9, <1>10 DEF RestInv, FsInv

\* The restore of one object keeps what is known of those before it.
LEMMA RestObjectInv ==
    ASSUME AttrInv, rest_object, Steady
    PROVE  /\ RestInv' /\ faults' \in 0 .. MaxFaults
           /\ counted' \subseteq Paths /\ resterr' \subseteq Paths
           /\ pos' \in 1 .. Len(archive) + 1
<1>1. PICK p \in Paths : Restored(p) /\ p = PathOf(archive[pos])
  BY RestObject
<1>2. /\ job' = job /\ seen' = seen /\ xattrs' = xattrs /\ archive' = archive /\ saveerr' = saveerr
      /\ phase' = phase /\ phase = "restore" /\ pos <= Len(archive) /\ pos' = pos + 1
  BY DEF rest_object, racevars, savevars
<1>3. pos \in 1 .. Len(archive) /\ Len(archive) \in Nat
  BY <1>2, RestHeader
<1>4. JobType(job)
  BY RestFacts
<1>5. PICK f, C, G : f = fs' /\ C = counted' /\ G = Failed'
  OBVIOUS
<1>6. Failed' = saveerr \cup resterr'
  BY <1>2 DEF Failed
<1>7. FsInv(f, C, G)
  BY <1>1, <1>5, <1>6 DEF Restored
<1>8. FsInv(fs, counted, Failed)'
  BY <1>4, <1>5, <1>7, FsStep
<1>9. \A h \in 1 .. pos - 1 : PathOf(archive[h]) \in counted \cup resterr
  BY DEF AttrInv, RestInv
<1>10. \A h \in 1 .. pos' - 1 : (PathOf(archive[h]) \in counted \cup resterr)'
  <2> SUFFICES ASSUME NEW h \in 1 .. pos' - 1
               PROVE  PathOf(archive[h]) \in counted' \cup resterr'
    BY <1>2 DEF PathOf
  <2>1. h = pos \/ h \in 1 .. pos - 1
    BY <1>2, <1>3
  <2> QED BY <1>1, <1>9, <2>1 DEF Restored
<1>11. OnlyRemoved' <=> OnlyRemoved
  BY <1>2 DEF OnlyRemoved
<1>12. (faults = 0 /\ OnlyRemoved => resterr = {})'
  BY <1>1, <1>11 DEF Restored
<1>13. RestInv'
  BY <1>2, <1>8, <1>10, <1>12 DEF RestInv, FsInv
<1>14. counted \cup resterr \subseteq Paths
  BY DEF AttrInv, AttributesTypeOK
<1>15. counted' \subseteq Paths /\ resterr' \subseteq Paths /\ faults' \in 0 .. MaxFaults
  BY <1>1, <1>14 DEF Restored
<1>16. pos' \in 1 .. Len(archive) + 1
  BY <1>2, <1>3
<1> QED BY <1>13, <1>15, <1>16

\* Every step keeps what is known of the objects that were counted.
LEMMA RestStep ==
    ASSUME AttrInv, [Next]_vars
    PROVE  RestInv'
<1>1. Steady
  BY SourceStep
<1>2. /\ phase \notin {"restore", "done"} => pos = 1
      /\ phase = "done" => pos = Len(archive) + 1
      /\ pos \in 1 .. Len(archive) + 1 /\ Len(archive) \in Nat
  BY DEF AttrInv, AttributesTypeOK, RestInv, ArchiveInv, IsSeq
<1>3. CASE save_stat \/ save_list \/ save_size \/ save_value
  <2>1. /\ UNCHANGED restvars /\ saveerr' = saveerr /\ archive' = archive
        /\ phase \in {"stat", "list", "size", "value"} /\ phase' \in {"list", "size", "value", "undefined"}
    BY <1>3 DEF save_stat, save_list, save_size, save_value
  <2> QED BY <1>1, <2>1, RestQuiet
<1>4. CASE save_queue
  <2>1. /\ UNCHANGED restvars /\ saveerr \subseteq saveerr'
        /\ phase = "size" /\ phase' \in {"restore", "stat"}
    BY <1>4 DEF save_queue
  <2> QED BY <1>1, <1>2, <2>1, RestQuiet
<1>5. CASE race \/ Terminated \/ UNCHANGED vars
  <2>1. UNCHANGED restvars /\ saveerr' = saveerr /\ archive' = archive /\ phase' = phase
    BY <1>5 DEF race, Terminated, vars, savevars
  <2> QED BY <1>1, <1>2, <2>1, RestQuiet
<1>6. CASE rest_end
  <2>1. /\ UNCHANGED restvars /\ saveerr' = saveerr /\ archive' = archive
        /\ phase = "restore" /\ phase' = "done" /\ pos > Len(archive)
    BY <1>6 DEF rest_end, savevars
  <2>2. pos = Len(archive') + 1
    BY <1>2, <2>1
  <2> QED BY <1>1, <2>1, <2>2, RestQuiet
<1>7. CASE rest_object
  BY <1>1, <1>7, RestObjectInv
<1> QED BY <1>3, <1>4, <1>5, <1>6, <1>7 DEF Next
-----------------------------------------------------------------------------
(* The types *)

\* The types of what the save changes
LEMMA SaveTypeStep ==
    ASSUME AttrInv, [Next]_vars
    PROVE  (/\ phase \in {"stat", "list", "size", "value", "undefined", "restore", "done"}
            /\ cur \in 1 .. Len(job.tree) + 1
            /\ Sizes(dico)
            /\ names \subseteq Names /\ (phase \in {"value", "undefined"} => name \in Names)
            /\ attrsize \in Int /\ attrcnt \in 0 .. MaxNames /\ attrerrors \in BOOLEAN)'
<1>1. job' = job
  BY SourceStep
<1>2. /\ phase \in {"stat", "list", "size", "value", "undefined", "restore", "done"}
      /\ cur \in 1 .. Len(job.tree) + 1
      /\ Sizes(dico)
      /\ names \subseteq Names /\ (phase \in {"value", "undefined"} => name \in Names)
      /\ attrsize \in Int /\ attrcnt \in 0 .. MaxNames
  BY DEF AttrInv, AttributesTypeOK, Sizes, IsU16
<1>3. attrerrors \in BOOLEAN
  BY DEF AttrInv, AttributesTypeOK
<1>4. Sizes(dico') = Sizes(dico)'
  BY DEF Sizes
<1>5. CASE save_stat
  <2>1. /\ phase' = "list" /\ cur' = cur /\ names' = names /\ attrsize' = attrsize /\ attrcnt' = attrcnt
        /\ attrerrors' = attrerrors
    BY <1>5 DEF save_stat
  <2> QED BY <1>1, <1>2, <1>3, <1>5, <2>1, ReadStat
<1>6. CASE save_list
  <2>1. phase' = "size" /\ cur' = cur /\ dico' = dico /\ attrsize' = attrsize /\ attrerrors' = FALSE
    BY <1>6 DEF save_list
  <2>2. names' \subseteq Names /\ attrcnt' = 0 /\ 0 \in 0 .. MaxNames
    BY <1>1, <1>6, ReadList DEF MaxNames
  <2> QED BY <1>1, <1>2, <1>4, <2>1, <2>2
<1>7. CASE save_size
  <2>1. cur' = cur /\ dico' = dico /\ attrcnt' = attrcnt
    BY <1>7 DEF save_size
  <2>2. phase' \in {"size", "value"}
    BY <1>7 DEF save_size
  <2>3. attrerrors' \in BOOLEAN
    <3>1. attrerrors' = TRUE \/ attrerrors' = attrerrors
      BY <1>7 DEF save_size
    <3> QED BY ONLY <1>3, <3>1
  <2> QED BY <1>1, <1>2, <1>4, <1>7, <2>1, <2>2, <2>3, ReadSize
<1>8. CASE save_value
  <2>1. /\ phase = "value" /\ phase' \in {"size", "undefined"}
        /\ cur' = cur /\ names' = names /\ name' = name /\ attrsize' = attrsize
    BY <1>8 DEF save_value
  <2> QED BY <1>1, <1>2, <1>8, <2>1, ReadValue
<1>9. CASE save_queue
  <2>1. /\ dico' = dico /\ names' = names /\ attrsize' = attrsize /\ attrcnt' = attrcnt
        /\ attrerrors' = attrerrors /\ phase' \in {"restore", "stat"} /\ cur' = cur + 1 /\ phase = "size"
    BY <1>9 DEF save_queue
  <2>2. cur \in 1 .. Len(job.tree) /\ Len(job.tree) \in Nat
    BY <2>1, CurFacts
  <2>3. cur' \in 1 .. Len(job'.tree) + 1
    BY <1>1, <2>1, <2>2
  <2> QED BY <1>2, <1>3, <1>4, <2>1, <2>3
<1>10. CASE race \/ rest_object \/ rest_end \/ Terminated \/ UNCHANGED vars
  <2>1. /\ UNCHANGED <<cur, dico, names, name, attrsize, attrcnt, attrerrors>>
        /\ phase' = phase \/ phase' = "done"
    BY <1>10 DEF race, rest_object, rest_end, Terminated, vars, savevars
  <2> QED BY <1>1, <1>2, <1>3, <1>4, <2>1
<1> QED BY <1>5, <1>6, <1>7, <1>8, <1>9, <1>10 DEF Next

\* The types of what the restore changes
LEMMA RestTypeStep ==
    ASSUME AttrInv, [Next]_vars
    PROVE  (/\ saveerr \subseteq Paths /\ counted \subseteq Paths /\ resterr \subseteq Paths
            /\ pos \in 1 .. Len(archive) + 1
            /\ races \in 0 .. MaxRaces /\ faults \in 0 .. MaxFaults)'
<1>1. Steady /\ job' = job
  BY SourceStep
<1>2. Paths' = Paths
  BY <1>1 DEF Paths
<1>3. /\ saveerr \subseteq Paths /\ counted \subseteq Paths /\ resterr \subseteq Paths
      /\ pos \in 1 .. Len(archive) + 1
      /\ races \in 0 .. MaxRaces /\ faults \in 0 .. MaxFaults
  BY DEF AttrInv, AttributesTypeOK
<1>4. CASE save_stat \/ save_list \/ save_size \/ save_value
  <2>1. UNCHANGED <<saveerr, counted, resterr, pos, archive, races, faults>>
    BY <1>4 DEF save_stat, save_list, save_size, save_value, racevars, restvars
  <2> QED BY <1>2, <1>3, <2>1
<1>5. CASE save_queue
  <2>1. UNCHANGED <<counted, resterr, pos, races, faults>> /\ phase = "size"
    BY <1>5 DEF save_queue, racevars, restvars
  <2>2. Len(archive') \in Nat /\ saveerr' \subseteq Paths
    BY <1>1, <1>5, ArchiveQueue
  <2>3. pos = 1
    BY <2>1 DEF AttrInv, RestInv
  <2>4. 1 \in 1 .. Len(archive') + 1
    BY <2>2
  <2> QED BY <1>2, <1>3, <2>1, <2>2, <2>3, <2>4
<1>6. CASE race
  <2>1. UNCHANGED <<saveerr, counted, resterr, pos, archive, faults>> /\ races < MaxRaces /\ races' = races + 1
    BY <1>6 DEF race, savevars, restvars
  <2>2. races' \in 0 .. MaxRaces
    BY <1>3, <2>1, AttributesAssumption
  <2> QED BY <1>2, <1>3, <2>1, <2>2
<1>7. CASE rest_object
  <2>1. UNCHANGED <<saveerr, archive, races>>
    BY <1>7 DEF rest_object, savevars, racevars
  <2> QED BY <1>1, <1>2, <1>3, <1>7, <2>1, RestObjectInv
<1>8. CASE rest_end \/ Terminated \/ UNCHANGED vars
  <2>1. UNCHANGED <<saveerr, counted, resterr, pos, archive, races, faults>>
    BY <1>8 DEF rest_end, Terminated, vars, savevars, racevars, restvars
  <2> QED BY <1>2, <1>3, <2>1
<1> QED BY <1>4, <1>5, <1>6, <1>7, <1>8 DEF Next

\* The inodes of a destination are those that its paths lead to.
LEMMA FsType ==
    ASSUME NEW f, IsFs(f)
    PROVE  DOMAIN f.dest \subseteq Paths /\ Range(f.dest) = DOMAIN f.ino
BY DEF IsFs, Range

\* Every step keeps the types.
LEMMA TypeStep ==
    ASSUME AttrInv, [Next]_vars
    PROVE  AttributesTypeOK'
<1>1. job' \in Jobs
  BY SourceStep DEF AttrInv, AttributesTypeOK
<1>2. (DOMAIN fs.dest \subseteq Paths /\ Range(fs.dest) = DOMAIN fs.ino)'
  <2>1. IsFs(fs)'
    BY RestStep DEF RestInv
  <2> QED BY <2>1 DEF IsFs, Range
<1>3. (\A i \in 1 .. Len(dico) : dico[i].size \in Nat /\ dico[i].size <= 65535)'
  BY SaveTypeStep DEF Sizes, IsU16
<1> QED BY <1>1, <1>2, <1>3, SaveTypeStep, RestTypeStep DEF AttributesTypeOK

-----------------------------------------------------------------------------
(* The theorems *)

\* The invariant holds before the save.
LEMMA InitInv ==
    ASSUME Init
    PROVE  AttrInv
<1>1. job \in Jobs /\ JobType(job)
  BY JobFacts DEF Init
<1>2. Len(job.tree) \in Nat \ {0}
  BY <1>1 DEF JobType, TreeType
<1>3. /\ Root \in Paths /\ Entry(Root).ino = Root
  <2>1. 1 \in 1 .. Len(job.tree)
    BY <1>2
  <2>2. Root \in Paths /\ Entry(Root) = job.tree[1]
    BY <1>1, <2>1, EntryFacts
  <2>3. job.tree[1].kind = "DIR"
    BY <1>1 DEF JobType, TreeType
  <2> QED BY <1>1, <2>2, <2>3, InodeFacts
<1>4. SourceInv
  <2>1. DOMAIN xattrs = DOMAIN job.inodes /\ DOMAIN seen = DOMAIN job.inodes
    BY DEF Init
  <2>2. ASSUME NEW i \in DOMAIN job.inodes
        PROVE  /\ DOMAIN xattrs[i] = Names /\ DOMAIN seen[i] = Names
               /\ \A n \in Names : /\ xattrs[i][n] = job.inodes[i].xattr[n]
                                   /\ seen[i][n] = {job.inodes[i].xattr[n]}
                                   /\ job.inodes[i].xattr[n] # None => job.inodes[i].xattr[n].size \in Nat
    <3>1. /\ DOMAIN job.inodes[i].xattr = Names
          /\ \A n \in Names : job.inodes[i].xattr[n] # None => job.inodes[i].xattr[n].size \in Nat
      BY <1>1 DEF JobType
    <3>2. xattrs[i] = job.inodes[i].xattr /\ seen[i] = [n \in Names |-> {job.inodes[i].xattr[n]}]
      BY DEF Init
    <3> QED BY <3>1, <3>2
  <2> QED BY <2>1, <2>2 DEF SourceInv, Unchanged
<1>5. phase = "stat" /\ cur = 1 /\ archive = <<>> /\ saveerr = {} /\ pos = 1 /\ counted = {} /\ resterr = {}
  BY DEF Init
<1>6. ReadInv
  BY <1>2, <1>5 DEF ReadInv
<1>7. ArchiveInv
  <2>1. IsSeq(archive) /\ Len(archive) = 0
    BY <1>5 DEF IsSeq
  <2> QED BY <1>5, <2>1 DEF ArchiveInv
<1>8. IsFs(fs)
  <2>1. /\ DOMAIN fs.dest = {Root} /\ DOMAIN fs.ino = {Root}
        /\ fs.dest[Root] = Root /\ fs.ino[Root] = Fresh
    BY DEF Init
  <2> QED BY <1>3, <2>1, FreshFacts DEF IsFs
<1>9. KeptIn(fs, counted, Failed)
  <2>1. \A i \in DOMAIN fs.ino : fs.ino[i] = Fresh
    BY DEF Init
  <2> QED BY <1>5, <2>1, FreshFacts DEF KeptIn, Untouched
<1>10. TimesIn(fs, counted, Failed)
  BY <1>5 DEF TimesIn
<1>11. RestInv
  BY <1>5, <1>8, <1>9, <1>10 DEF RestInv
<1>12. AttributesTypeOK
  <2>1. DOMAIN fs.dest \subseteq Paths /\ Range(fs.dest) = DOMAIN fs.ino
    BY <1>8, FsType
  <2>2. dico = <<>> /\ names = {} /\ attrsize = 0 /\ attrcnt = 0 /\ attrerrors = FALSE /\ races = 0 /\ faults = 0
    BY DEF Init
  <2>3. \A i \in 1 .. Len(dico) : dico[i].size \in Nat /\ dico[i].size <= 65535
    BY <2>2
  <2>4. races \in 0 .. MaxRaces /\ faults \in 0 .. MaxFaults /\ attrcnt \in 0 .. MaxNames
    BY <2>2, AttributesAssumption DEF MaxNames
  <2>5. cur \in 1 .. Len(job.tree) + 1 /\ pos \in 1 .. Len(archive) + 1
    BY <1>2, <1>5
  <2>6. attrerrors \in BOOLEAN
    BY <2>2
  <2>7. saveerr \subseteq Paths /\ counted \subseteq Paths /\ resterr \subseteq Paths
    BY <1>5
  <2> QED BY <1>1, <1>5, <2>1, <2>2, <2>3, <2>4, <2>5, <2>6, <2>7 DEF AttributesTypeOK
<1> QED BY <1>4, <1>6, <1>7, <1>11, <1>12 DEF AttrInv

\* The invariant holds in every reachable state, for every tree, every set of
\* attributes and every number of failures and of changes by other programs:
\* race() sets, changes and removes attributes, and AttrInv says that the save
\* is "undefined" only after one of them has got a value where it had none.
THEOREM AttributesInvariant == Spec => []AttrInv
<1>1. Init => AttrInv
  BY InitInv
<1>2. AttrInv /\ [Next]_vars => AttrInv'
  BY SourceStep, ReadStep, ArchiveStep, RestStep, TypeStep DEF AttrInv
<1> QED BY <1>1, <1>2, PTL DEF Spec

\* When all is done each path is counted or has failed.
LEMMA AllPaths ==
    ASSUME AttrInv, phase = "done"
    PROVE  Paths = counted \cup Failed
<1>1. /\ cur = Len(job.tree) + 1 /\ pos = Len(archive) + 1 /\ Len(archive) \in Nat
      /\ JobType(job) /\ counted \subseteq Paths /\ Failed \subseteq Paths
  BY JobFacts DEF AttrInv, AttributesTypeOK, ArchiveInv, RestInv, IsSeq, Failed
<1>2. Len(job.tree) \in Nat
  BY <1>1 DEF JobType, TreeType
<1>3. 1 .. cur - 1 = 1 .. Len(job.tree) /\ 1 .. pos - 1 = 1 .. Len(archive)
  BY <1>1, <1>2
<1>4. ASSUME NEW k \in 1 .. Len(job.tree)
      PROVE  job.tree[k].path \in counted \cup Failed
  <2>1. \/ job.tree[k].path \in saveerr
        \/ \E i \in 1 .. Len(archive) : PathOf(archive[i]) = job.tree[k].path
    BY <1>3 DEF AttrInv, ArchiveInv
  <2>2. \A h \in 1 .. Len(archive) : PathOf(archive[h]) \in counted \cup resterr
    BY <1>3 DEF AttrInv, RestInv
  <2> QED BY <2>1, <2>2 DEF Failed
<1> QED BY <1>1, <1>4 DEF Paths

\* Every variable has its type, the sizes of the items in the 16 bits that
\* dico_add_generic() and writebuf_add_dico() give them, and no header that
\* createar_save_file() wrote is passed over by archreader_read_dico(): if no
\* error is counted every object is restored.
THEOREM HeadersAreReadable == Spec => []DicoIsReadable
<1>1. AttrInv => DicoIsReadable
  <2> SUFFICES ASSUME AttrInv
               PROVE  DicoIsReadable
    OBVIOUS
  <2>1. AttributesTypeOK
    BY DEF AttrInv
  <2>2. NothingLeftOut
    BY AllPaths DEF NothingLeftOut
  <2> QED BY <2>1, <2>2 DEF DicoIsReadable
<1> QED BY <1>1, AttributesInvariant, PTL

\* What the invariant says of an object that is counted
LEMMA CountedFacts ==
    ASSUME AttrInv, NEW p \in counted
    PROVE  /\ p \in Paths /\ Entry(p).ino \in DOMAIN fs.ino /\ Entry(p).ino \in DOMAIN job.inodes
           /\ Attr(fs, p) = fs.ino[Entry(p).ino]
           /\ Entry(p).kind # "DIR" => Entry(Entry(p).ino).kind # "DIR"
           /\ Entry(p).kind = "DIR" => Entry(p).ino = p
           /\ (\A q \in Failed : Entry(q).ino # Entry(p).ino) => Kept(Entry(p).ino, fs.ino[Entry(p).ino])
<1>1. JobType(job) /\ IsFs(fs) /\ counted \subseteq DOMAIN fs.dest /\ KeptIn(fs, counted, Failed)
  BY RestFacts DEF FsInv
<1>2. /\ p \in Paths /\ Entry(p).ino \in DOMAIN fs.ino
      /\ Attr(fs, p) = fs.ino[Entry(p).ino]
  BY <1>1, DestFacts DEF Attr
<1>3. (\A q \in Failed : Entry(q).ino # Entry(p).ino) => Kept(Entry(p).ino, fs.ino[Entry(p).ino])
  BY <1>1, <1>2 DEF KeptIn
<1> QED BY <1>1, <1>2, <1>3, InodeFacts

\* An object that the restoration counts has the owner, the mode and the extended
\* attributes it had, and the time that the casts of createar_item_stdattr() and
\* utimes() make of its own, whole seconds modulo 2^32: provided its attributes
\* did not change while they were saved, whatever calls of extractar_restore_object()
\* failed for other objects and in whatever order the links to an inode come:
\* the later lchown() of another link costs it neither its set-user-id bit nor
\* its capabilities.
THEOREM AttributesAreKept == Spec => []CountedKeepsAttributes
<1>1. AttrInv => CountedKeepsAttributes
  <2> SUFFICES ASSUME AttrInv
               PROVE  CountedKeepsAttributes
    OBVIOUS
  <2>1. ASSUME NEW p \in Paths, Undisturbed(p)
        PROVE  /\ p \in counted /\ Kept(Entry(p).ino, fs.ino[Entry(p).ino])
               /\ \A n \in Names : Unchanged(Entry(p).ino, n)
    BY <2>1, CountedFacts DEF Undisturbed
  <2>2. CountedKeepsXattrs
    BY <2>1, CountedFacts DEF CountedKeepsXattrs, Kept
  <2>3. CountedKeepsStd
    BY <2>1, CountedFacts DEF CountedKeepsStd, Kept
  <2> QED BY <2>2, <2>3 DEF CountedKeepsAttributes
<1> QED BY <1>1, AttributesInvariant, PTL

\* A directory that is counted keeps the time it was given from its header (what
\* the conversions make of the one it had), although every
\* object that is restored into it afterwards changes it: each of the
\* extractar_restore_obj_xxx() puts it back, unless one of them fails.
THEOREM DirectoriesKeepTimes == Spec => []DirTimesKept
<1>1. AttrInv => DirTimesKept
  <2> SUFFICES ASSUME AttrInv
               PROVE  DirTimesKept
    OBVIOUS
  <2>1. TimesIn(fs, counted, Failed)
    BY DEF AttrInv, RestInv
  <2>2. ASSUME NEW p \in Paths \ {Root}, Entry(p).kind = "DIR", Undisturbed(p),
               Children(p) \cap Failed = {}
        PROVE  Attr(fs, p).mtime = Carried(job.inodes[p].mtime)
    <3>1. p \in counted /\ p \notin Failed
      BY <2>2 DEF Undisturbed
    <3>2. Attr(fs, p) = fs.ino[p]
      BY <2>2, <3>1, CountedFacts
    <3> QED BY <2>1, <2>2, <3>1, <3>2 DEF TimesIn
  <2> QED BY <2>2 DEF DirTimesKept, TimesKept
<1> QED BY <1>1, AttributesInvariant, PTL

\* Other programs set, change and remove attributes between the calls of
\* createar_item_xattr().  The save touches memory beyond its buffer only for an
\* attribute that was empty or missing and then got a value (there is no test of
\* attrsize < 0); while it has not, a restored attribute has a value that it had,
\* or the contents of the buffer in that exception, and attributes that are only
\* removed cost no object and no other attribute.
THEOREM RacesCostNothing == Spec => []RacesAreHarmless
<1>1. AttrInv => RacesAreHarmless
  <2> SUFFICES ASSUME AttrInv
               PROVE  RacesAreHarmless
    OBVIOUS
  <2>1. NoInventedValue
    <3>1. ASSUME NEW p \in counted, NEW n \in Names
          PROVE  \/ Attr(fs, p).xattr[n] = None
                 \/ FromSource(Entry(p).ino, n, Attr(fs, p).xattr[n])
      BY CountedFacts DEF AttrInv, RestInv, KeptIn
    <3> QED BY <3>1 DEF NoInventedValue, FromSource
  <2>4. OverrunNeedsRace /\ (OnlyRemoved => phase # "undefined")
    BY DEF AttrInv, ReadInv, OverrunInv, OverrunNeedsRace
  <2>2. ASSUME phase = "done", faults = 0, OnlyRemoved
        PROVE  /\ counted = Paths
               /\ \A p \in Paths, n \in Names :
                     Listable(Entry(p).ino) /\ xattrs[Entry(p).ino][n] # None =>
                         Attr(fs, p).xattr[n] = xattrs[Entry(p).ino][n]
    <3>1. Failed = {}
      BY <2>2 DEF AttrInv, RestInv, ArchiveInv, Failed
    <3>2. counted = Paths
      BY <2>2, <3>1, AllPaths
    <3>3. ASSUME NEW p \in Paths, NEW n \in Names, Listable(Entry(p).ino),
                 xattrs[Entry(p).ino][n] # None
          PROVE  Attr(fs, p).xattr[n] = xattrs[Entry(p).ino][n]
      <4>1. PICK i : i = Entry(p).ino
        OBVIOUS
      <4>2. i \in DOMAIN job.inodes /\ Attr(fs, p) = fs.ino[i] /\ Kept(i, fs.ino[i])
        BY <3>1, <3>2, <4>1, CountedFacts
      <4>3. xattrs[i][n] \in seen[i][n] /\ i \in DOMAIN seen
        BY <4>2 DEF AttrInv, SourceInv
      <4>4. xattrs[i][n] = job.inodes[i].xattr[n]
        BY <2>2, <3>3, <4>1, <4>3 DEF OnlyRemoved
      <4>5. n \in OldNames(i)
        BY <3>3, <4>1, <4>4 DEF OldNames
      <4>6. Unchanged(i, n)
        BY <4>2, <4>4, <4>5 DEF AttrInv, SourceInv
      <4> QED BY <3>3, <4>1, <4>2, <4>4, <4>6 DEF Kept
    <3> QED BY <3>2, <3>3
  <2>3. VanishedIsNoError
    BY <2>2, <2>4 DEF VanishedIsNoError
  <2> QED BY <2>1, <2>3, <2>4 DEF RacesAreHarmless
<1> QED BY <1>1, AttributesInvariant, PTL

=============================================================================
