--------------------------- MODULE VolumesProofs ----------------------------
(***************************************************************************)
(* The volumes of an archive, for every size of a volume, every length of    *)
(* the archive, every older archive and every set of faults: what is read    *)
(* is one archive in order, its end means all of it, what was saved can be   *)
(* read, a failure removes what it wrote and nothing else.                   *)
(***************************************************************************)
EXTENDS Volumes, SequenceTheorems, TLAPS

-----------------------------------------------------------------------------
(* Paths and entries *)

\* Different volumes have different paths, and none is the place of a moved one.
LEMMA PathsDiffer ==
    /\ \A m, n \in Nat : get_path_to_volume(m) = get_path_to_volume(n) => m = n
    /\ \A n \in Nat : get_path_to_volume(n) # Elsewhere
    /\ \A n \in 0 .. MaxItems : get_path_to_volume(n) \in Paths
    /\ Elsewhere \in Paths
<1>1. \A n \in Nat : n # 0 => Len(get_path_to_volume(n)) = 2 /\ get_path_to_volume(n)[2] = n
  BY DEF get_path_to_volume
<1>2. Len(get_path_to_volume(0)) = 1 /\ get_path_to_volume(0)[1] = "fsa"
  BY DEF get_path_to_volume
<1>3. Len(Elsewhere) = 1 /\ Elsewhere[1] = "elsewhere" BY DEF Elsewhere
<1>4. \A m, n \in Nat : get_path_to_volume(m) = get_path_to_volume(n) => m = n
  BY <1>1, <1>2
<1>5. \A n \in Nat : get_path_to_volume(n) # Elsewhere
  BY <1>1, <1>2, <1>3
<1>6. \A n \in 0 .. MaxItems : get_path_to_volume(n) \in Paths BY DEF Paths
<1>7. Elsewhere \in Paths BY DEF Paths
<1> QED BY <1>4, <1>5, <1>6, <1>7

\* The entries that the writer builds
LEMMA EntryTypes ==
    ASSUME NEW n \in Nat
    PROVE  /\ \A m \in {"MAIN", "HEAD", "BLKH", "DATA"} :
                 /\ ItemEntry(m, "new", n) \in Entry
                 /\ ItemEntry(m, "new", n).magic = m
                 /\ ItemEntry(m, "new", n).archid = "new"
                 /\ ItemEntry(m, "new", n).num = n
           /\ VolHeader("new", n) \in Entry
           /\ VolHeader("new", n).magic = "VOLH" /\ VolHeader("new", n).archid = "new"
           /\ VolHeader("new", n).num = n
           /\ \A b \in BOOLEAN :
                 /\ VolFooter("new", n, b) \in Entry
                 /\ VolFooter("new", n, b).magic = "VOLF" /\ VolFooter("new", n, b).archid = "new"
                 /\ VolFooter("new", n, b).num = n /\ VolFooter("new", n, b).lastvol = b
  BY DEF Entry, ItemEntry, VolHeader, VolFooter

LEMMA EntryFields ==
    ASSUME NEW e \in Entry
    PROVE  /\ e.magic \in {"VOLH", "VOLF", "MAIN", "HEAD", "BLKH", "DATA"}
           /\ e.archid \in {"old", "new"} /\ e.num \in Nat /\ e.lastvol \in BOOLEAN
  BY DEF Entry

-----------------------------------------------------------------------------
(* Well-formed volumes *)

\* What Append and a cut make of a sequence of entries
LEMMA AppendEntry ==
    ASSUME NEW d \in Seq(Entry), NEW e \in Entry
    PROVE  /\ Append(d, e) \in Seq(Entry) /\ Append(d, e) # <<>>
           /\ Len(Append(d, e)) = Len(d) + 1 /\ Len(d) \in Nat
           /\ \A i \in 1 .. Len(d) : Append(d, e)[i] = d[i]
           /\ Append(d, e)[Len(d) + 1] = e
  OBVIOUS

LEMMA CutEntries ==
    ASSUME NEW d \in Seq(Entry), NEW k \in 0 .. Len(d)
    PROVE  /\ SubSeq(d, 1, k) \in Seq(Entry)
           /\ Len(SubSeq(d, 1, k)) = k
           /\ \A i \in 1 .. k : SubSeq(d, 1, k)[i] = d[i]
  OBVIOUS

\* An entry that may follow the last one keeps a volume well formed.
LEMMA AppendWellFormed ==
    ASSUME NEW d \in Seq(Entry), WellFormed(d), d # <<>>,
           NEW e \in Entry, e.archid = d[1].archid, e.magic # "VOLH",
           Follows(d[Len(d)], e),
           e.magic = "VOLF" /\ ~e.lastvol => d[1].num < MaxItems,
           Len(d) = 1 /\ d[1].num = 0 => e.magic \in {"MAIN", "VOLF"}
    PROVE  WellFormed(Append(d, e))
<1> DEFINE a == Append(d, e)
<1> DEFINE n == Len(d)
<1>1. /\ n \in Nat /\ n > 0 /\ Len(a) = n + 1
      /\ \A i \in 1 .. n : a[i] = d[i]
      /\ a[n + 1] = e
  BY AppendEntry
<1>2. a[1] = d[1] BY <1>1
<1>w. /\ \A i \in 1 .. n : d[i].archid = d[1].archid /\ (d[i].magic = "VOLH" <=> i = 1)
      /\ \A i \in 1 .. n : i < n => Follows(d[i], d[i + 1])
      /\ \A i \in 1 .. n : d[i].magic = "VOLF" /\ ~d[i].lastvol => d[1].num < MaxItems
      /\ n > 1 /\ d[1].num = 0 => d[2].magic \in {"MAIN", "VOLF"}
      /\ Follows(d[n], e)
      /\ n = 1 /\ d[1].num = 0 => e.magic \in {"MAIN", "VOLF"}
  BY DEF WellFormed
<1> HIDE DEF a, n
<1>3. ASSUME NEW i \in 1 .. n + 1
      PROVE  /\ a[i].archid = a[1].archid /\ (a[i].magic = "VOLH" <=> i = 1)
             /\ a[i].magic = "VOLF" /\ ~a[i].lastvol => a[1].num < MaxItems
  <2>1. i \in 1 .. n \/ i = n + 1 BY <1>1
  <2>2. CASE i \in 1 .. n BY <2>2, <1>1, <1>2, <1>w
  <2>3. CASE i = n + 1
    <3>1. a[i] = e /\ i # 1 BY <2>3, <1>1
    <3> QED BY <3>1, <1>2
  <2> QED BY <2>1, <2>2, <2>3
<1>4. ASSUME NEW i \in 1 .. n + 1, i < n + 1 PROVE Follows(a[i], a[i + 1])
  <2>1. a[i] = d[i] BY <1>4, <1>1
  <2>2. CASE i < n
    <3>1. i \in 1 .. n /\ i + 1 \in 1 .. n BY <2>2, <1>1
    <3>2. a[i + 1] = d[i + 1] BY <3>1, <1>1
    <3> QED BY <2>1, <2>2, <3>1, <3>2, <1>w
  <2>3. CASE i = n BY <2>1, <2>3, <1>1, <1>w
  <2> QED BY <1>1, <1>4, <2>2, <2>3
<1>5. n + 1 > 1 /\ a[1].num = 0 => a[2].magic \in {"MAIN", "VOLF"}
  <2>1. CASE n = 1 BY <2>1, <1>1, <1>2, <1>w
  <2>2. CASE n > 1
    <3>1. a[2] = d[2] BY <2>2, <1>1
    <3> QED BY <2>2, <3>1, <1>2, <1>w
  <2> QED BY <1>1, <2>1, <2>2
<1>6. WellFormed(a) BY <1>1, <1>3, <1>4, <1>5 DEF WellFormed
<1> QED BY <1>6 DEF a

\* So does a cut.
LEMMA CutWellFormed ==
    ASSUME NEW d \in Seq(Entry), WellFormed(d), NEW k \in 0 .. Len(d)
    PROVE  WellFormed(SubSeq(d, 1, k))
<1> DEFINE a == SubSeq(d, 1, k)
<1> DEFINE n == Len(d)
<1>1. Len(a) = k /\ \A i \in 1 .. k : a[i] = d[i] BY CutEntries
<1>2. n \in Nat OBVIOUS
<1>3. k \in 0 .. n OBVIOUS
<1>w. /\ \A i \in 1 .. n : d[i].archid = d[1].archid /\ (d[i].magic = "VOLH" <=> i = 1)
      /\ \A i \in 1 .. n : i < n => Follows(d[i], d[i + 1])
      /\ \A i \in 1 .. n : d[i].magic = "VOLF" /\ ~d[i].lastvol => d[1].num < MaxItems
      /\ n > 1 /\ d[1].num = 0 => d[2].magic \in {"MAIN", "VOLF"}
  BY DEF WellFormed
<1> HIDE DEF a, n
<1>4. ASSUME NEW i \in 1 .. k
      PROVE  /\ a[i] = d[i] /\ a[1] = d[1] /\ i \in 1 .. n
             /\ i < k => i < n /\ a[i + 1] = d[i + 1]
  BY <1>1, <1>2, <1>3
<1>5. ASSUME NEW i \in 1 .. k
      PROVE  /\ a[i].archid = a[1].archid /\ (a[i].magic = "VOLH" <=> i = 1)
             /\ a[i].magic = "VOLF" /\ ~a[i].lastvol => a[1].num < MaxItems
             /\ i < k => Follows(a[i], a[i + 1])
  BY <1>4, <1>w
<1>6. k > 1 /\ a[1].num = 0 => a[2].magic \in {"MAIN", "VOLF"}
  BY <1>1, <1>2, <1>3, <1>w
<1>7. WellFormed(a) BY <1>1, <1>5, <1>6 DEF WellFormed
<1> QED BY <1>7 DEF a

\* Only the last entry of a volume can be a footer, and the header of a block
\* is not the last one but for a cut.
LEMMA FooterIsLast ==
    ASSUME NEW d \in Seq(Entry), WellFormed(d), NEW i \in 1 .. Len(d), d[i].magic = "VOLF"
    PROVE  i = Len(d)
<1>1. Len(d) \in Nat OBVIOUS
<1>2. SUFFICES ASSUME i < Len(d) PROVE FALSE BY <1>1
<1>3. Follows(d[i], d[i + 1]) BY <1>2 DEF WellFormed
<1> QED BY <1>3 DEF Follows, EndOfItem

-----------------------------------------------------------------------------
(* The beginning *)

LEMMA InitFiles ==
    ASSUME Init
    PROVE  /\ data \in [Paths -> Seq(Entry)] /\ present \subseteq Paths
           /\ \A p \in present : \E m \in DOMAIN OldVolumes : data[p] = OldVolumes[m]
<1>1. OldVolumes \in Seq(Seq(Entry)) BY OldVolumesAssumption
<1>2. ASSUME NEW n \in DOMAIN OldVolumes
      PROVE  n - 1 \in 0 .. MaxItems /\ OldVolumes[n] \in Seq(Entry)
  BY <1>1, VolumesAssumption
<1>3. present \subseteq Paths BY <1>2, PathsDiffer DEF Init
<1>4. ASSUME NEW p \in present
      PROVE  \E m \in DOMAIN OldVolumes : data[p] = OldVolumes[m]
  <2>1. \E n \in DOMAIN OldVolumes : get_path_to_volume(n - 1) = p BY <1>4 DEF Init
  <2>2. (CHOOSE n \in DOMAIN OldVolumes : get_path_to_volume(n - 1) = p) \in DOMAIN OldVolumes
    BY <2>1
  <2>3. data[p] = OldVolumes[CHOOSE n \in DOMAIN OldVolumes : get_path_to_volume(n - 1) = p]
    BY <1>3 DEF Init
  <2> QED BY <2>2, <2>3
<1>5. data = [p \in Paths |-> data[p]] BY DEF Init
<1>6. ASSUME NEW p \in Paths PROVE data[p] \in Seq(Entry)
  <2>1. CASE p \in present BY <2>1, <1>4, <1>2
  <2>2. CASE p \notin present
    <3>1. data[p] = <<>> BY <2>2 DEF Init
    <3> QED BY <3>1
  <2> QED BY <2>1, <2>2
<1> QED BY <1>3, <1>4, <1>5, <1>6

LEMMA InitInv == Init => VolumesInv
<1> SUFFICES ASSUME Init PROVE VolumesInv OBVIOUS
<1>1. /\ data \in [Paths -> Seq(Entry)] /\ present \subseteq Paths
      /\ \A p \in present : \E m \in DOMAIN OldVolumes : data[p] = OldVolumes[m]
  BY InitFiles
<1>2. NoBuffer \in [entries: Seq(Entry), size: Nat] BY DEF NoBuffer
<1>3. VolumesTypeOK
  <2>1. /\ options \in Options /\ cursize \in Nat /\ wpc = "create" /\ curvol = 0
        /\ vollist = <<>> /\ wb = NoBuffer /\ count = 0 /\ kept = {}
        /\ rpc = "idle" /\ rvol = 0 /\ rpath = get_path_to_volume(0) /\ rpos = 1
        /\ rarchid = "none" /\ endofarchive = FALSE /\ got = <<>> /\ mistyped = FALSE
    BY DEF Init
  <2>2. rpath \in Paths BY <2>1, PathsDiffer, VolumesAssumption
  <2>3. 0 \in 0 .. MaxItems BY VolumesAssumption
  <2>4. vollist \in Seq(Paths) /\ got \in Seq(Entry) BY <2>1
  <2>5. wb \in [entries: Seq(Entry), size: Nat] BY <2>1, <1>2
  <2>6. endofarchive \in BOOLEAN /\ mistyped \in BOOLEAN BY <2>1
  <2>7. kept \subseteq Paths BY <2>1
  <2>8. rvol \in Nat /\ rpos \in Nat \ {0} /\ curvol \in 0 .. MaxItems /\ count \in 0 .. MaxItems
    BY <2>1, <2>3
  <2> QED BY <1>1, <2>1, <2>2, <2>4, <2>5, <2>6, <2>7, <2>8 DEF VolumesTypeOK
<1>4. ASSUME NEW p \in present
      PROVE  /\ data[p] # <<>> /\ data[p][1].archid = "old" /\ WellFormed(data[p])
             /\ \A q \in present : GoesOn(data[p], data[q])
  BY <1>1, OldVolumesAssumption
<1>5. FilesInv BY <1>4 DEF FilesInv
<1>6. \A p \in present : ~New(p) BY <1>4 DEF New
<1>7. \A p \in present : \A i \in 1 .. Len(data[p]) : data[p][i].archid = "old"
  BY <1>4 DEF WellFormed
<1>8. StageInv BY <1>6 DEF StageInv, Init
<1>9. BufferInv BY DEF BufferInv, Init
<1>10. CurrentInv BY DEF CurrentInv, Init, Writing
<1>11. LastInv BY <1>7 DEF LastInv
<1>12. RemoveInv BY <1>6 DEF RemoveInv, Init
<1>13. DoneInv
  <2>1. wpc = "create" /\ curvol = 0 BY DEF Init
  <2>2. \A n \in 0 .. curvol : ~(n < curvol) BY <2>1
  <2> QED BY <2>1, <2>2 DEF DoneInv
<1>14. ReaderInv BY DEF ReaderInv, Init
<1>15. ReadableInv BY DEF ReadableInv, Init
<1>16. ItemsOfOneArchive /\ EndMeansWhole BY DEF ItemsOfOneArchive, EndMeansWhole, Init
<1> QED
  BY <1>3, <1>5, <1>8, <1>9, <1>10, <1>11, <1>12, <1>13, <1>14, <1>15, <1>16 DEF VolumesInv

-----------------------------------------------------------------------------
(* What a step of the writer changes *)

\* The reader has not begun.
LEMMA IdleReader ==
    ASSUME VolumesInv, rpc = "idle", UNCHANGED readervars
    PROVE  ReaderInv' /\ ReadableInv' /\ ItemsOfOneArchive' /\ EndMeansWhole'
<1>1. rvol = 0 /\ got = <<>> /\ rarchid = "none" /\ rpath = get_path_to_volume(0) /\ ~endofarchive
  BY DEF VolumesInv, ReaderInv
<1>2. /\ rpc' = "idle" /\ rvol' = 0 /\ got' = <<>> /\ rarchid' = "none"
      /\ rpath' = get_path_to_volume(0) /\ ~endofarchive'
  BY <1>1 DEF readervars
<1>3. ReaderInv' BY <1>2 DEF ReaderInv
<1>4. ReadableInv' BY <1>2 DEF ReadableInv
<1>5. ItemsOfOneArchive' BY <1>2 DEF ItemsOfOneArchive
<1>6. EndMeansWhole' BY <1>2 DEF EndMeansWhole
<1> QED BY <1>3, <1>4, <1>5, <1>6

\* One file is changed.
LEMMA OneFile ==
    ASSUME VolumesTypeOK, NEW dd \in Seq(Entry), data' = [data EXCEPT ![volpath] = dd]
    PROVE  /\ data' \in [Paths -> Seq(Entry)]
           /\ volpath \in Paths /\ data'[volpath] = dd
           /\ \A p \in Paths : p # volpath => data'[p] = data[p]
<1>1. volpath \in Paths BY PathsDiffer DEF VolumesTypeOK, volpath
<1>2. data \in [Paths -> Seq(Entry)] BY DEF VolumesTypeOK
<1> QED BY <1>1, <1>2

\* archwriter_write_buffer() with a buffer of one or two entries
LEMMA WriteOne ==
    ASSUME VolumesTypeOK, NEW e \in Entry, NEW s, NEW nx,
           archwriter_write_buffer([entries |-> <<e>>, size |-> s], nx)
    PROVE  \/ /\ data' = [data EXCEPT ![volpath] = Append(data[volpath], e)]
              /\ cursize' = cursize + s /\ wpc' = nx
           \/ data' = data /\ cursize' = cursize /\ wpc' = "failed"
<1> DEFINE d == data[volpath]
<1>1. data \in [Paths -> Seq(Entry)] /\ volpath \in Paths
  BY PathsDiffer DEF VolumesTypeOK, volpath
<1>2. d \in Seq(Entry) BY <1>1
<1>3. d \o <<e>> = Append(d, e) BY <1>2, AppendIsConcat
<1>4. Len(<<e>>) - 1 = 0 OBVIOUS
<1>5. SubSeq(<<e>>, 1, 0) = <<>> OBVIOUS
<1>6. d \o <<>> = d BY <1>2
<1>7. [data EXCEPT ![volpath] = d] = data BY <1>1
<1>8. CASE /\ data' = [data EXCEPT ![volpath] = d \o <<e>>]
           /\ cursize' = cursize + s /\ wpc' = nx
  BY <1>8, <1>3
<1>9. CASE /\ \E k \in 0 .. Len(<<e>>) - 1 :
                 data' = [data EXCEPT ![volpath] = d \o SubSeq(<<e>>, 1, k)]
           /\ cursize' = cursize /\ wpc' = "failed"
  <2>1. PICK k \in 0 .. Len(<<e>>) - 1 :
                 data' = [data EXCEPT ![volpath] = d \o SubSeq(<<e>>, 1, k)]
    BY <1>9
  <2>2. k = 0 BY <1>4
  <2>3. data' = data BY <2>1, <2>2, <1>5, <1>6, <1>7
  <2> QED BY <2>3, <1>9
<1> QED BY <1>8, <1>9 DEF archwriter_write_buffer

LEMMA WriteTwo ==
    ASSUME VolumesTypeOK, NEW e \in Entry, NEW f \in Entry, NEW s, NEW nx,
           NEW buf, buf.entries = <<e, f>>, buf.size = s,
           archwriter_write_buffer(buf, nx)
    PROVE  \/ /\ data' = [data EXCEPT ![volpath] = Append(Append(data[volpath], e), f)]
              /\ cursize' = cursize + s /\ wpc' = nx
           \/ data' = data /\ cursize' = cursize /\ wpc' = "failed"
           \/ /\ data' = [data EXCEPT ![volpath] = Append(data[volpath], e)]
              /\ cursize' = cursize /\ wpc' = "failed"
<1> DEFINE d == data[volpath]
<1>1. data \in [Paths -> Seq(Entry)] /\ volpath \in Paths
  BY PathsDiffer DEF VolumesTypeOK, volpath
<1>2. d \in Seq(Entry) BY <1>1
<1>3. d \o <<e, f>> = Append(Append(d, e), f)
  <2>1. Append(d, e) = d \o <<e>> BY <1>2, AppendIsConcat
  <2>2. Append(d, e) \in Seq(Entry) BY <1>2
  <2>3. Append(Append(d, e), f) = (d \o <<e>>) \o <<f>> BY <2>1, <2>2, AppendIsConcat
  <2>4. <<e>> \in Seq(Entry) /\ <<f>> \in Seq(Entry) OBVIOUS
  <2>5. (d \o <<e>>) \o <<f>> = d \o (<<e>> \o <<f>>) BY <1>2, <2>4, ConcatAssociative
  <2>6. <<e>> \o <<f>> = <<e, f>>
    <3>1. <<e>> \o <<f>> = Append(<<e>>, f) BY <2>4, AppendIsConcat
    <3>2. Append(<<e>>, f) = <<e, f>>
      <4> DEFINE u == Append(<<e>>, f)
      <4> DEFINE v == <<e, f>>
      <4>1. <<e>>[1] = e /\ Len(<<e>>) = 1 OBVIOUS
      <4>2. u \in Seq(Entry) /\ Len(u) = 2 /\ u[1] = e /\ u[2] = f
        BY <2>4, <4>1, AppendProperties
      <4>3. v \in Seq(Entry) /\ Len(v) = 2 /\ v[1] = e /\ v[2] = f OBVIOUS
      <4> HIDE DEF u, v
      <4>4. \A i \in 1 .. 2 : i = 1 \/ i = 2 OBVIOUS
      <4>5. u = v BY <4>2, <4>3, <4>4, SeqEqual
      <4> QED BY <4>5 DEF u, v
    <3> QED BY <3>1, <3>2
  <2> QED BY <2>3, <2>5, <2>6
<1>4. Len(<<e, f>>) - 1 = 1 OBVIOUS
<1>5. SubSeq(<<e, f>>, 1, 0) = <<>> /\ SubSeq(<<e, f>>, 1, 1) = <<e>>
  <2> DEFINE u == SubSeq(<<e, f>>, 1, 1)
  <2> DEFINE v == <<e>>
  <2>1. SubSeq(<<e, f>>, 1, 0) = <<>> BY SubSeqEmpty
  <2>2. \A i \in 1 .. 1 : <<e, f>>[i] \in Entry OBVIOUS
  <2>3. u \in Seq(Entry) /\ Len(u) = 1 /\ \A i \in 1 .. 1 : u[i] = <<e, f>>[i]
    BY <2>2, SubSeqProperties
  <2>4. v \in Seq(Entry) /\ Len(v) = 1 /\ v[1] = e OBVIOUS
  <2>5. <<e, f>>[1] = e OBVIOUS
  <2> HIDE DEF u, v
  <2>6. u = v BY <2>3, <2>4, <2>5, SeqEqual
  <2> QED BY <2>1, <2>6 DEF u, v
<1>6. d \o <<>> = d BY <1>2
<1>7. d \o <<e>> = Append(d, e) BY <1>2, AppendIsConcat
<1>8. [data EXCEPT ![volpath] = d] = data BY <1>1
<1>9. CASE /\ data' = [data EXCEPT ![volpath] = d \o <<e, f>>]
           /\ cursize' = cursize + s /\ wpc' = nx
  BY <1>9, <1>3
<1>10. CASE /\ \E k \in 0 .. Len(<<e, f>>) - 1 :
                 data' = [data EXCEPT ![volpath] = d \o SubSeq(<<e, f>>, 1, k)]
            /\ cursize' = cursize /\ wpc' = "failed"
  <2>1. PICK k \in 0 .. Len(<<e, f>>) - 1 :
                 data' = [data EXCEPT ![volpath] = d \o SubSeq(<<e, f>>, 1, k)]
    BY <1>10
  <2>2. k = 0 \/ k = 1 BY <1>4
  <2>3. CASE k = 0 BY <2>1, <2>3, <1>5, <1>6, <1>8, <1>10
  <2>4. CASE k = 1 BY <2>1, <2>4, <1>5, <1>7, <1>10
  <2> QED BY <2>2, <2>3, <2>4
<1> QED BY <1>9, <1>10 DEF archwriter_write_buffer

\* The files after a change of the current volume
LEMMA VolumeWrite ==
    ASSUME VolumesInv, NEW dd \in Seq(Entry), WellFormed(dd),
           data' = [data EXCEPT ![volpath] = dd], present' = present,
           wpc \in {"volheader", "next", "split", "write"}, wpc' # "removed",
           UNCHANGED <<vollist, kept, readervars>>,
           Len(dd) > 0 => dd[1] = VolHeader("new", curvol),
           Len(dd) > 1 =>
              \/ Len(data[volpath]) > 1 /\ dd[2] = data[volpath][2]
              \/ \A p \in present :
                    New(p) /\ Closed(data[p]) /\ data[p][1].num + 1 = curvol
                    => dd[2].num = data[p][Len(data[p]) - 1].num + 1
    PROVE  /\ rpc = "idle" /\ FilesInv' /\ RemoveInv'
           /\ \A p \in present' : New(p)' =>
                 p = get_path_to_volume(data'[p][1].num) /\ data'[p][1].num <= curvol
           /\ \A n \in 0 .. curvol : n < curvol => FullVolume(get_path_to_volume(n), n, FALSE)'
<1>t. VolumesTypeOK BY DEF VolumesInv
<1>1. rpc = "idle" BY DEF VolumesInv, StageInv, Ended
<1>2. /\ data' \in [Paths -> Seq(Entry)] /\ volpath \in Paths /\ data'[volpath] = dd
      /\ \A p \in Paths : p # volpath => data'[p] = data[p]
  BY <1>t, OneFile
<1>3. present \subseteq Paths /\ curvol \in Nat /\ data \in [Paths -> Seq(Entry)]
  BY <1>t DEF VolumesTypeOK
<1>4. ASSUME NEW p \in present, New(p)
      PROVE  p = get_path_to_volume(data[p][1].num) /\ data[p][1].num <= curvol
  BY <1>1, <1>4 DEF VolumesInv, StageInv
<1>5. volpath \in present /\ \E i \in 1 .. Len(vollist) : vollist[i] = volpath
  BY DEF VolumesInv, CurrentInv, Writing
<1>6. VolHeader("new", curvol).archid = "new" /\ VolHeader("new", curvol).num = curvol
  BY <1>3, EntryTypes
<1>7. \A p \in Paths : data[p] \in Seq(Entry) /\ Len(data[p]) \in Nat BY <1>3
<1>8. Len(dd) \in Nat OBVIOUS
<1>9. ASSUME NEW p \in present PROVE WellFormed(data'[p])
  <2>1. CASE p = volpath BY <2>1, <1>2
  <2>2. CASE p # volpath
    <3>1. data'[p] = data[p] BY <2>2, <1>2, <1>3
    <3> QED BY <3>1 DEF VolumesInv, FilesInv
  <2> QED BY <2>1, <2>2
<1>10. ASSUME NEW p \in present, NEW q \in present PROVE GoesOn(data'[p], data'[q])
  <2>0. GoesOn(data[p], data[q]) BY DEF VolumesInv, FilesInv
  <2>1. CASE p # volpath /\ q # volpath
    <3>1. data'[p] = data[p] /\ data'[q] = data[q] BY <2>1, <1>2, <1>3
    <3> QED BY <3>1, <2>0
  <2>2. CASE p # volpath /\ q = volpath
    <3>1. data'[p] = data[p] /\ data'[q] = dd BY <2>2, <1>2, <1>3
    <3>2. SUFFICES ASSUME Closed(data[p]), Len(dd) > 1, dd[1].archid = data[p][1].archid,
                          dd[1].num = data[p][1].num + 1
                   PROVE  dd[2].num = data[p][Len(data[p]) - 1].num + 1
      BY <3>1 DEF GoesOn
    <3>3. dd[1] = VolHeader("new", curvol) BY <3>2, <1>8
    <3>4. Len(data[p]) > 2 BY <3>2 DEF Closed
    <3>5. data[p] # <<>> BY <3>4
    <3>6. New(p) /\ data[p][1].num + 1 = curvol BY <3>2, <3>3, <3>5, <1>6 DEF New
    <3>7. CASE Len(data[volpath]) > 1 /\ dd[2] = data[volpath][2]
      <4>1. data[volpath][1] = VolHeader("new", curvol)
        <5>1. wpc # "volheader" BY <3>7 DEF VolumesInv, CurrentInv
        <5> QED BY <5>1 DEF VolumesInv, CurrentInv
      <4> QED BY <2>0, <2>2, <3>2, <3>3, <3>7, <4>1 DEF GoesOn
    <3>8. CASE ~(Len(data[volpath]) > 1 /\ dd[2] = data[volpath][2])
      BY <3>2, <3>6, <3>8
    <3> QED BY <3>7, <3>8
  <2>3. CASE p = volpath /\ q # volpath
    <3>1. data'[p] = dd /\ data'[q] = data[q] BY <2>3, <1>2, <1>3
    <3>2. SUFFICES ASSUME Closed(dd), Len(data[q]) > 1, data[q][1].archid = dd[1].archid,
                          data[q][1].num = dd[1].num + 1
                   PROVE  FALSE
      BY <3>1 DEF GoesOn
    <3>3. Len(dd) > 2 BY <3>2 DEF Closed
    <3>4. dd[1] = VolHeader("new", curvol) BY <3>3, <1>8
    <3>5. data[q] # <<>> BY <3>2
    <3>6. New(q) BY <3>2, <3>4, <3>5, <1>6 DEF New
    <3>7. data[q][1].num <= curvol BY <3>6, <1>4
    <3> QED BY <3>2, <3>4, <3>7, <1>6, <1>3
  <2>4. CASE p = volpath /\ q = volpath
    <3>1. data'[p] = dd /\ data'[q] = dd BY <2>4, <1>2
    <3>2. SUFFICES ASSUME Closed(dd), dd[1].num = dd[1].num + 1 PROVE FALSE
      BY <3>1 DEF GoesOn
    <3>3. Len(dd) > 2 BY <3>2 DEF Closed
    <3>4. dd[1].num = curvol BY <3>3, <1>6, <1>8
    <3> QED BY <3>2, <3>4, <1>3
  <2> QED BY <2>1, <2>2, <2>3, <2>4
<1>11. FilesInv' BY <1>9, <1>10 DEF FilesInv
<1>12. ASSUME NEW p \in present', New(p)'
       PROVE  p = get_path_to_volume(data'[p][1].num) /\ data'[p][1].num <= curvol
  <2>1. CASE p = volpath
    <3>1. dd # <<>> BY <1>12, <2>1, <1>2 DEF New
    <3>2. Len(dd) > 0 BY <3>1, <1>8
    <3> QED BY <2>1, <3>2, <1>2, <1>6, <1>3 DEF volpath
  <2>2. CASE p # volpath
    <3>1. data'[p] = data[p] BY <2>2, <1>2, <1>3
    <3>2. New(p) BY <3>1, <1>12 DEF New
    <3> QED BY <3>1, <3>2, <1>4
  <2> QED BY <2>1, <2>2
<1>13. ASSUME NEW n \in 0 .. curvol, n < curvol
       PROVE  FullVolume(get_path_to_volume(n), n, FALSE)'
  <2>1. FullVolume(get_path_to_volume(n), n, FALSE)
    BY <1>13 DEF VolumesInv, DoneInv, Writing
  <2>2. get_path_to_volume(n) # volpath BY <1>3, <1>13, PathsDiffer DEF volpath
  <2>3. data'[get_path_to_volume(n)] = data[get_path_to_volume(n)]
    BY <2>1, <2>2, <1>2, <1>3 DEF FullVolume
  <2> QED BY <2>1, <2>3 DEF FullVolume
<1>14. RemoveInv'
  <2>1. ASSUME NEW i \in 1 .. Len(vollist)
        PROVE  data'[vollist[i]] = <<>> \/ (data'[vollist[i]] # <<>> /\ data'[vollist[i]][1].archid = "new")
    <3>1. vollist[i] \in Paths BY <1>t DEF VolumesTypeOK
    <3>2. CASE vollist[i] = volpath
      <4>1. dd = <<>> \/ Len(dd) > 0 BY <1>8
      <4> QED BY <3>2, <4>1, <1>2, <1>6
    <3>3. CASE vollist[i] # volpath
      <4>1. data'[vollist[i]] = data[vollist[i]] BY <3>1, <3>3, <1>2
      <4> QED BY <4>1 DEF VolumesInv, RemoveInv, New
    <3> QED BY <3>2, <3>3
  <2>2. ASSUME NEW p \in present \ kept, New(p)'
        PROVE  \E i \in 1 .. Len(vollist) : vollist[i] = p
    <3>1. CASE p = volpath BY <3>1, <1>5
    <3>2. CASE p # volpath
      <4>1. data'[p] = data[p] BY <3>2, <1>2, <1>3
      <4>2. New(p) BY <2>2, <4>1 DEF New
      <4> QED BY <4>2, <1>1 DEF VolumesInv, RemoveInv
    <3> QED BY <3>1, <3>2
  <2>3. vollist # <<>> BY <1>5
  <2>4. vollist' = vollist /\ kept' = kept OBVIOUS
  <2>5. \A p \in present' \ kept' : New(p)' =>
           vollist' # <<>> /\ \E i \in 1 .. Len(vollist') : vollist'[i] = p
    BY <2>2, <2>3, <2>4
  <2>6. \A i \in 1 .. Len(vollist') : data'[vollist'[i]] = <<>>
           \/ (data'[vollist'[i]] # <<>> /\ data'[vollist'[i]][1].archid = "new")
    BY <2>1, <2>4
  <2> QED BY <2>5, <2>6 DEF RemoveInv, New
<1> QED BY <1>1, <1>11, <1>12, <1>13, <1>14

LEMMA WriterTypes ==
    ASSUME VolumesTypeOK, options' = options, present' \subseteq Paths,
           data' \in [Paths -> Seq(Entry)], cursize' \in Nat,
           wpc' \in Writing \cup {"remove"} \cup Ended, curvol' \in 0 .. MaxItems,
           vollist' \in Seq(Paths), wb' \in [entries: Seq(Entry), size: Nat],
           count' \in 0 .. MaxItems, kept' \subseteq Paths, UNCHANGED readervars
    PROVE  VolumesTypeOK'
<1>1. /\ rpc' \in {"idle", "open", "main", "loop", "prompt", "end"}
      /\ rvol' \in Nat /\ rpath' \in Paths /\ rpos' \in Nat \ {0}
      /\ rarchid' \in {"none", "old", "new"} /\ got' \in Seq(Entry)
  BY DEF VolumesTypeOK, readervars
<1>2. endofarchive' \in BOOLEAN /\ mistyped' \in BOOLEAN BY DEF VolumesTypeOK, readervars
<1>3. options' \in Options BY DEF VolumesTypeOK
<1>4. wpc' \in {"create", "volheader", "next", "split", "write", "remove"} \cup Ended BY DEF Writing
<1> QED BY <1>1, <1>2, <1>3, <1>4 DEF VolumesTypeOK

LEMMA NoBufferType == NoBuffer \in [entries: Seq(Entry), size: Nat]
  BY DEF NoBuffer

\* A writer that has stopped promises nothing of the volume it was writing.
LEMMA StoppedWriter ==
    ASSUME wpc' \in {"failed", "crashed", "removed", "remove"}
    PROVE  BufferInv' /\ CurrentInv' /\ DoneInv'
<1>1. BufferInv' BY DEF BufferInv
<1>2. CurrentInv' BY DEF CurrentInv, Writing
<1>3. DoneInv' BY DEF DoneInv, Writing
<1> QED BY <1>1, <1>2, <1>3

\* A step that fails before it writes anything
LEMMA FailedStep ==
    ASSUME VolumesInv, wpc \in Writing, wpc' = "failed", cursize' = cursize,
           wb' = wb \/ wb' = NoBuffer,
           UNCHANGED <<options, present, data, curvol, vollist, count, kept, readervars>>
    PROVE  VolumesInv'
<1>t. VolumesTypeOK BY DEF VolumesInv
<1>1. rpc = "idle" BY DEF VolumesInv, StageInv, Ended, Writing
<1>2. VolumesTypeOK'
  <2>1. wb' \in [entries: Seq(Entry), size: Nat] BY <1>t, NoBufferType DEF VolumesTypeOK
  <2>2. /\ present' \subseteq Paths /\ data' \in [Paths -> Seq(Entry)] /\ cursize' \in Nat
        /\ curvol' \in 0 .. MaxItems /\ vollist' \in Seq(Paths) /\ count' \in 0 .. MaxItems
        /\ kept' \subseteq Paths
    BY <1>t DEF VolumesTypeOK
  <2>3. wpc' \in Writing \cup {"remove"} \cup Ended BY DEF Ended
  <2> QED BY <1>t, <2>1, <2>2, <2>3, WriterTypes
<1>3. FilesInv' BY DEF VolumesInv, FilesInv
<1>4. StageInv'
  <2>1. \A p \in present : New(p) =>
          p = get_path_to_volume(data[p][1].num) /\ data[p][1].num <= curvol
    BY <1>1 DEF VolumesInv, StageInv
  <2> QED BY <2>1 DEF StageInv, Ended, New
<1>5. BufferInv' /\ CurrentInv' /\ DoneInv' BY StoppedWriter
<1>6. LastInv'
  <2>1. wpc \notin {"done", "remove", "removed", "crashed"} BY DEF Writing
  <2> QED BY <2>1 DEF VolumesInv, LastInv
<1>7. RemoveInv'
  <2>1. rpc' = rpc BY DEF readervars
  <2>2. RemoveInv BY DEF VolumesInv
  <2> QED BY <2>1, <2>2 DEF RemoveInv, New
<1>8. ReaderInv' /\ ReadableInv' /\ ItemsOfOneArchive' /\ EndMeansWhole'
  BY <1>1, IdleReader
<1> QED BY <1>2, <1>3, <1>4, <1>5, <1>6, <1>7, <1>8 DEF VolumesInv

\* No footer of a last volume appears.
LEMMA LastAfterWrite ==
    ASSUME VolumesInv, NEW dd \in Seq(Entry),
           data' = [data EXCEPT ![volpath] = dd], present' \subseteq present \cup {volpath},
           wpc \in Writing,
           \A i \in 1 .. Len(dd) :
              ~(dd[i].magic = "VOLF" /\ dd[i].lastvol /\ dd[i].archid = "new")
    PROVE  LastInv'
<1>1. /\ volpath \in Paths /\ data'[volpath] = dd
      /\ \A p \in Paths : p # volpath => data'[p] = data[p]
  BY OneFile DEF VolumesInv
<1>2. present \subseteq Paths BY DEF VolumesInv, VolumesTypeOK
<1>3. ASSUME NEW p \in present', NEW i \in 1 .. Len(data'[p])
      PROVE  ~(data'[p][i].magic = "VOLF" /\ data'[p][i].lastvol /\ data'[p][i].archid = "new")
  <2>1. CASE p = volpath BY <2>1, <1>1
  <2>2. CASE p # volpath
    <3>1. p \in present /\ data'[p] = data[p] BY <2>2, <1>1, <1>2
    <3>2. wpc \notin {"done", "remove", "removed", "crashed"} BY DEF Writing
    <3> QED BY <3>1, <3>2 DEF VolumesInv, LastInv
  <2> QED BY <2>1, <2>2
<1> QED BY <1>3 DEF LastInv

\* The current volume itself has no such footer.
LEMMA NoLastYet ==
    ASSUME VolumesInv, wpc \in Writing, volpath \in present
    PROVE  \A i \in 1 .. Len(data[volpath]) :
              ~(/\ data[volpath][i].magic = "VOLF" /\ data[volpath][i].lastvol
                /\ data[volpath][i].archid = "new")
<1>1. wpc \notin {"done", "remove", "removed", "crashed"} BY DEF Writing
<1> QED BY <1>1 DEF VolumesInv, LastInv

-----------------------------------------------------------------------------
(* The steps of the writer *)

LEMMA CreateStep ==
    ASSUME VolumesInv, archwriter_create
    PROVE  VolumesInv'
<1>t. VolumesTypeOK BY DEF VolumesInv
<1>w. wpc = "create" /\ UNCHANGED <<options, curvol, wb, count, kept, readervars>>
  BY DEF archwriter_create
<1>1. CASE wpc' = "failed" /\ UNCHANGED <<filevars, vollist>>
  <2>1. wpc \in Writing BY <1>w DEF Writing
  <2>2. UNCHANGED <<options, present, data, curvol, vollist, count, kept, readervars>>
        /\ cursize' = cursize /\ wb' = wb
    BY <1>1, <1>w DEF filevars
  <2> QED BY <1>1, <2>1, <2>2, FailedStep
<1>2. CASE /\ volpath \notin present \/ options.overwrite
           /\ present' = present \cup {volpath}
           /\ data' = [data EXCEPT ![volpath] = <<>>]
           /\ cursize' = 0
           /\ vollist' = Append(vollist, volpath)
           /\ wpc' = "volheader"
  <2>1. rpc = "idle" BY <1>w DEF VolumesInv, StageInv, Ended
  <2>2. <<>> \in Seq(Entry) OBVIOUS
  <2>3. /\ data' \in [Paths -> Seq(Entry)] /\ volpath \in Paths /\ data'[volpath] = <<>>
        /\ \A p \in Paths : p # volpath => data'[p] = data[p]
    BY <1>2, <1>t, <2>2, OneFile
  <2>4. present \subseteq Paths /\ curvol \in 0 .. MaxItems /\ vollist \in Seq(Paths) /\ curvol \in Nat
    BY <1>t DEF VolumesTypeOK
  <2>5. /\ vollist' \in Seq(Paths) /\ Len(vollist') = Len(vollist) + 1 /\ Len(vollist) \in Nat
        /\ \A i \in 1 .. Len(vollist) : vollist'[i] = vollist[i]
        /\ vollist'[Len(vollist) + 1] = volpath
    BY <1>2, <2>3, <2>4
  <2>6. volpath' = volpath BY <1>w DEF volpath
  <2>7. ASSUME NEW p \in present', New(p)'
        PROVE  p \in present /\ p # volpath /\ data'[p] = data[p] /\ New(p)
    BY <2>7, <1>2, <2>3, <2>4 DEF New
  <2>8. VolumesTypeOK'
    <3>1. /\ present' \subseteq Paths /\ cursize' \in Nat /\ curvol' \in 0 .. MaxItems
          /\ count' \in 0 .. MaxItems /\ kept' \subseteq Paths
      BY <1>2, <1>w, <1>t, <2>3, <2>4 DEF VolumesTypeOK
    <3>2. wb' \in [entries: Seq(Entry), size: Nat] BY <1>w, <1>t DEF VolumesTypeOK
    <3>3. wpc' \in Writing \cup {"remove"} \cup Ended BY <1>2 DEF Writing
    <3>4. options' = options /\ UNCHANGED readervars BY <1>w
    <3> QED BY <1>t, <2>3, <2>5, <3>1, <3>2, <3>3, <3>4, WriterTypes
  <2>9. FilesInv'
    <3>1. ASSUME NEW p \in present' PROVE WellFormed(data'[p])
      <4>1. CASE p = volpath BY <4>1, <2>3 DEF WellFormed
      <4>2. CASE p # volpath
        <5>1. p \in present /\ data'[p] = data[p] BY <4>2, <1>2, <2>3, <2>4
        <5> QED BY <5>1 DEF VolumesInv, FilesInv
      <4> QED BY <4>1, <4>2
    <3>2. ASSUME NEW p \in present', NEW q \in present' PROVE GoesOn(data'[p], data'[q])
      <4>1. CASE p = volpath \/ q = volpath BY <4>1, <2>3 DEF GoesOn, Closed
      <4>2. CASE p # volpath /\ q # volpath
        <5>1. p \in present /\ data'[p] = data[p] /\ q \in present /\ data'[q] = data[q]
          BY <4>2, <1>2, <2>3, <2>4
        <5> QED BY <5>1 DEF VolumesInv, FilesInv
      <4> QED BY <4>1, <4>2
    <3> QED BY <3>1, <3>2 DEF FilesInv
  <2>10. StageInv'
    <3>1. rpc' = "idle" BY <1>w, <2>1 DEF readervars
    <3>2. ASSUME NEW p \in present', New(p)'
          PROVE  p = get_path_to_volume(data'[p][1].num) /\ data'[p][1].num <= curvol'
      BY <3>2, <2>7, <2>1, <1>w DEF VolumesInv, StageInv
    <3> QED BY <1>2, <3>1, <3>2 DEF StageInv
  <2>11. BufferInv'
    <3>1. \/ curvol = 0 /\ count = 0 /\ wb = NoBuffer
          \/ curvol > 0 /\ count > 0 /\ WaitingItem /\ ClosedBefore
      BY <1>w DEF VolumesInv, BufferInv
    <3>2. WaitingItem => WaitingItem' BY <1>w DEF WaitingItem
    <3>3. ClosedBefore => ClosedBefore'
      BY <2>7, <1>w DEF ClosedBefore
    <3> QED BY <1>2, <1>w, <3>1, <3>2, <3>3 DEF BufferInv
  <2>12. CurrentInv'
    <3>1. volpath' \in present' /\ \E i \in 1 .. Len(vollist') : vollist'[i] = volpath'
      BY <1>2, <2>5, <2>6
    <3>2. data'[volpath'] = <<>> /\ cursize' = 0 BY <1>2, <2>3, <2>6
    <3> QED BY <1>2, <3>1, <3>2 DEF CurrentInv
  <2>13. LastInv'
    <3>1. wpc \in Writing BY <1>w DEF Writing
    <3>2. \A i \in 1 .. Len(<<>>) : FALSE OBVIOUS
    <3> QED BY <1>2, <2>2, <3>1, <3>2, LastAfterWrite
  <2>14. RemoveInv'
    <3>1. ASSUME NEW i \in 1 .. Len(vollist')
          PROVE  data'[vollist'[i]] = <<>>
                 \/ (data'[vollist'[i]] # <<>> /\ data'[vollist'[i]][1].archid = "new")
      <4>1. CASE vollist'[i] = volpath BY <4>1, <2>3
      <4>2. CASE vollist'[i] # volpath
        <5>1. i \in 1 .. Len(vollist) BY <4>2, <2>5
        <5>2. vollist'[i] = vollist[i] /\ vollist[i] \in Paths BY <5>1, <2>5, <2>4
        <5>3. data'[vollist'[i]] = data[vollist[i]] BY <4>2, <5>2, <2>3
        <5> QED BY <5>1, <5>3 DEF VolumesInv, RemoveInv, New
      <4> QED BY <4>1, <4>2
    <3>2. ASSUME NEW p \in present' \ kept', New(p)'
          PROVE  vollist' # <<>> /\ \E i \in 1 .. Len(vollist') : vollist'[i] = p
      <4>1. p \in present \ kept /\ New(p) BY <3>2, <2>7, <1>w
      <4>2. PICK i \in 1 .. Len(vollist) : vollist[i] = p
        BY <4>1, <2>1 DEF VolumesInv, RemoveInv
      <4>3. i \in 1 .. Len(vollist') /\ vollist'[i] = p BY <4>2, <2>5
      <4> QED BY <4>3, <2>5
    <3> QED BY <1>2, <3>1, <3>2 DEF RemoveInv, New
  <2>15. DoneInv'
    <3>1. ASSUME NEW n \in 0 .. curvol, n < curvol
          PROVE  FullVolume(get_path_to_volume(n), n, FALSE)'
      <4>1. FullVolume(get_path_to_volume(n), n, FALSE)
        BY <3>1, <1>w DEF VolumesInv, DoneInv, Writing
      <4>2. get_path_to_volume(n) # volpath BY <2>4, <3>1, PathsDiffer DEF volpath
      <4>3. data'[get_path_to_volume(n)] = data[get_path_to_volume(n)]
        BY <4>1, <4>2, <2>3, <2>4 DEF FullVolume
      <4> QED BY <4>1, <4>3, <1>2 DEF FullVolume
    <3> QED BY <1>2, <1>w, <3>1 DEF DoneInv
  <2>16. ReaderInv' /\ ReadableInv' /\ ItemsOfOneArchive' /\ EndMeansWhole'
    BY <1>w, <2>1, IdleReader
  <2> QED BY <2>8, <2>9, <2>10, <2>11, <2>12, <2>13, <2>14, <2>15, <2>16 DEF VolumesInv
<1> QED BY <1>1, <1>2 DEF archwriter_create

\* The header of a volume, written in an empty file
LEMMA VolHeaderStep ==
    ASSUME VolumesInv, archwriter_write_volheader
    PROVE  VolumesInv'
<1>t. VolumesTypeOK BY DEF VolumesInv
<1> DEFINE e == VolHeader("new", curvol)
<1> DEFINE nx == IF wb = NoBuffer THEN "next" ELSE "write"
<1> DEFINE dd == Append(data[volpath], e)
<1>w. /\ wpc = "volheader" /\ archwriter_write_buffer([entries |-> <<e>>, size |-> 1], nx)
      /\ UNCHANGED <<options, present, curvol, vollist, wb, count, kept, readervars>>
  BY DEF archwriter_write_volheader
<1>2. wpc \in Writing BY <1>w DEF Writing
<1>3. curvol \in 0 .. MaxItems /\ curvol \in Nat /\ count \in Nat BY <1>t, VolumesAssumption DEF VolumesTypeOK
<1>4. e \in Entry /\ e.archid = "new" /\ e.magic = "VOLH" /\ e.num = curvol BY <1>3, EntryTypes
<1>5. \/ data' = [data EXCEPT ![volpath] = dd] /\ cursize' = cursize + 1 /\ wpc' = nx
      \/ data' = data /\ cursize' = cursize /\ wpc' = "failed"
  BY <1>t, <1>4, <1>w, WriteOne
<1>6. CASE data' = data /\ cursize' = cursize /\ wpc' = "failed"
  BY <1>6, <1>2, <1>w, FailedStep
<1>7. CASE data' = [data EXCEPT ![volpath] = dd] /\ cursize' = cursize + 1 /\ wpc' = nx
  <2>1. data[volpath] = <<>> /\ cursize = 0 BY <1>w DEF VolumesInv, CurrentInv
  <2>2. dd \in Seq(Entry) /\ Len(dd) = 1 /\ dd[1] = e BY <2>1, <1>4
  <2>3. WellFormed(dd)
    <3> HIDE DEF dd
    <3>1. \A i \in 1 .. Len(dd) : i = 1 BY <2>2
    <3> QED BY <2>2, <3>1, <1>4 DEF WellFormed
  <2>4. nx \in {"next", "write"} OBVIOUS
  <2>5. Len(dd) > 0 => dd[1] = VolHeader("new", curvol) BY <2>2
  <2>6. ~(Len(dd) > 1) BY <2>2
  <2>7. wpc' # "removed" BY <1>7, <2>4
  <2>8. wpc \in {"volheader", "next", "split", "write"} BY <1>w
  <2>9. UNCHANGED <<vollist, kept, readervars>> /\ present' = present BY <1>w
  <2> HIDE DEF dd, nx
  <2>10. /\ rpc = "idle" /\ FilesInv' /\ RemoveInv'
         /\ \A p \in present' : New(p)' =>
               p = get_path_to_volume(data'[p][1].num) /\ data'[p][1].num <= curvol
         /\ \A n \in 0 .. curvol : n < curvol => FullVolume(get_path_to_volume(n), n, FALSE)'
    BY <2>2, <2>3, <2>5, <2>6, <2>7, <2>8, <2>9, <1>7, VolumeWrite
  <2>11. /\ data' \in [Paths -> Seq(Entry)] /\ volpath \in Paths /\ data'[volpath] = dd
         /\ \A p \in Paths : p # volpath => data'[p] = data[p]
    BY <1>7, <1>t, <2>2, OneFile
  <2>12. volpath' = volpath BY <1>w DEF volpath
  <2>13. VolumesTypeOK'
    <3>1. /\ present' \subseteq Paths /\ curvol' \in 0 .. MaxItems
          /\ count' \in 0 .. MaxItems /\ kept' \subseteq Paths /\ vollist' \in Seq(Paths)
      BY <1>w, <1>t DEF VolumesTypeOK
    <3>2. wb' \in [entries: Seq(Entry), size: Nat] BY <1>w, <1>t DEF VolumesTypeOK
    <3>3. wpc' \in Writing \cup {"remove"} \cup Ended BY <1>7, <2>4 DEF Writing
    <3>4. options' = options /\ UNCHANGED readervars BY <1>w
    <3>5. cursize' \in Nat BY <1>7, <2>1
    <3> QED BY <1>t, <2>11, <3>1, <3>2, <3>3, <3>4, <3>5, WriterTypes
  <2>14. StageInv'
    <3>1. rpc' = "idle" /\ curvol' = curvol BY <1>w, <2>10 DEF readervars
    <3>2. wpc' # "create" BY <1>7, <2>4
    <3> QED BY <3>1, <3>2, <2>10 DEF StageInv
  <2>15. \/ curvol = 0 /\ count = 0 /\ wb = NoBuffer
         \/ curvol > 0 /\ count > 0 /\ WaitingItem /\ ClosedBefore
    BY <1>w DEF VolumesInv, BufferInv
  <2>16. WaitingItem => wb # NoBuffer
    <3>1. WaitingItem => wb.entries # <<>> BY DEF WaitingItem
    <3>2. NoBuffer.entries = <<>> BY DEF NoBuffer
    <3> QED BY <3>1, <3>2
  <2>17. ClosedBefore => ClosedBefore'
    <3>1. ASSUME NEW p \in present', New(p)', Closed(data'[p])
          PROVE  p \in present /\ p # volpath /\ data'[p] = data[p] /\ New(p)
      <4>1. p # volpath BY <3>1, <2>11, <2>2 DEF Closed
      <4>2. p \in present /\ p \in Paths BY <1>w, <1>t DEF VolumesTypeOK
      <4> QED BY <3>1, <4>1, <4>2, <2>11 DEF New
    <3>2. curvol' = curvol /\ count' = count BY <1>w
    <3> QED BY <3>1, <3>2 DEF ClosedBefore
  <2>18. WaitingItem => WaitingItem' BY <1>w DEF WaitingItem
  <2>19. \/ wpc' = "next" /\ wb = NoBuffer /\ curvol = 0 /\ count = 0
         \/ wpc' = "write" /\ curvol > 0 /\ count > 0 /\ WaitingItem' /\ ClosedBefore'
    BY <1>7, <2>15, <2>16, <2>17, <2>18 DEF nx
  <2>20. BufferInv'
    <3>1. wb' = wb /\ curvol' = curvol /\ count' = count BY <1>w
    <3>2. wpc' = "next" => curvol' <= count' BY <2>19, <3>1
    <3> QED BY <2>19, <3>1, <3>2 DEF BufferInv
  <2>21. CurrentInv'
    <3>1. volpath \in present /\ \E i \in 1 .. Len(vollist) : vollist[i] = volpath
      BY <1>w DEF VolumesInv, CurrentInv, Writing
    <3>2. volpath' \in present' /\ \E i \in 1 .. Len(vollist') : vollist'[i] = volpath'
      BY <3>1, <1>w, <2>12
    <3>3. data'[volpath'] = dd /\ curvol' = curvol /\ count' = count /\ cursize' = 1
      BY <2>11, <2>12, <1>w, <1>7, <2>1
    <3>4. dd # <<>> /\ dd[1] = VolHeader("new", curvol) /\ Len(dd) = 1 /\ ~(Len(dd) > 1)
      BY <2>2
    <3> QED BY <2>19, <3>2, <3>3, <3>4 DEF CurrentInv
  <2>22. LastInv'
    <3>1. \A i \in 1 .. Len(dd) : dd[i].magic # "VOLF" BY <2>2, <1>4
    <3> QED BY <1>2, <1>7, <2>2, <2>9, <3>1, LastAfterWrite
  <2>23. DoneInv'
    <3>1. curvol' = curvol BY <1>w
    <3> QED BY <2>10, <2>19, <3>1 DEF DoneInv
  <2>24. ReaderInv' /\ ReadableInv' /\ ItemsOfOneArchive' /\ EndMeansWhole'
    BY <2>9, <2>10, IdleReader
  <2> QED BY <2>10, <2>13, <2>14, <2>20, <2>21, <2>22, <2>23, <2>24 DEF VolumesInv
<1> QED BY <1>5, <1>6, <1>7

\* An item is taken from the queue.
LEMMA DoWriteStep ==
    ASSUME VolumesInv, archwriter_dowrite
    PROVE  VolumesInv'
<1>t. VolumesTypeOK BY DEF VolumesInv
<1>w. /\ wpc = "next" /\ count < MaxItems
      /\ UNCHANGED <<options, present, data, cursize, curvol, vollist, count, kept, readervars>>
  BY DEF archwriter_dowrite, filevars
<1>2. wb' \in IF count = 0 THEN {writebuf_add_header("MAIN", 1, 1)}
                  ELSE {writebuf_add_header("HEAD", count + 1, s) : s \in HeaderSizes}
                       \cup {writebuf_add_block(count + 1, s) : s \in BlockSizes}
  BY DEF archwriter_dowrite
<1>3. wpc' = IF archwriter_split_check(wb') THEN "split" ELSE "write"
  BY DEF archwriter_dowrite
<1>4. /\ count \in Nat /\ curvol \in Nat /\ cursize \in Nat /\ count + 1 \in Nat
      /\ options.splitsize \in Nat /\ options.splitsize # 1
  BY <1>t, VolumesAssumption DEF VolumesTypeOK
<1>5. rpc = "idle" BY <1>w DEF VolumesInv, StageInv, Ended
<1>6. \/ /\ count = 0 /\ wb'.entries = <<ItemEntry("MAIN", "new", 1)>> /\ wb'.size = 1
         /\ wb' = [entries |-> wb'.entries, size |-> wb'.size]
      \/ /\ count > 0 /\ wb'.entries = <<ItemEntry("HEAD", "new", count + 1)>> /\ wb'.size \in Nat
         /\ wb' = [entries |-> wb'.entries, size |-> wb'.size]
      \/ /\ count > 0 /\ wb'.entries = <<ItemEntry("BLKH", "new", count + 1),
                                         ItemEntry("DATA", "new", count + 1)>>
         /\ wb'.size \in Nat /\ wb' = [entries |-> wb'.entries, size |-> wb'.size]
  <2>1. CASE count = 0 BY <2>1, <1>2 DEF writebuf_add_header
  <2>2. CASE count # 0
    <3>1. \/ \E s \in HeaderSizes : wb' = writebuf_add_header("HEAD", count + 1, s)
          \/ \E s \in BlockSizes : wb' = writebuf_add_block(count + 1, s)
      BY <2>2, <1>2
    <3>2. CASE \E s \in HeaderSizes : wb' = writebuf_add_header("HEAD", count + 1, s)
      BY <2>2, <3>2, <1>4, VolumesAssumption DEF writebuf_add_header
    <3>3. CASE \E s \in BlockSizes : wb' = writebuf_add_block(count + 1, s)
      <4>1. PICK s \in BlockSizes : wb' = writebuf_add_block(count + 1, s) BY <3>3
      <4>2. s \in Nat BY VolumesAssumption
      <4> QED BY <2>2, <4>1, <4>2, <1>4 DEF writebuf_add_block
    <3> QED BY <3>1, <3>2, <3>3
  <2> QED BY <2>1, <2>2
<1>7. wb' \in [entries: Seq(Entry), size: Nat]
  <2>1. /\ <<ItemEntry("MAIN", "new", 1)>> \in Seq(Entry)
        /\ <<ItemEntry("HEAD", "new", count + 1)>> \in Seq(Entry)
        /\ <<ItemEntry("BLKH", "new", count + 1), ItemEntry("DATA", "new", count + 1)>> \in Seq(Entry)
    BY <1>4, EntryTypes
  <2>2. wb'.entries \in Seq(Entry) BY <1>6, <2>1
  <2>3. wb'.size \in Nat BY <1>6
  <2>4. wb' = [entries |-> wb'.entries, size |-> wb'.size] BY <1>6
  <2> QED BY <2>2, <2>3, <2>4
<1>8. wpc' \in {"split", "write"} BY <1>3
<1>9. VolumesTypeOK'
  <2>1. /\ present' \subseteq Paths /\ curvol' \in 0 .. MaxItems
        /\ data' \in [Paths -> Seq(Entry)] /\ cursize' \in Nat
        /\ count' \in 0 .. MaxItems /\ kept' \subseteq Paths /\ vollist' \in Seq(Paths)
    BY <1>w, <1>t DEF VolumesTypeOK
  <2>2. wpc' \in Writing \cup {"remove"} \cup Ended BY <1>8 DEF Writing
  <2>3. options' = options /\ UNCHANGED readervars BY <1>w
  <2> QED BY <1>t, <1>7, <2>1, <2>2, <2>3, WriterTypes
<1>10. FilesInv' BY <1>w DEF VolumesInv, FilesInv
<1>11. StageInv'
  <2>1. \A p \in present : New(p) =>
          p = get_path_to_volume(data[p][1].num) /\ data[p][1].num <= curvol
    BY <1>5 DEF VolumesInv, StageInv
  <2>2. rpc' = "idle" /\ wpc' # "create" BY <1>5, <1>w, <1>8 DEF readervars
  <2> QED BY <1>w, <2>1, <2>2 DEF StageInv, New
<1>12. wb = NoBuffer /\ curvol <= count BY <1>w DEF VolumesInv, BufferInv
<1>13. WaitingItem'
  <2>1. count' < MaxItems /\ curvol' <= count' + 1 BY <1>w, <1>4, <1>12
  <2> QED BY <1>6, <1>w, <2>1 DEF WaitingItem
<1> DEFINE d == data[volpath]
<1>14. /\ volpath \in present /\ \E i \in 1 .. Len(vollist) : vollist[i] = volpath
       /\ d # <<>> /\ d[1] = VolHeader("new", curvol)
       /\ Len(d) > 1 => EndOfItem(d[Len(d)]) /\ d[Len(d)].num = count /\ count > 0
       /\ Len(d) = 1 => count = 0 /\ curvol = 0 /\ cursize = 1
  BY <1>w DEF VolumesInv, CurrentInv, Writing
<1>15. Len(d) \in Nat /\ Len(d) > 0
  <2>1. volpath \in Paths BY <1>t, PathsDiffer DEF VolumesTypeOK, volpath
  <2>2. d \in Seq(Entry) BY <2>1, <1>t DEF VolumesTypeOK
  <2> QED BY <2>2, <1>14
<1>16. wpc' = "split" => Len(d) > 1
  <2>0. Len(d) = 1 \/ Len(d) > 1
    <3> HIDE DEF d
    <3> QED BY <1>15
  <2>1. SUFFICES ASSUME wpc' = "split", Len(d) = 1 PROVE FALSE BY <2>0
  <2>2. wb'.size = 1 BY <2>1, <1>14, <1>6, <1>4
  <2>3. options.splitsize > 0 /\ 2 > options.splitsize
    BY <2>1, <2>2, <1>14, <1>3, <1>w DEF archwriter_split_check
  <2> QED BY <2>3, <1>4
<1>17. BufferInv'
  <2>1. wpc' = "split" => count' > 0 /\ curvol' <= count' BY <1>16, <1>14, <1>12, <1>w
  <2> QED BY <1>8, <1>13, <2>1 DEF BufferInv
<1>18. CurrentInv'
  <2>1. volpath' = volpath BY <1>w DEF volpath
  <2>2. data'[volpath'] = d BY <1>w, <2>1
  <2>3. volpath' \in present' /\ \E i \in 1 .. Len(vollist') : vollist'[i] = volpath'
    BY <1>14, <1>w, <2>1
  <2>4. wpc' = "write" /\ options.splitsize > 0 => cursize + wb'.size <= options.splitsize
    <3>1. wb'.size \in Nat BY <1>6
    <3>2. wpc' = "write" => ~archwriter_split_check(wb') BY <1>3
    <3>3. wpc' = "write" /\ options.splitsize > 0 => ~(cursize + wb'.size > options.splitsize)
      BY <3>2 DEF archwriter_split_check
    <3> QED BY <3>1, <3>3, <1>4
  <2> HIDE DEF d
  <2>5. curvol' = curvol /\ count' = count /\ cursize' = cursize /\ options' = options BY <1>w
  <2> QED BY <1>8, <1>14, <1>16, <2>2, <2>3, <2>4, <2>5 DEF CurrentInv
<1>19. LastInv'
  <2>1. wpc \notin {"done", "remove", "removed", "crashed"} BY <1>w
  <2> QED BY <1>w, <2>1 DEF VolumesInv, LastInv
<1>20. RemoveInv'
  <2>1. RemoveInv BY DEF VolumesInv
  <2>2. rpc' = rpc /\ wpc' # "removed" BY <1>w, <1>8 DEF readervars
  <2> QED BY <1>w, <2>1, <2>2 DEF RemoveInv, New
<1>21. DoneInv'
  <2>1. \A n \in 0 .. curvol : n < curvol => FullVolume(get_path_to_volume(n), n, FALSE)
    BY <1>w DEF VolumesInv, DoneInv, Writing
  <2> QED BY <1>w, <1>8, <2>1 DEF DoneInv, FullVolume
<1>22. ReaderInv' /\ ReadableInv' /\ ItemsOfOneArchive' /\ EndMeansWhole'
  BY <1>w, <1>5, IdleReader
<1> QED BY <1>9, <1>10, <1>11, <1>17, <1>18, <1>19, <1>20, <1>21, <1>22 DEF VolumesInv

\* The volume that the writer works on
LEMMA CurrentFacts ==
    ASSUME VolumesInv, wpc \in {"next", "split", "write"}, NEW d, d = data[volpath]
    PROVE  /\ rpc = "idle" /\ wpc \in Writing
           /\ curvol \in Nat /\ count \in Nat /\ volpath \in Paths
           /\ volpath \in present /\ \E i \in 1 .. Len(vollist) : vollist[i] = volpath
           /\ d \in Seq(Entry) /\ Len(d) \in Nat /\ Len(d) > 0 /\ WellFormed(d)
           /\ d[1] = VolHeader("new", curvol)
           /\ d[1].magic = "VOLH" /\ d[1].archid = "new" /\ d[1].num = curvol
           /\ Len(d) > 1 => EndOfItem(d[Len(d)]) /\ d[Len(d)].num = count /\ count > 0
           /\ \A i \in 1 .. Len(d) : ~(d[i].magic = "VOLF" /\ d[i].lastvol /\ d[i].archid = "new")
<1>t. VolumesTypeOK BY DEF VolumesInv
<1>1. rpc = "idle" /\ wpc \in Writing BY DEF VolumesInv, StageInv, Ended, Writing
<1>2. curvol \in Nat /\ count \in Nat /\ curvol \in 0 .. MaxItems
  BY <1>t, VolumesAssumption DEF VolumesTypeOK
<1>3. volpath \in Paths BY <1>2, PathsDiffer DEF volpath
<1>4. d \in Seq(Entry) BY <1>3, <1>t DEF VolumesTypeOK
<1>5. /\ volpath \in present /\ \E i \in 1 .. Len(vollist) : vollist[i] = volpath
      /\ d # <<>> /\ d[1] = VolHeader("new", curvol)
      /\ Len(d) > 1 => EndOfItem(d[Len(d)]) /\ d[Len(d)].num = count /\ count > 0
  BY DEF VolumesInv, CurrentInv, Writing
<1>6. Len(d) \in Nat /\ Len(d) > 0 BY <1>4, <1>5
<1>7. WellFormed(d) BY <1>5 DEF VolumesInv, FilesInv
<1>8. d[1].magic = "VOLH" /\ d[1].archid = "new" /\ d[1].num = curvol
  BY <1>2, <1>5, EntryTypes
<1>9. \A i \in 1 .. Len(d) : ~(d[i].magic = "VOLF" /\ d[i].lastvol /\ d[i].archid = "new")
  BY <1>1, <1>5, NoLastYet
<1> QED BY <1>1, <1>2, <1>3, <1>4, <1>5, <1>6, <1>7, <1>8, <1>9

\* A volume is closed and the next one begun.
LEMMA SplitStep ==
    ASSUME VolumesInv, archwriter_split
    PROVE  VolumesInv'
<1>t. VolumesTypeOK BY DEF VolumesInv
<1> DEFINE e == VolFooter("new", curvol, FALSE)
<1>w. /\ wpc = "split" /\ archwriter_write_buffer([entries |-> <<e>>, size |-> 1], "create")
      /\ curvol' = IF wpc' = "create" THEN curvol + 1 ELSE curvol
      /\ UNCHANGED <<options, present, vollist, wb, count, kept, readervars>>
  BY DEF archwriter_split
<1>1. PICK d : d = data[volpath] OBVIOUS
<1> DEFINE dd == Append(d, e)
<1>2. /\ rpc = "idle" /\ wpc \in Writing
      /\ curvol \in Nat /\ count \in Nat /\ volpath \in Paths
      /\ volpath \in present /\ \E i \in 1 .. Len(vollist) : vollist[i] = volpath
      /\ d \in Seq(Entry) /\ Len(d) \in Nat /\ Len(d) > 0 /\ WellFormed(d)
      /\ d[1] = VolHeader("new", curvol)
      /\ d[1].magic = "VOLH" /\ d[1].archid = "new" /\ d[1].num = curvol
      /\ Len(d) > 1 => EndOfItem(d[Len(d)]) /\ d[Len(d)].num = count /\ count > 0
      /\ \A i \in 1 .. Len(d) : ~(d[i].magic = "VOLF" /\ d[i].lastvol /\ d[i].archid = "new")
  BY <1>1, <1>w, CurrentFacts
<1>3. WaitingItem /\ count > 0 /\ curvol <= count /\ Len(d) > 1 /\ d[Len(d)].num = count
      /\ EndOfItem(d[Len(d)])
  BY <1>1, <1>w, <1>2 DEF VolumesInv, BufferInv, CurrentInv
<1>4. e \in Entry /\ e.archid = "new" /\ e.magic = "VOLF" /\ e.num = curvol /\ ~e.lastvol
  BY <1>2 DEF VolFooter, Entry
<1>5. \/ data' = [data EXCEPT ![volpath] = dd] /\ cursize' = cursize + 1 /\ wpc' = "create"
      \/ data' = data /\ cursize' = cursize /\ wpc' = "failed"
  BY <1>t, <1>1, <1>4, <1>w, WriteOne
<1>6. CASE data' = data /\ cursize' = cursize /\ wpc' = "failed"
  BY <1>6, <1>2, <1>w, FailedStep
<1>7. CASE data' = [data EXCEPT ![volpath] = dd] /\ cursize' = cursize + 1 /\ wpc' = "create"
  <2>1. /\ dd \in Seq(Entry) /\ Len(dd) = Len(d) + 1 /\ dd[Len(d) + 1] = e
        /\ \A i \in 1 .. Len(d) : dd[i] = d[i]
    BY <1>2, <1>4, AppendEntry
  <2>2. count < MaxItems /\ curvol < MaxItems /\ MaxItems \in Nat
    BY <1>2, <1>3, VolumesAssumption DEF WaitingItem
  <2>3. WellFormed(dd)
    <3>1. Follows(d[Len(d)], e) BY <1>3, <1>4 DEF Follows
    <3> HIDE DEF e
    <3> QED BY <1>2, <1>3, <1>4, <2>2, <3>1, AppendWellFormed
  <2> HIDE DEF dd, e
  <2>4. dd[1] = VolHeader("new", curvol) /\ dd[2] = d[2] /\ dd[Len(d)] = d[Len(d)] /\ Len(dd) > 2
        /\ dd # <<>>
    BY <1>2, <1>3, <2>1
  <2>5. UNCHANGED <<vollist, kept, readervars>> /\ present' = present BY <1>w
  <2>6. wpc' # "removed" /\ wpc \in {"volheader", "next", "split", "write"} BY <1>7, <1>w
  <2>7. /\ FilesInv' /\ RemoveInv'
        /\ \A p \in present' : New(p)' =>
              p = get_path_to_volume(data'[p][1].num) /\ data'[p][1].num <= curvol
        /\ \A n \in 0 .. curvol : n < curvol => FullVolume(get_path_to_volume(n), n, FALSE)'
    BY <1>1, <1>3, <1>7, <2>1, <2>3, <2>4, <2>5, <2>6, VolumeWrite
  <2>8. /\ data' \in [Paths -> Seq(Entry)] /\ data'[volpath] = dd
        /\ \A p \in Paths : p # volpath => data'[p] = data[p]
    BY <1>7, <1>t, <2>1, OneFile
  <2>9. curvol' = curvol + 1 /\ curvol' \in 0 .. MaxItems /\ count' = count /\ curvol' > 0
    BY <1>w, <1>7, <1>2, <2>2
  <2>10. VolumesTypeOK'
    <3>1. /\ present' \subseteq Paths
          /\ count' \in 0 .. MaxItems /\ kept' \subseteq Paths /\ vollist' \in Seq(Paths)
      BY <1>w, <1>t DEF VolumesTypeOK
    <3>2. wb' \in [entries: Seq(Entry), size: Nat] BY <1>w, <1>t DEF VolumesTypeOK
    <3>3. wpc' \in Writing \cup {"remove"} \cup Ended BY <1>7 DEF Writing
    <3>4. options' = options /\ UNCHANGED readervars BY <1>w
    <3>5. cursize' \in Nat BY <1>7, <1>t DEF VolumesTypeOK
    <3> QED BY <1>t, <2>8, <2>9, <3>1, <3>2, <3>3, <3>4, <3>5, WriterTypes
  <2>11. ASSUME NEW p \in present', New(p)'
         PROVE  data'[p][1].num \in Nat /\ data'[p][1].num <= curvol
    <3>1. p \in Paths BY <1>w, <1>t DEF VolumesTypeOK
    <3>2. data'[p] \in Seq(Entry) /\ data'[p] # <<>> BY <3>1, <2>8, <2>11 DEF New
    <3>3. data'[p][1] \in Entry BY <3>2
    <3>4. data'[p][1].num \in Nat BY <3>3, EntryFields
    <3> QED BY <3>4, <2>7, <2>11
  <2>12. StageInv'
    <3>1. rpc' = "idle" BY <1>w, <1>2 DEF readervars
    <3>2. ASSUME NEW p \in present', New(p)'
          PROVE  data'[p][1].num <= curvol' /\ data'[p][1].num < curvol'
      BY <3>2, <2>11, <2>9, <1>2
    <3> QED BY <3>1, <3>2, <2>7 DEF StageInv
  <2>13. BufferInv'
    <3>1. WaitingItem'
      <4>1. curvol' <= count' + 1 BY <1>2, <1>3, <2>9
      <4> QED BY <4>1, <1>3, <1>w DEF WaitingItem
    <3>2. ClosedBefore'
      <4>1. ASSUME NEW p \in present', New(p)', data'[p][1].num + 1 = curvol'
            PROVE  data'[p][Len(data'[p]) - 1].num = count'
        <5>1. data'[p][1].num = curvol BY <4>1, <2>9, <2>11, <1>2
        <5>2. p = volpath BY <4>1, <5>1, <2>7 DEF volpath
        <5>3. data'[p] = dd BY <5>2, <2>8
        <5>4. Len(dd) - 1 = Len(d) BY <2>1, <1>2
        <5> QED BY <5>3, <5>4, <2>4, <1>3, <2>9
      <4> QED BY <4>1 DEF ClosedBefore
    <3> QED BY <1>7, <1>3, <2>9, <3>1, <3>2 DEF BufferInv
  <2>14. CurrentInv' BY <1>7 DEF CurrentInv
  <2>15. LastInv'
    <3>1. ASSUME NEW i \in 1 .. Len(dd)
          PROVE  ~(dd[i].magic = "VOLF" /\ dd[i].lastvol /\ dd[i].archid = "new")
      <4>1. i \in 1 .. Len(d) \/ i = Len(d) + 1 BY <2>1, <1>2
      <4>2. CASE i \in 1 .. Len(d) BY <4>2, <2>1, <1>2
      <4>3. CASE i = Len(d) + 1 BY <4>3, <2>1, <1>4
      <4> QED BY <4>1, <4>2, <4>3
    <3> QED BY <1>2, <1>7, <2>1, <2>5, <3>1, LastAfterWrite
  <2>16. DoneInv'
    <3>1. ASSUME NEW n \in 0 .. curvol', n < curvol'
          PROVE  FullVolume(get_path_to_volume(n), n, FALSE)'
      <4>1. n \in 0 .. curvol /\ (n < curvol \/ n = curvol) BY <3>1, <2>9, <1>2
      <4>2. CASE n < curvol BY <4>1, <4>2, <2>7
      <4>3. CASE n = curvol
        <5>1. get_path_to_volume(n) = volpath BY <4>3 DEF volpath
        <5>2. dd[Len(dd)] = VolFooter("new", n, FALSE) BY <4>3, <2>1 DEF e
        <5> QED BY <4>3, <5>1, <5>2, <2>4, <2>5, <2>8, <1>2 DEF FullVolume
      <4> QED BY <4>1, <4>2, <4>3
    <3> QED BY <1>7, <3>1 DEF DoneInv
  <2>17. ReaderInv' /\ ReadableInv' /\ ItemsOfOneArchive' /\ EndMeansWhole'
    BY <2>5, <1>2, IdleReader
  <2> QED BY <2>7, <2>10, <2>12, <2>13, <2>14, <2>15, <2>16, <2>17 DEF VolumesInv
<1> QED BY <1>5, <1>6, <1>7

\* The volume with one more entry of the waiting item
LEMMA ItemEntryWritten ==
    ASSUME VolumesInv, wpc = "write",
           NEW m \in {"MAIN", "HEAD", "BLKH"}, m = "MAIN" <=> count = 0
    PROVE  LET d == data[volpath]
               e == ItemEntry(m, "new", count + 1)
               dd == Append(d, e)
           IN  /\ dd \in Seq(Entry) /\ Len(dd) = Len(d) + 1 /\ WellFormed(dd)
               /\ dd[1] = d[1] /\ dd[Len(dd)] = e
               /\ e \in Entry /\ e.magic = m /\ e.archid = "new" /\ e.num = count + 1
               /\ Len(d) = 1 => dd[2] = e
               /\ Len(d) > 1 => dd[2] = d[2]
               /\ \A i \in 1 .. Len(dd) :
                     ~(dd[i].magic = "VOLF" /\ dd[i].lastvol /\ dd[i].archid = "new")
               /\ Len(d) = 1 => \A i \in 2 .. Len(dd) : dd[i] = e
<1> DEFINE e0 == ItemEntry(m, "new", count + 1)
<1>d. PICK d : d = data[volpath] OBVIOUS
<1>e. PICK e : e = e0 OBVIOUS
<1>f. PICK dd : dd = Append(d, e) OBVIOUS
<1> HIDE DEF e0
<1>2. /\ curvol \in Nat /\ count \in Nat
      /\ d \in Seq(Entry) /\ Len(d) \in Nat /\ Len(d) > 0 /\ WellFormed(d)
      /\ d[1].magic = "VOLH" /\ d[1].archid = "new" /\ d[1].num = curvol
      /\ Len(d) > 1 => EndOfItem(d[Len(d)]) /\ d[Len(d)].num = count /\ count > 0
      /\ \A i \in 1 .. Len(d) : ~(d[i].magic = "VOLF" /\ d[i].lastvol /\ d[i].archid = "new")
  BY <1>d, CurrentFacts
<1>3. Len(d) = 1 => \/ curvol = 0 /\ count = 0
                    \/ curvol > 0 /\ count > 0 /\ ClosedBefore
  BY <1>d DEF VolumesInv, CurrentInv
<1>4. count + 1 \in Nat BY <1>2
<1>5. e \in Entry /\ e.magic = m /\ e.archid = "new" /\ e.num = count + 1
  BY <1>e, <1>4, EntryTypes DEF e0
<1>6. /\ dd \in Seq(Entry) /\ Len(dd) = Len(d) + 1 /\ dd[Len(d) + 1] = e
      /\ \A i \in 1 .. Len(d) : dd[i] = d[i]
  BY <1>f, <1>2, <1>5, AppendEntry
<1>7. Follows(d[Len(d)], e)
  <2>0. Len(d) = 1 \/ Len(d) > 1
    <3>1. \A n \in Nat : n > 0 => n = 1 \/ n > 1 OBVIOUS
    <3> QED BY <3>1, <1>2
  <2>1. CASE Len(d) = 1
    <3>1. m = "MAIN" => e.num = 1 BY <1>2, <1>5
    <3>2. d[Len(d)].magic = "VOLH" BY <2>1, <1>2
    <3>3. CASE m = "MAIN" BY <3>1, <3>2, <3>3, <1>5 DEF Follows
    <3>4. CASE m # "MAIN" BY <3>2, <3>4, <1>5 DEF Follows
    <3> QED BY <3>3, <3>4
  <2>2. CASE Len(d) > 1
    <3>1. EndOfItem(d[Len(d)]) /\ d[Len(d)].num = count /\ m # "MAIN" BY <2>2, <1>2
    <3> QED BY <3>1, <1>5 DEF Follows
  <2> QED BY <2>0, <2>1, <2>2
<1>8. Len(d) = 1 /\ d[1].num = 0 => e.magic \in {"MAIN", "VOLF"} BY <1>2, <1>3, <1>5
<1>9. e.magic # "VOLF" /\ e.magic # "VOLH" /\ d # <<>> BY <1>5, <1>2
<1>10. WellFormed(dd) BY <1>f, <1>2, <1>5, <1>7, <1>8, <1>9, AppendWellFormed
<1>11. ASSUME NEW i \in 1 .. Len(dd)
       PROVE  ~(dd[i].magic = "VOLF" /\ dd[i].lastvol /\ dd[i].archid = "new")
  <2>1. i \in 1 .. Len(d) \/ i = Len(d) + 1 BY <1>6, <1>2
  <2>2. CASE i \in 1 .. Len(d) BY <2>2, <1>6, <1>2
  <2>3. CASE i = Len(d) + 1 BY <2>3, <1>6, <1>9
  <2> QED BY <2>1, <2>2, <2>3
<1>12. Len(d) = 1 => \A i \in 2 .. Len(dd) : dd[i] = e BY <1>6
<1>13. dd[1] = d[1] /\ dd[Len(dd)] = e /\ (Len(d) = 1 => dd[2] = e) /\ (Len(d) > 1 => dd[2] = d[2])
  BY <1>2, <1>6
<1> QED BY <1>d, <1>e, <1>f, <1>5, <1>6, <1>10, <1>11, <1>12, <1>13 DEF e0

\* An item has been written, or part of it when the disk is full.
LEMMA ItemWritten ==
    ASSUME VolumesInv, wpc = "write", NEW d, d = data[volpath],
           NEW dd \in Seq(Entry), WellFormed(dd), Len(dd) > Len(d), dd[1] = d[1],
           data' = [data EXCEPT ![volpath] = dd], cursize' \in Nat,
           Len(d) = 1 => dd[2].num = count + 1,
           Len(d) > 1 => dd[2] = d[2],
           \A i \in 1 .. Len(dd) :
              ~(dd[i].magic = "VOLF" /\ dd[i].lastvol /\ dd[i].archid = "new"),
           \/ wpc' = "failed" /\ count' = count
           \/ /\ wpc' = "next" /\ count' = count + 1
              /\ EndOfItem(dd[Len(dd)]) /\ dd[Len(dd)].num = count + 1,
           wb' = NoBuffer, UNCHANGED <<options, present, curvol, vollist, kept, readervars>>
    PROVE  VolumesInv'
<1>t. VolumesTypeOK BY DEF VolumesInv
<1>2. /\ rpc = "idle" /\ wpc \in Writing
      /\ curvol \in Nat /\ count \in Nat /\ volpath \in Paths
      /\ volpath \in present /\ \E i \in 1 .. Len(vollist) : vollist[i] = volpath
      /\ d \in Seq(Entry) /\ Len(d) \in Nat /\ Len(d) > 0
      /\ d[1] = VolHeader("new", curvol)
  BY CurrentFacts
<1>3. Len(d) = 1 => \/ curvol = 0 /\ count = 0
                    \/ curvol > 0 /\ count > 0 /\ ClosedBefore
  BY DEF VolumesInv, CurrentInv
<1>4. WaitingItem BY DEF VolumesInv, BufferInv
<1>5. Len(d) = 1 \/ Len(d) > 1
  <2>1. \A n \in Nat : n > 0 => n = 1 \/ n > 1 OBVIOUS
  <2> QED BY <2>1, <1>2
<1>6. Len(dd) \in Nat /\ Len(dd) > 1 /\ dd # <<>> BY <1>2
<1>7. \/ Len(data[volpath]) > 1 /\ dd[2] = data[volpath][2]
      \/ \A p \in present :
            New(p) /\ Closed(data[p]) /\ data[p][1].num + 1 = curvol
            => dd[2].num = data[p][Len(data[p]) - 1].num + 1
  <2>1. CASE Len(d) > 1 BY <2>1
  <2>2. CASE Len(d) = 1 /\ curvol = 0
    <3>1. ASSUME NEW p \in present, New(p) PROVE data[p][1].num + 1 # curvol
      <4>1. data[p] \in Seq(Entry) /\ data[p] # <<>> BY <3>1, <1>t DEF VolumesTypeOK, New
      <4>2. data[p][1] \in Entry BY <4>1
      <4>3. data[p][1].num \in Nat BY <4>2, EntryFields
      <4> QED BY <4>3, <2>2
    <3> QED BY <3>1
  <2>3. CASE Len(d) = 1 /\ curvol > 0
    <3>1. ClosedBefore /\ dd[2].num = count + 1 BY <2>3, <1>3, <1>2
    <3> QED BY <3>1 DEF ClosedBefore
  <2> QED BY <1>5, <1>3, <2>1, <2>2, <2>3
<1>8. wpc' \in {"failed", "next"} /\ wpc' # "removed" /\ present' = present
      /\ wpc \in {"volheader", "next", "split", "write"} /\ UNCHANGED <<vollist, kept, readervars>>
  OBVIOUS
<1>9. /\ FilesInv' /\ RemoveInv'
      /\ \A p \in present' : New(p)' =>
            p = get_path_to_volume(data'[p][1].num) /\ data'[p][1].num <= curvol
      /\ \A n \in 0 .. curvol : n < curvol => FullVolume(get_path_to_volume(n), n, FALSE)'
  BY <1>2, <1>7, <1>8, VolumeWrite
<1>10. /\ data' \in [Paths -> Seq(Entry)] /\ data'[volpath] = dd
       /\ \A p \in Paths : p # volpath => data'[p] = data[p]
  BY <1>t, OneFile
<1>11. count < MaxItems /\ MaxItems \in Nat /\ curvol <= count + 1
  BY <1>4, VolumesAssumption DEF WaitingItem
<1>12. count' \in 0 .. MaxItems /\ (wpc' = "next" => count' > 0 /\ curvol <= count')
  BY <1>2, <1>11
<1>13. VolumesTypeOK'
  <2>1. /\ present' \subseteq Paths /\ curvol' \in 0 .. MaxItems
        /\ kept' \subseteq Paths /\ vollist' \in Seq(Paths)
    BY <1>t DEF VolumesTypeOK
  <2>2. wb' \in [entries: Seq(Entry), size: Nat] BY NoBufferType
  <2>3. wpc' \in Writing \cup {"remove"} \cup Ended BY <1>8 DEF Writing, Ended
  <2> QED BY <1>t, <1>10, <1>12, <2>1, <2>2, <2>3, WriterTypes
<1>14. StageInv'
  <2>1. rpc' = "idle" /\ wpc' # "create" /\ curvol' = curvol BY <1>2, <1>8 DEF readervars
  <2> QED BY <2>1, <1>9 DEF StageInv
<1>15. BufferInv' BY <1>8, <1>12 DEF BufferInv
<1>16. CurrentInv'
  <2>1. CASE wpc' = "failed" BY <2>1 DEF CurrentInv, Writing
  <2>2. CASE wpc' = "next"
    <3>1. volpath' = volpath BY DEF volpath
    <3>2. volpath' \in present' /\ \E i \in 1 .. Len(vollist') : vollist'[i] = volpath'
      BY <1>2, <3>1
    <3>3. data'[volpath'] = dd BY <1>10, <3>1
    <3>4. dd[1] = VolHeader("new", curvol') BY <1>2
    <3>5. EndOfItem(dd[Len(dd)]) /\ dd[Len(dd)].num = count' BY <2>2
    <3>6. Len(dd) # 1 BY <1>6
    <3> QED BY <2>2, <3>2, <3>3, <3>4, <3>5, <3>6, <1>6, <1>12 DEF CurrentInv
  <2> QED BY <1>8, <2>1, <2>2
<1>17. LastInv' BY <1>2, <1>8, LastAfterWrite
<1>18. DoneInv'
  <2>1. curvol' = curvol /\ wpc' # "done" BY <1>8
  <2> QED BY <2>1, <1>9 DEF DoneInv
<1>19. ReaderInv' /\ ReadableInv' /\ ItemsOfOneArchive' /\ EndMeansWhole'
  BY <1>2, <1>8, IdleReader
<1> QED BY <1>9, <1>13, <1>14, <1>15, <1>16, <1>17, <1>18, <1>19 DEF VolumesInv

\* The item of the buffer is written.  Apart from the invariant: a volume that
\* is larger than it should be holds nothing else.
LEMMA WriteStep ==
    ASSUME VolumesInv, archwriter_write
    PROVE  VolumesInv' /\ VolumeFits'
<1>t. VolumesTypeOK BY DEF VolumesInv
<1>w. /\ wpc = "write" /\ archwriter_write_buffer(wb, "next")
      /\ count' = IF wpc' = "next" THEN count + 1 ELSE count
      /\ wb' = NoBuffer /\ UNCHANGED <<options, present, curvol, vollist, kept, readervars>>
  BY DEF archwriter_write
<1>1. PICK d : d = data[volpath] OBVIOUS
<1>2. /\ rpc = "idle" /\ wpc \in Writing /\ count \in Nat /\ volpath \in Paths
      /\ d \in Seq(Entry) /\ Len(d) \in Nat /\ Len(d) > 0 /\ d[1].archid = "new"
  BY <1>1, <1>w, CurrentFacts
<1>3. WaitingItem BY <1>w DEF VolumesInv, BufferInv
<1>4. /\ wb.size \in Nat /\ cursize \in Nat /\ options.splitsize \in Nat
      /\ wb = [entries |-> wb.entries, size |-> wb.size]
  BY <1>t, VolumesAssumption DEF VolumesTypeOK
<1>5. Len(d) > 1 /\ options.splitsize > 0 => cursize + wb.size <= options.splitsize
  BY <1>1, <1>w DEF VolumesInv, CurrentInv
<1>6. volpath' = volpath /\ options' = options BY <1>w DEF volpath
<1>7. ASSUME NEW dd \in Seq(Entry), data' = [data EXCEPT ![volpath] = dd],
             cursize' = cursize + wb.size, count' = count + 1,
             Len(d) = 1 => \A i \in 2 .. Len(dd) : dd[i].num = count + 1
      PROVE  VolumeFits'
  <2>1. data'[volpath'] = dd BY <1>2, <1>6, <1>7, <1>t, OneFile
  <2>2. SUFFICES ASSUME options.splitsize > 0, cursize + wb.size > options.splitsize,
                        NEW i \in DOMAIN dd, i > 1
                 PROVE  dd[i].num = count + 1
    BY <1>6, <1>7, <2>1 DEF VolumeFits
  <2>3. ~(Len(d) > 1) BY <2>2, <1>4, <1>5
  <2>4. Len(d) = 1
    <3>1. \A n \in Nat : n > 0 => n = 1 \/ n > 1 OBVIOUS
    <3> QED BY <3>1, <2>3, <1>2
  <2>5. i \in 2 .. Len(dd) BY <2>2
  <2> QED BY <2>4, <2>5, <1>7
<1>8. wpc' = "failed" => VolumeFits' BY DEF VolumeFits
<1>9. ASSUME NEW m \in {"MAIN", "HEAD"}, m = "MAIN" <=> count = 0,
             wb.entries = <<ItemEntry(m, "new", count + 1)>>
      PROVE  VolumesInv' /\ VolumeFits'
  <2>1. PICK e : e = ItemEntry(m, "new", count + 1) OBVIOUS
  <2>2. PICK dd : dd = Append(d, e) OBVIOUS
  <2>3. /\ dd \in Seq(Entry) /\ Len(dd) = Len(d) + 1 /\ WellFormed(dd)
        /\ dd[1] = d[1] /\ dd[Len(dd)] = e
        /\ e \in Entry /\ e.magic = m /\ e.num = count + 1
        /\ Len(d) = 1 => dd[2] = e
        /\ Len(d) > 1 => dd[2] = d[2]
        /\ \A i \in 1 .. Len(dd) :
              ~(dd[i].magic = "VOLF" /\ dd[i].lastvol /\ dd[i].archid = "new")
        /\ Len(d) = 1 => \A i \in 2 .. Len(dd) : dd[i] = e
    BY <1>1, <1>9, <1>w, <2>1, <2>2, ItemEntryWritten
  <2>4. archwriter_write_buffer([entries |-> <<e>>, size |-> wb.size], "next")
    BY <1>w, <1>4, <1>9, <2>1
  <2>5. \/ data' = [data EXCEPT ![volpath] = dd] /\ cursize' = cursize + wb.size /\ wpc' = "next"
        \/ data' = data /\ cursize' = cursize /\ wpc' = "failed"
    BY <1>t, <1>1, <2>2, <2>3, <2>4, WriteOne
  <2>6. CASE data' = data /\ cursize' = cursize /\ wpc' = "failed"
    <3>1. VolumesInv' BY <2>6, <1>2, <1>w, FailedStep
    <3> QED BY <3>1, <2>6, <1>8
  <2>7. CASE data' = [data EXCEPT ![volpath] = dd] /\ cursize' = cursize + wb.size /\ wpc' = "next"
    <3>1. cursize' \in Nat /\ count' = count + 1 /\ Len(dd) > Len(d) BY <2>7, <2>3, <1>2, <1>4, <1>w
    <3>2. EndOfItem(dd[Len(dd)]) /\ dd[Len(dd)].num = count + 1 BY <2>3 DEF EndOfItem
    <3>3. VolumesInv'
      BY <1>1, <1>w, <2>3, <2>7, <3>1, <3>2, ItemWritten
    <3>4. VolumeFits' BY <2>3, <2>7, <3>1, <1>7
    <3> QED BY <3>3, <3>4
  <2> QED BY <2>5, <2>6, <2>7
<1>10. ASSUME count > 0, wb.entries = <<ItemEntry("BLKH", "new", count + 1),
                                        ItemEntry("DATA", "new", count + 1)>>
       PROVE  VolumesInv' /\ VolumeFits'
  <2>1. PICK e : e = ItemEntry("BLKH", "new", count + 1) OBVIOUS
  <2>2. PICK f : f = ItemEntry("DATA", "new", count + 1) OBVIOUS
  <2>3. PICK d1 : d1 = Append(d, e) OBVIOUS
  <2>4. PICK dd : dd = Append(d1, f) OBVIOUS
  <2>5. "BLKH" = "MAIN" <=> count = 0 BY <1>10, <1>2
  <2>6. /\ d1 \in Seq(Entry) /\ Len(d1) = Len(d) + 1 /\ WellFormed(d1)
        /\ d1[1] = d[1] /\ d1[Len(d1)] = e
        /\ e \in Entry /\ e.magic = "BLKH" /\ e.archid = "new" /\ e.num = count + 1
        /\ Len(d) = 1 => d1[2] = e
        /\ Len(d) > 1 => d1[2] = d[2]
        /\ \A i \in 1 .. Len(d1) :
              ~(d1[i].magic = "VOLF" /\ d1[i].lastvol /\ d1[i].archid = "new")
        /\ Len(d) = 1 => \A i \in 2 .. Len(d1) : d1[i] = e
    BY <1>1, <1>w, <2>1, <2>3, <2>5, ItemEntryWritten
  <2>7. f \in Entry /\ f.magic = "DATA" /\ f.archid = "new" /\ f.num = count + 1
    <3>1. count + 1 \in Nat BY <1>2
    <3> QED BY <2>2, <3>1, EntryTypes
  <2>8. /\ dd \in Seq(Entry) /\ Len(dd) = Len(d1) + 1 /\ dd[Len(d1) + 1] = f
        /\ \A i \in 1 .. Len(d1) : dd[i] = d1[i]
    BY <2>4, <2>6, <2>7, AppendEntry
  <2>9. Len(d1) \in Nat /\ Len(d1) > 1 /\ d1 # <<>> BY <2>6, <1>2
  <2>10. d1[1].archid = "new" BY <2>6, <1>2
  <2>11. WellFormed(dd)
    <3>1. Follows(d1[Len(d1)], f) BY <2>6, <2>7 DEF Follows
    <3>2. Len(d1) # 1
      <4>1. \A n \in Nat : n > 1 => n # 1 OBVIOUS
      <4> QED BY <4>1, <2>9
    <3> QED BY <2>4, <2>6, <2>7, <2>9, <2>10, <3>1, <3>2, AppendWellFormed
  <2>12. dd[1] = d[1] /\ dd[2] = d1[2] /\ dd[Len(dd)] = f /\ Len(dd) > Len(d) /\ Len(d1) > Len(d)
    BY <2>6, <2>8, <2>9, <1>2
  <2>13. ASSUME NEW i \in 1 .. Len(dd)
         PROVE  ~(dd[i].magic = "VOLF" /\ dd[i].lastvol /\ dd[i].archid = "new")
    <3>1. i \in 1 .. Len(d1) \/ i = Len(d1) + 1 BY <2>8, <2>9
    <3>2. CASE i \in 1 .. Len(d1) BY <3>2, <2>6, <2>8
    <3>3. CASE i = Len(d1) + 1 BY <3>3, <2>8, <2>7
    <3> QED BY <3>1, <3>2, <3>3
  <2>14. Len(d) = 1 => \A i \in 2 .. Len(dd) : dd[i].num = count + 1
    <3>1. ASSUME Len(d) = 1, NEW i \in 2 .. Len(dd) PROVE dd[i].num = count + 1
      <4>1. i = 2 \/ i = 3 BY <3>1, <2>6, <2>8
      <4>2. CASE i = 2 BY <3>1, <4>2, <2>6, <2>12
      <4>3. CASE i = 3 BY <3>1, <4>3, <2>6, <2>7, <2>8
      <4> QED BY <4>1, <4>2, <4>3
    <3> QED BY <3>1
  <2>15. \/ data' = [data EXCEPT ![volpath] = dd] /\ cursize' = cursize + wb.size /\ wpc' = "next"
         \/ data' = data /\ cursize' = cursize /\ wpc' = "failed"
         \/ data' = [data EXCEPT ![volpath] = d1] /\ cursize' = cursize /\ wpc' = "failed"
    <3>1. wb.entries = <<e, f>> BY <1>10, <2>1, <2>2
    <3> QED BY <1>t, <1>1, <1>w, <2>3, <2>4, <2>6, <2>7, <3>1, WriteTwo
  <2>16. CASE data' = data /\ cursize' = cursize /\ wpc' = "failed"
    <3>1. VolumesInv' BY <2>16, <1>2, <1>w, FailedStep
    <3> QED BY <3>1, <2>16, <1>8
  <2>17. CASE data' = [data EXCEPT ![volpath] = dd] /\ cursize' = cursize + wb.size /\ wpc' = "next"
    <3>1. cursize' \in Nat /\ count' = count + 1 BY <2>17, <1>4, <1>w
    <3>2. EndOfItem(dd[Len(dd)]) /\ dd[Len(dd)].num = count + 1 BY <2>7, <2>12 DEF EndOfItem
    <3>3. /\ Len(d) = 1 => dd[2].num = count + 1
          /\ Len(d) > 1 => dd[2] = d[2]
      BY <2>6, <2>12
    <3>4. VolumesInv'
      BY <1>1, <1>w, <2>8, <2>11, <2>12, <2>13, <2>17, <3>1, <3>2, <3>3, ItemWritten
    <3>5. VolumeFits' BY <2>8, <2>14, <2>17, <3>1, <1>7
    <3> QED BY <3>4, <3>5
  <2>18. CASE data' = [data EXCEPT ![volpath] = d1] /\ cursize' = cursize /\ wpc' = "failed"
    <3>1. cursize' \in Nat /\ count' = count BY <2>18, <1>4, <1>w
    <3>2. /\ Len(d) = 1 => d1[2].num = count + 1
          /\ Len(d) > 1 => d1[2] = d[2]
      BY <2>6
    <3>3. VolumesInv'
      BY <1>1, <1>w, <2>6, <2>12, <2>18, <3>1, <3>2, ItemWritten
    <3> QED BY <3>3, <2>18, <1>8
  <2> QED BY <2>15, <2>16, <2>17, <2>18
<1>11. ASSUME count = 0, wb.entries = <<ItemEntry("MAIN", "new", 1)>>
       PROVE  VolumesInv' /\ VolumeFits'
  <2>1. wb.entries = <<ItemEntry("MAIN", "new", count + 1)>> BY <1>11
  <2>2. "MAIN" = "MAIN" <=> count = 0 BY <1>11
  <2> QED BY <2>1, <2>2, <1>9
<1>12. ASSUME count > 0, wb.entries = <<ItemEntry("HEAD", "new", count + 1)>>
       PROVE  VolumesInv' /\ VolumeFits'
  <2>1. "HEAD" = "MAIN" <=> count = 0 BY <1>12, <1>2
  <2> QED BY <2>1, <1>9, <1>12
<1> QED BY <1>3, <1>10, <1>11, <1>12 DEF WaitingItem

\* The last footer
LEMMA VolFooterStep ==
    ASSUME VolumesInv, archwriter_write_volfooter
    PROVE  VolumesInv'
<1>t. VolumesTypeOK BY DEF VolumesInv
<1> DEFINE e == VolFooter("new", curvol, TRUE)
<1>w. /\ wpc = "next" /\ archwriter_write_buffer([entries |-> <<e>>, size |-> 1], "done")
      /\ UNCHANGED <<options, present, curvol, vollist, wb, count, kept, readervars>>
  BY DEF archwriter_write_volfooter
<1>1. PICK d : d = data[volpath] OBVIOUS
<1> DEFINE dd == Append(d, e)
<1>2. /\ rpc = "idle" /\ wpc \in Writing
      /\ curvol \in Nat /\ count \in Nat /\ volpath \in Paths
      /\ volpath \in present /\ \E i \in 1 .. Len(vollist) : vollist[i] = volpath
      /\ d \in Seq(Entry) /\ Len(d) \in Nat /\ Len(d) > 0 /\ WellFormed(d)
      /\ d[1] = VolHeader("new", curvol)
      /\ d[1].magic = "VOLH" /\ d[1].archid = "new" /\ d[1].num = curvol
      /\ Len(d) > 1 => EndOfItem(d[Len(d)]) /\ d[Len(d)].num = count /\ count > 0
      /\ \A i \in 1 .. Len(d) : ~(d[i].magic = "VOLF" /\ d[i].lastvol /\ d[i].archid = "new")
  BY <1>1, <1>w, CurrentFacts
<1>3. Len(d) = 1 => count = 0 /\ curvol = 0
  BY <1>1, <1>w DEF VolumesInv, CurrentInv
<1>4. e \in Entry /\ e.archid = "new" /\ e.magic = "VOLF" /\ e.num = curvol /\ e.lastvol
  BY <1>2 DEF VolFooter, Entry
<1>5. \/ data' = [data EXCEPT ![volpath] = dd] /\ cursize' = cursize + 1 /\ wpc' = "done"
      \/ data' = data /\ cursize' = cursize /\ wpc' = "failed"
  BY <1>t, <1>1, <1>4, <1>w, WriteOne
<1>6. CASE data' = data /\ cursize' = cursize /\ wpc' = "failed"
  BY <1>6, <1>2, <1>w, FailedStep
<1>0. Len(d) = 1 \/ Len(d) > 1
  <2>1. \A n \in Nat : n > 0 => n = 1 \/ n > 1 OBVIOUS
  <2> QED BY <2>1, <1>2
<1>7. CASE data' = [data EXCEPT ![volpath] = dd] /\ cursize' = cursize + 1 /\ wpc' = "done"
  <2>1. /\ dd \in Seq(Entry) /\ Len(dd) = Len(d) + 1 /\ dd[Len(d) + 1] = e
        /\ \A i \in 1 .. Len(d) : dd[i] = d[i]
    BY <1>2, <1>4, AppendEntry
  <2>2. Follows(d[Len(d)], e)
    <3>1. CASE Len(d) = 1
      <4>1. d[Len(d)].magic = "VOLH" /\ d[Len(d)].num = 0 BY <3>1, <1>2, <1>3
      <4> QED BY <4>1, <1>4 DEF Follows
    <3>2. CASE Len(d) > 1
      <4>1. EndOfItem(d[Len(d)]) BY <3>2, <1>2
      <4> QED BY <4>1, <1>4 DEF Follows
    <3> QED BY <1>0, <3>1, <3>2
  <2>3. WellFormed(dd)
    <3>1. d # <<>> BY <1>2
    <3> HIDE DEF e
    <3> QED BY <1>2, <1>4, <2>2, <3>1, AppendWellFormed
  <2> HIDE DEF dd, e
  <2>4. /\ dd[1] = VolHeader("new", curvol) /\ dd[Len(d)] = d[Len(d)]
        /\ Len(d) > 1 => dd[2] = d[2]
    BY <1>2, <2>1
  <2>5. UNCHANGED <<vollist, kept, readervars>> /\ present' = present BY <1>w
  <2>6. wpc' # "removed" /\ wpc \in {"volheader", "next", "split", "write"} BY <1>7, <1>w
  <2>7. \/ Len(data[volpath]) > 1 /\ dd[2] = data[volpath][2]
        \/ \A p \in present :
              New(p) /\ Closed(data[p]) /\ data[p][1].num + 1 = curvol
              => dd[2].num = data[p][Len(data[p]) - 1].num + 1
    <3>1. CASE Len(d) > 1 BY <3>1, <1>1, <2>4
    <3>2. CASE Len(d) = 1
      <4>1. ASSUME NEW p \in present, New(p) PROVE data[p][1].num + 1 # curvol
        <5>1. data[p] \in Seq(Entry) /\ data[p] # <<>> BY <4>1, <1>t DEF VolumesTypeOK, New
        <5>2. data[p][1] \in Entry BY <5>1
        <5>3. data[p][1].num \in Nat BY <5>2, EntryFields
        <5> QED BY <5>3, <3>2, <1>3
      <4> QED BY <4>1
    <3> QED BY <1>0, <3>1, <3>2
  <2>8. /\ FilesInv' /\ RemoveInv'
        /\ \A p \in present' : New(p)' =>
              p = get_path_to_volume(data'[p][1].num) /\ data'[p][1].num <= curvol
        /\ \A n \in 0 .. curvol : n < curvol => FullVolume(get_path_to_volume(n), n, FALSE)'
    BY <1>7, <2>1, <2>3, <2>4, <2>5, <2>6, <2>7, VolumeWrite
  <2>9. /\ data' \in [Paths -> Seq(Entry)] /\ data'[volpath] = dd
        /\ \A p \in Paths : p # volpath => data'[p] = data[p]
    BY <1>7, <1>t, <2>1, OneFile
  <2>10. VolumesTypeOK'
    <3>1. /\ present' \subseteq Paths /\ curvol' \in 0 .. MaxItems
          /\ count' \in 0 .. MaxItems /\ kept' \subseteq Paths /\ vollist' \in Seq(Paths)
      BY <1>w, <1>t DEF VolumesTypeOK
    <3>2. wb' \in [entries: Seq(Entry), size: Nat] BY <1>w, <1>t DEF VolumesTypeOK
    <3>3. wpc' \in Writing \cup {"remove"} \cup Ended BY <1>7 DEF Ended
    <3>4. options' = options /\ UNCHANGED readervars BY <1>w
    <3>5. cursize' \in Nat BY <1>7, <1>t DEF VolumesTypeOK
    <3> QED BY <1>t, <2>9, <3>1, <3>2, <3>3, <3>4, <3>5, WriterTypes
  <2>11. StageInv'
    <3>1. rpc' = "idle" /\ wpc' # "create" /\ curvol' = curvol BY <1>w, <1>2, <1>7 DEF readervars
    <3> QED BY <3>1, <2>8 DEF StageInv
  <2>12. BufferInv' BY <1>7 DEF BufferInv
  <2>13. CurrentInv' BY <1>7 DEF CurrentInv, Writing
  <2>14. LastInv'
    <3>1. ASSUME NEW p \in present', NEW i \in 1 .. Len(data'[p]),
                 data'[p][i].magic = "VOLF", data'[p][i].lastvol, data'[p][i].archid = "new", i > 2
          PROVE  data'[p][i - 1].num = count'
      <4>1. CASE p = volpath
        <5>1. i \in 1 .. Len(dd) /\ data'[p] = dd BY <3>1, <4>1, <2>9
        <5>2. i \in 1 .. Len(d) \/ i = Len(d) + 1 BY <5>1, <2>1, <1>2
        <5>3. i \notin 1 .. Len(d) BY <3>1, <5>1, <2>1, <1>2
        <5>4. i = Len(d) + 1 BY <5>2, <5>3
        <5>5. i - 1 = Len(d) /\ Len(d) > 1 BY <3>1, <5>4, <1>2
        <5>6. data'[p][i - 1] = d[Len(d)] BY <5>1, <5>5, <2>4
        <5> QED BY <5>5, <5>6, <1>2, <1>w
      <4>2. CASE p # volpath
        <5>1. p \in present /\ p \in Paths BY <1>w, <1>t DEF VolumesTypeOK
        <5>2. data'[p] = data[p] BY <4>2, <5>1, <2>9
        <5>3. wpc \in {"done", "remove", "removed", "crashed"}
          BY <3>1, <5>1, <5>2 DEF VolumesInv, LastInv
        <5> QED BY <5>3, <1>w
      <4> QED BY <4>1, <4>2
    <3> QED BY <3>1, <1>7 DEF LastInv
  <2>15. DoneInv'
    <3>1. ASSUME count > 0, NEW n \in 0 .. curvol
          PROVE  FullVolume(get_path_to_volume(n), n, n = curvol)'
      <4>1. curvol' = curvol BY <1>w
      <4>2. CASE n < curvol
        <5>1. (n = curvol') = FALSE BY <4>1, <4>2, <1>2
        <5>2. FullVolume(get_path_to_volume(n), n, FALSE)' BY <4>2, <2>8
        <5> QED BY <5>1, <5>2 DEF FullVolume
      <4>3. CASE n = curvol
        <5>1. (n = curvol') = TRUE BY <4>1, <4>3
        <5>2. get_path_to_volume(n) = volpath BY <4>3 DEF volpath
        <5>3. dd[Len(dd)] = VolFooter("new", n, TRUE) BY <4>3, <2>1 DEF e
        <5>4. Len(dd) > 2 BY <3>1, <1>0, <1>2, <1>3, <2>1
        <5>5. FullVolume(get_path_to_volume(n), n, TRUE)'
          BY <4>3, <5>2, <5>3, <5>4, <2>4, <2>5, <2>9, <1>2 DEF FullVolume
        <5> QED BY <5>1, <5>5 DEF FullVolume
      <4> QED BY <4>2, <4>3, <1>2
    <3>2. count' = count /\ curvol' = curvol BY <1>w
    <3> QED BY <3>1, <3>2, <1>7 DEF DoneInv, Writing
  <2>16. ReaderInv' /\ ReadableInv' /\ ItemsOfOneArchive' /\ EndMeansWhole'
    BY <2>5, <1>2, IdleReader
  <2> QED BY <2>8, <2>10, <2>11, <2>12, <2>13, <2>14, <2>15, <2>16 DEF VolumesInv
<1> QED BY <1>5, <1>6, <1>7

\* The removal of one volume
LEMMA RemoveStep ==
    ASSUME VolumesInv, archwriter_remove
    PROVE  VolumesInv'
<1>t. VolumesTypeOK BY DEF VolumesInv
<1>w. /\ wpc \in {"done", "failed", "remove"} /\ rpc = "idle"
      /\ UNCHANGED <<options, curvol, wb, count, readervars, data, cursize>>
  BY DEF archwriter_remove, filevars
<1>1. \/ vollist = <<>> /\ wpc' = "removed" /\ UNCHANGED <<present, vollist, kept>>
      \/ /\ vollist # <<>> /\ wpc' = "remove" /\ vollist' = Tail(vollist)
         /\ \/ present' = present \ {Head(vollist)} /\ kept' = kept
            \/ kept' = kept \cup {Head(vollist)} /\ present' = present
  BY DEF archwriter_remove, filevars
<1>2. wpc' \in {"removed", "remove"} BY <1>1
<1>3. present' \subseteq present BY <1>1
<1>4. vollist \in Seq(Paths) BY <1>t DEF VolumesTypeOK
<1>5. vollist # <<>> => /\ Head(vollist) \in Paths /\ Head(vollist) = vollist[1]
                        /\ Tail(vollist) \in Seq(Paths)
                        /\ Len(Tail(vollist)) = Len(vollist) - 1 /\ Len(vollist) \in Nat
                        /\ \A i \in 1 .. Len(Tail(vollist)) : Tail(vollist)[i] = vollist[i + 1]
  BY <1>4, HeadTailProperties
<1>6. VolumesTypeOK'
  <2>1. /\ present' \subseteq Paths /\ curvol' \in 0 .. MaxItems
        /\ data' \in [Paths -> Seq(Entry)] /\ cursize' \in Nat /\ count' \in 0 .. MaxItems
    BY <1>w, <1>3, <1>t DEF VolumesTypeOK
  <2>2. wb' \in [entries: Seq(Entry), size: Nat] BY <1>w, <1>t DEF VolumesTypeOK
  <2>3. wpc' \in Writing \cup {"remove"} \cup Ended BY <1>2 DEF Ended
  <2>4. vollist' \in Seq(Paths) BY <1>1, <1>4, <1>5
  <2>5. kept' \subseteq Paths BY <1>1, <1>5, <1>t DEF VolumesTypeOK
  <2>6. options' = options /\ UNCHANGED readervars BY <1>w
  <2> QED BY <1>t, <2>1, <2>2, <2>3, <2>4, <2>5, <2>6, WriterTypes
<1>7. FilesInv' BY <1>w, <1>3 DEF VolumesInv, FilesInv
<1>8. StageInv'
  <2>1. \A p \in present : New(p) =>
          p = get_path_to_volume(data[p][1].num) /\ data[p][1].num <= curvol
    BY <1>w DEF VolumesInv, StageInv
  <2>2. rpc' = "idle" /\ wpc' # "create" BY <1>w, <1>2 DEF readervars
  <2> QED BY <1>w, <1>3, <2>1, <2>2 DEF StageInv, New
<1>9. BufferInv' /\ CurrentInv' /\ DoneInv' BY <1>2, StoppedWriter
<1>10. LastInv'
  <2>1. wpc' \in {"done", "remove", "removed", "crashed"} BY <1>2
  <2> QED BY <1>w, <1>3, <2>1 DEF VolumesInv, LastInv
<1>11. RemoveInv'
  <2>1. CASE vollist = <<>> /\ wpc' = "removed" /\ UNCHANGED <<present, vollist, kept>>
    <3>1. RemoveInv BY DEF VolumesInv
    <3>2. rpc' = rpc BY <1>w DEF readervars
    <3> QED BY <2>1, <3>1, <3>2, <1>w DEF RemoveInv, New
  <2>2. CASE /\ vollist # <<>> /\ wpc' = "remove" /\ vollist' = Tail(vollist)
             /\ \/ present' = present \ {Head(vollist)} /\ kept' = kept
                \/ kept' = kept \cup {Head(vollist)} /\ present' = present
    <3>0. /\ Len(vollist') = Len(vollist) - 1 /\ Len(vollist) \in Nat /\ vollist' \in Seq(Paths)
          /\ \A i \in 1 .. Len(vollist') : vollist'[i] = vollist[i + 1]
      BY <2>2, <1>5
    <3>1. ASSUME NEW i \in 1 .. Len(vollist')
          PROVE  data'[vollist'[i]] = <<>>
                 \/ (data'[vollist'[i]] # <<>> /\ data'[vollist'[i]][1].archid = "new")
      <4>1. i + 1 \in 1 .. Len(vollist) /\ vollist'[i] = vollist[i + 1] BY <3>0
      <4> QED BY <4>1, <1>w DEF VolumesInv, RemoveInv, New
    <3>2. ASSUME NEW p \in present' \ kept', New(p)'
          PROVE  vollist' # <<>> /\ \E i \in 1 .. Len(vollist') : vollist'[i] = p
      <4>1. p \in present \ kept /\ p # Head(vollist) BY <2>2, <3>2
      <4>2. New(p) BY <3>2, <1>w DEF New
      <4>3. PICK j \in 1 .. Len(vollist) : vollist[j] = p
        BY <4>1, <4>2, <1>w DEF VolumesInv, RemoveInv
      <4>4. j # 1 BY <4>1, <4>3, <2>2, <1>5
      <4>5. j - 1 \in 1 .. Len(vollist') /\ (j - 1) + 1 = j BY <4>4, <3>0
      <4>6. vollist'[j - 1] = p BY <4>3, <4>5, <3>0
      <4> QED BY <4>5, <4>6, <3>0
    <3> QED BY <2>2, <3>1, <3>2 DEF RemoveInv, New
  <2> QED BY <1>1, <2>1, <2>2
<1>12. ReaderInv' /\ ReadableInv' /\ ItemsOfOneArchive' /\ EndMeansWhole'
  BY <1>w, IdleReader
<1> QED BY <1>6, <1>7, <1>8, <1>9, <1>10, <1>11, <1>12 DEF VolumesInv

\* The program or the machine stops.
LEMMA CrashStep ==
    ASSUME VolumesInv, Crash
    PROVE  VolumesInv'
<1>t. VolumesTypeOK BY DEF VolumesInv
<1>w. /\ wpc \notin Ended /\ wpc' = "crashed"
      /\ UNCHANGED <<options, present, cursize, curvol, vollist, wb, count, kept, readervars>>
  BY DEF Crash, Ended
<1>1. rpc = "idle" BY <1>w DEF VolumesInv, StageInv
<1>2. /\ present' \subseteq Paths /\ curvol' \in 0 .. MaxItems /\ cursize' \in Nat
      /\ count' \in 0 .. MaxItems /\ kept' \subseteq Paths /\ vollist' \in Seq(Paths)
      /\ wpc' \in Writing \cup {"remove"} \cup Ended
  BY <1>w, <1>t DEF VolumesTypeOK, Ended
<1>3. wb' \in [entries: Seq(Entry), size: Nat] BY <1>w, <1>t DEF VolumesTypeOK
<1>4. BufferInv' /\ CurrentInv' /\ DoneInv' BY <1>w, StoppedWriter
<1>5. ReaderInv' /\ ReadableInv' /\ ItemsOfOneArchive' /\ EndMeansWhole' BY <1>w, <1>1, IdleReader
<1>6. rpc' = "idle" /\ wpc' # "create" /\ curvol' = curvol BY <1>w, <1>1 DEF readervars
<1>7. volpath \in Paths /\ data[volpath] \in Seq(Entry)
  <2>1. volpath \in Paths BY <1>t, PathsDiffer DEF VolumesTypeOK, volpath
  <2> QED BY <2>1, <1>t DEF VolumesTypeOK
<1>8. CASE /\ wpc \in {"volheader", "next", "split", "write"}
           /\ \E k \in 0 .. Len(data[volpath]) :
                 data' = [data EXCEPT ![volpath] = SubSeq(data[volpath], 1, k)]
  <2>1. PICK k \in 0 .. Len(data[volpath]) :
                 data' = [data EXCEPT ![volpath] = SubSeq(data[volpath], 1, k)]
    BY <1>8
  <2>2. PICK d : d = data[volpath] OBVIOUS
  <2>3. PICK dd : dd = SubSeq(d, 1, k) OBVIOUS
  <2>4. d \in Seq(Entry) /\ k \in 0 .. Len(d) /\ Len(d) \in Nat BY <1>7, <2>2
  <2>5. dd \in Seq(Entry) /\ Len(dd) = k /\ \A i \in 1 .. k : dd[i] = d[i]
    BY <2>3, <2>4, CutEntries
  <2>6. volpath \in present /\ wpc \in Writing BY <1>8 DEF VolumesInv, CurrentInv, Writing
  <2>7. WellFormed(d) BY <2>2, <2>6 DEF VolumesInv, FilesInv
  <2>8. WellFormed(dd) BY <2>3, <2>4, <2>7, CutWellFormed
  <2>9. Len(dd) > 0 => dd[1] = VolHeader("new", curvol)
    <3>1. CASE wpc = "volheader"
      <4>1. d = <<>> BY <3>1, <2>2 DEF VolumesInv, CurrentInv
      <4>2. k = 0 BY <4>1, <2>4
      <4> QED BY <4>2, <2>5
    <3>2. CASE wpc # "volheader"
      <4>1. d[1] = VolHeader("new", curvol) BY <3>2, <1>8, <2>2 DEF VolumesInv, CurrentInv
      <4> QED BY <4>1, <2>4, <2>5
    <3> QED BY <3>1, <3>2
  <2>10. Len(dd) > 1 => Len(d) > 1 /\ dd[2] = d[2] BY <2>4, <2>5
  <2>11. data' = [data EXCEPT ![volpath] = dd] BY <2>1, <2>2, <2>3
  <2>12. present' = present /\ UNCHANGED <<vollist, kept, readervars>> /\ wpc' # "removed" BY <1>w
  <2>13. /\ FilesInv' /\ RemoveInv'
         /\ \A p \in present' : New(p)' =>
               p = get_path_to_volume(data'[p][1].num) /\ data'[p][1].num <= curvol
    BY <1>8, <2>2, <2>5, <2>8, <2>9, <2>10, <2>11, <2>12, VolumeWrite
  <2>14. data' \in [Paths -> Seq(Entry)] BY <1>t, <2>5, <2>11, OneFile
  <2>15. VolumesTypeOK' BY <1>t, <1>w, <1>2, <1>3, <2>14, WriterTypes
  <2>16. StageInv' BY <1>6, <2>13 DEF StageInv
  <2>17. LastInv'
    <3>1. \A i \in 1 .. Len(d) : ~(d[i].magic = "VOLF" /\ d[i].lastvol /\ d[i].archid = "new")
      BY <2>2, <2>6, NoLastYet
    <3>2. \A i \in 1 .. Len(dd) : i \in 1 .. Len(d) /\ dd[i] = d[i] BY <2>4, <2>5
    <3>3. \A i \in 1 .. Len(dd) : ~(dd[i].magic = "VOLF" /\ dd[i].lastvol /\ dd[i].archid = "new")
      BY <3>1, <3>2
    <3>4. present' \subseteq present \cup {volpath} BY <2>12
    <3> QED BY <2>5, <2>6, <2>11, <3>3, <3>4, LastAfterWrite
  <2> QED BY <1>4, <1>5, <2>13, <2>15, <2>16, <2>17 DEF VolumesInv
<1>9. CASE data' = data
  <2>1. data' \in [Paths -> Seq(Entry)] BY <1>9, <1>t DEF VolumesTypeOK
  <2>2. VolumesTypeOK' BY <1>t, <1>w, <1>2, <1>3, <2>1, WriterTypes
  <2>3. FilesInv' BY <1>9, <1>w DEF VolumesInv, FilesInv
  <2>4. StageInv'
    <3>1. \A p \in present : New(p) =>
            p = get_path_to_volume(data[p][1].num) /\ data[p][1].num <= curvol
      BY <1>1 DEF VolumesInv, StageInv
    <3> QED BY <1>9, <1>w, <1>6, <3>1 DEF StageInv, New
  <2>5. LastInv' BY <1>9, <1>w DEF VolumesInv, LastInv
  <2>6. RemoveInv'
    <3>1. RemoveInv BY DEF VolumesInv
    <3>2. rpc' = rpc BY <1>w DEF readervars
    <3> QED BY <1>9, <1>w, <3>1, <3>2 DEF RemoveInv, New
  <2> QED BY <1>4, <1>5, <2>2, <2>3, <2>4, <2>5, <2>6 DEF VolumesInv
<1> QED BY <1>8, <1>9 DEF Crash

\* A volume is moved before the restoration begins.
LEMMA MoveStep ==
    ASSUME VolumesInv, Move
    PROVE  VolumesInv'
<1>t. VolumesTypeOK BY DEF VolumesInv
<1>w. /\ rpc = "open" /\ rvol = 0 /\ Elsewhere \notin present
      /\ UNCHANGED <<options, cursize, wpc, curvol, vollist, wb, count, kept, readervars>>
  BY DEF Move, writervars
<1>1. PICK n \in 1 .. curvol :
          /\ get_path_to_volume(n) \in present
          /\ \E i \in DOMAIN vollist : vollist[i] = get_path_to_volume(n)
          /\ present' = (present \ {get_path_to_volume(n)}) \cup {Elsewhere}
          /\ data' = [data EXCEPT ![Elsewhere] = data[get_path_to_volume(n)]]
  BY DEF Move
<1>2. PICK p : p = get_path_to_volume(n) OBVIOUS
<1>3. curvol \in Nat /\ n \in Nat /\ n # 0 /\ present \subseteq Paths /\ data \in [Paths -> Seq(Entry)]
      /\ p \in present /\ p \in Paths /\ Elsewhere \in Paths /\ vollist \in Seq(Paths)
  BY <1>t, <1>1, <1>2, PathsDiffer DEF VolumesTypeOK
<1>4. /\ data' \in [Paths -> Seq(Entry)] /\ data'[Elsewhere] = data[p]
      /\ \A x \in Paths : x # Elsewhere => data'[x] = data[x]
  BY <1>1, <1>2, <1>3
<1>5. present' \subseteq Paths BY <1>1, <1>3
<1>6. ASSUME NEW x \in present'
      PROVE  \E y \in present : data'[x] = data[y]
  <2>1. CASE x = Elsewhere BY <2>1, <1>3, <1>4
  <2>2. CASE x # Elsewhere BY <2>2, <1>1, <1>3, <1>4
  <2> QED BY <2>1, <2>2
<1>7. wpc \in Ended /\ wpc' = wpc /\ wpc \notin Writing
      /\ wpc \notin {"create", "volheader", "next", "split", "write"}
  BY <1>w DEF VolumesInv, StageInv, Ended, Writing
<1>8. rpc' = "open" /\ rvol' = 0 /\ rpath' = rpath /\ got' = got /\ rarchid' = rarchid
      /\ UNCHANGED <<endofarchive, mistyped>>
  BY <1>w DEF readervars
<1>9. VolumesTypeOK'
  <2>1. /\ curvol' \in 0 .. MaxItems /\ cursize' \in Nat
        /\ count' \in 0 .. MaxItems /\ kept' \subseteq Paths /\ vollist' \in Seq(Paths)
    BY <1>w, <1>t DEF VolumesTypeOK
  <2>2. wpc' \in Writing \cup {"remove"} \cup Ended BY <1>7
  <2>3. wb' \in [entries: Seq(Entry), size: Nat] BY <1>w, <1>t DEF VolumesTypeOK
  <2> QED BY <1>t, <1>w, <1>4, <1>5, <2>1, <2>2, <2>3, WriterTypes
<1>10. FilesInv'
  <2>1. FilesInv BY DEF VolumesInv
  <2> QED BY <1>6, <2>1 DEF FilesInv
<1>11. StageInv' BY <1>7, <1>8 DEF StageInv
<1>12. BufferInv' BY <1>7 DEF BufferInv
<1>13. CurrentInv' BY <1>7 DEF CurrentInv, Writing
<1>14. LastInv'
  <2>1. LastInv /\ count' = count BY <1>w DEF VolumesInv
  <2> QED BY <1>6, <1>7, <2>1 DEF LastInv
<1>15. RemoveInv'
  <2>1. RemoveInv BY DEF VolumesInv
  <2>2. PICK j \in DOMAIN vollist : vollist[j] = p BY <1>1, <1>2
  <2>3. j \in 1 .. Len(vollist) /\ vollist # <<>> BY <2>2, <1>3
  <2>4. ASSUME NEW i \in 1 .. Len(vollist)
        PROVE  data'[vollist[i]] = <<>>
               \/ (data'[vollist[i]] # <<>> /\ data'[vollist[i]][1].archid = "new")
    <3>1. vollist[i] \in Paths BY <1>3
    <3>2. CASE vollist[i] = Elsewhere
      <4>1. data'[vollist[i]] = data[vollist[j]] BY <3>2, <2>2, <1>4
      <4> QED BY <4>1, <2>1, <2>3 DEF RemoveInv, New
    <3>3. CASE vollist[i] # Elsewhere
      <4>1. data'[vollist[i]] = data[vollist[i]] BY <3>1, <3>3, <1>4
      <4> QED BY <4>1, <2>1 DEF RemoveInv, New
    <3> QED BY <3>2, <3>3
  <2>5. vollist' = vollist /\ kept' = kept /\ rpc' # "idle" BY <1>w, <1>8
  <2>6. wpc' # "removed" BY <1>7, <2>1, <2>3 DEF RemoveInv
  <2> QED BY <2>3, <2>4, <2>5, <2>6 DEF RemoveInv, New
<1>16. ASSUME NEW m \in 0 .. curvol, m # n, NEW b, FullVolume(get_path_to_volume(m), m, b)
       PROVE  FullVolume(get_path_to_volume(m), m, b)'
  <2>1. get_path_to_volume(m) # p /\ get_path_to_volume(m) # Elsewhere
    BY <1>16, <1>2, <1>3, PathsDiffer
  <2>2. get_path_to_volume(m) \in present BY <1>16 DEF FullVolume
  <2>3. get_path_to_volume(m) \in present' BY <2>1, <2>2, <1>1, <1>2
  <2>4. data'[get_path_to_volume(m)] = data[get_path_to_volume(m)] BY <2>1, <2>2, <1>3, <1>4
  <2> QED BY <1>16, <2>3, <2>4 DEF FullVolume
<1>17. DoneInv'
  <2>1. ASSUME wpc = "done", count > 0, NEW m \in 0 .. curvol
        PROVE  \/ FullVolume(get_path_to_volume(m), m, m = curvol)'
               \/ /\ m > 0 /\ get_path_to_volume(m) \notin present'
                  /\ FullVolume(Elsewhere, m, m = curvol)'
    <3>1. FullVolume(get_path_to_volume(m), m, m = curvol)
      BY <1>w, <2>1 DEF VolumesInv, DoneInv, FullVolume
    <3>2. curvol' = curvol BY <1>w
    <3>3. CASE m # n
      BY <3>1, <3>2, <3>3, <1>16 DEF FullVolume
    <3>4. CASE m = n
      <4>1. m > 0 /\ p # Elsewhere BY <3>4, <1>1, <1>2, <1>3, PathsDiffer
      <4>2. get_path_to_volume(m) \notin present' BY <3>4, <4>1, <1>1, <1>2
      <4>3. Elsewhere \in present' BY <1>1
      <4>4. FullVolume(Elsewhere, m, m = curvol)' BY <3>1, <3>2, <3>4, <4>3, <1>2, <1>4 DEF FullVolume
      <4> QED BY <4>1, <4>2, <4>4
    <3> QED BY <3>3, <3>4
  <2>2. curvol' = curvol /\ count' = count BY <1>w
  <2> QED BY <2>1, <2>2, <1>7 DEF DoneInv
<1>18. ReaderInv'
  <2>1. ReaderInv BY DEF VolumesInv
  <2> QED BY <2>1, <1>w, <1>8 DEF ReaderInv
<1>19. ReadableInv'
  <2>1. ASSUME wpc = "done", count > 0, ~mistyped
        PROVE  0 <= curvol /\ FullVolume(rpath, 0, 0 = curvol)'
    <3>1. FullVolume(rpath, 0, 0 = curvol) BY <2>1, <1>w DEF VolumesInv, ReadableInv
    <3>2. rpath = get_path_to_volume(0) BY <1>w DEF VolumesInv, ReaderInv
    <3>3. 0 \in 0 .. curvol /\ curvol' = curvol BY <1>3, <1>w
    <3>4. FullVolume(get_path_to_volume(0), 0, 0 = curvol)' BY <3>1, <3>2, <3>3, <1>3, <1>16 DEF FullVolume
    <3> QED BY <3>2, <3>4, <1>3, <1>8 DEF FullVolume
  <2>2. wpc' = wpc /\ count' = count /\ curvol' = curvol BY <1>w
  <2> QED BY <2>1, <2>2, <1>8 DEF ReadableInv
<1>20. ItemsOfOneArchive' /\ EndMeansWhole'
  <2>1. count' = count BY <1>w
  <2> QED BY <2>1, <1>8 DEF VolumesInv, ItemsOfOneArchive, EndMeansWhole
<1> QED
  BY <1>9, <1>10, <1>11, <1>12, <1>13, <1>14, <1>15, <1>17, <1>18, <1>19, <1>20 DEF VolumesInv

-----------------------------------------------------------------------------
(* The steps of the reader *)

\* They change no file and nothing of the writer.
LEMMA ReaderKeepsFiles ==
    ASSUME VolumesInv, UNCHANGED <<options, filevars, writervars>>, rpc' # "idle", wpc \in Ended
    PROVE  /\ FilesInv' /\ StageInv' /\ BufferInv' /\ CurrentInv' /\ LastInv' /\ RemoveInv'
           /\ DoneInv'
<1>1. UNCHANGED <<options, present, data, cursize, wpc, curvol, vollist, wb, count, kept>>
  BY DEF filevars, writervars
<1>2. wpc' \notin Writing /\ wpc' \notin {"create", "volheader", "next", "split", "write"}
  BY <1>1 DEF Ended, Writing
<1>3. FilesInv' BY <1>1 DEF VolumesInv, FilesInv
<1>4. StageInv' BY <1>1 DEF StageInv, Ended
<1>5. BufferInv' BY <1>2 DEF BufferInv
<1>6. CurrentInv' BY <1>2 DEF CurrentInv, Writing
<1>7. LastInv' BY <1>1 DEF VolumesInv, LastInv
<1>8. RemoveInv'
  <2>1. RemoveInv BY DEF VolumesInv
  <2> QED BY <2>1, <1>1 DEF RemoveInv, New
<1>9. DoneInv'
  <2>1. DoneInv BY DEF VolumesInv
  <2> QED BY <2>1, <1>1, <1>2 DEF DoneInv, FullVolume
<1> QED BY <1>3, <1>4, <1>5, <1>6, <1>7, <1>8, <1>9

LEMMA ReaderTypes ==
    ASSUME VolumesTypeOK, UNCHANGED <<options, filevars, writervars>>,
           rpc' \in {"idle", "open", "main", "loop", "prompt", "end"},
           rvol' \in Nat, rpath' \in Paths, rpos' \in Nat \ {0},
           rarchid' \in {"none", "old", "new"}, got' \in Seq(Entry),
           endofarchive' \in BOOLEAN, mistyped' \in BOOLEAN
    PROVE  VolumesTypeOK'
<1>1. UNCHANGED <<options, present, data, cursize, wpc, curvol, vollist, wb, count, kept>>
  BY DEF filevars, writervars
<1>2. /\ options' \in Options /\ present' \subseteq Paths
      /\ data' \in [Paths -> Seq(Entry)] /\ cursize' \in Nat
      /\ wpc' \in {"create", "volheader", "next", "split", "write", "remove"} \cup Ended
      /\ curvol' \in 0 .. MaxItems /\ vollist' \in Seq(Paths)
      /\ count' \in 0 .. MaxItems /\ kept' \subseteq Paths
  BY <1>1 DEF VolumesTypeOK
<1>3. wb' \in [entries: Seq(Entry), size: Nat] BY <1>1 DEF VolumesTypeOK
<1> QED BY <1>2, <1>3 DEF VolumesTypeOK

\* The types of the reader's own variables
LEMMA ReaderTypesNow ==
    ASSUME VolumesTypeOK
    PROVE  /\ rpc \in {"idle", "open", "main", "loop", "prompt", "end"}
           /\ rvol \in Nat /\ rpath \in Paths /\ rpos \in Nat \ {0}
           /\ rarchid \in {"none", "old", "new"} /\ got \in Seq(Entry)
           /\ endofarchive \in BOOLEAN /\ mistyped \in BOOLEAN
           /\ present \subseteq Paths /\ data \in [Paths -> Seq(Entry)]
           /\ \A p \in Paths : data[p] \in Seq(Entry) /\ Len(data[p]) \in Nat
           /\ curvol \in Nat /\ count \in Nat
<1>1. /\ rpc \in {"idle", "open", "main", "loop", "prompt", "end"}
      /\ rvol \in Nat /\ rpath \in Paths /\ rpos \in Nat \ {0}
      /\ rarchid \in {"none", "old", "new"} /\ got \in Seq(Entry)
      /\ present \subseteq Paths /\ data \in [Paths -> Seq(Entry)]
  BY DEF VolumesTypeOK
<1>2. endofarchive \in BOOLEAN /\ mistyped \in BOOLEAN BY DEF VolumesTypeOK
<1>3. curvol \in Nat /\ count \in Nat BY VolumesAssumption DEF VolumesTypeOK
<1>4. \A p \in Paths : data[p] \in Seq(Entry) /\ Len(data[p]) \in Nat BY <1>1
<1> QED BY <1>1, <1>2, <1>3, <1>4

\* The volume that is being read
LEMMA OpenVolume ==
    ASSUME VolumesInv, rpc \in {"main", "loop"}, NEW d, d = data[rpath]
    PROVE  /\ wpc \in Ended /\ rpath \in present /\ d \in Seq(Entry)
           /\ Len(d) \in Nat /\ Len(d) > 0 /\ WellFormed(d) /\ rpos <= Len(d) + 1
           /\ d[1].archid = rarchid /\ d[1].num = rvol /\ ~endofarchive
           /\ wpc = "done" /\ count > 0 /\ ~mistyped =>
                 /\ rvol <= curvol /\ rarchid = "new" /\ Len(d) > 2
                 /\ d[Len(d)] = VolFooter("new", rvol, rvol = curvol)
<1>t. VolumesTypeOK BY DEF VolumesInv
<1>1. /\ rvol \in Nat /\ rpath \in Paths
      /\ data[rpath] \in Seq(Entry) /\ Len(data[rpath]) \in Nat
  BY <1>t, ReaderTypesNow
<1>2. wpc \in Ended BY DEF VolumesInv, StageInv
<1>3. /\ rpath \in present /\ d # <<>> /\ rpos <= Len(d) + 1
      /\ d[1].archid = rarchid /\ d[1].num = rvol /\ ~endofarchive
  BY DEF VolumesInv, ReaderInv
<1>4. Len(d) > 0 BY <1>1, <1>3
<1>5. WellFormed(d) BY <1>3 DEF VolumesInv, FilesInv
<1>6. ASSUME wpc = "done", count > 0, ~mistyped
      PROVE  /\ rvol <= curvol /\ rarchid = "new" /\ Len(d) > 2
             /\ d[Len(d)] = VolFooter("new", rvol, rvol = curvol)
  <2>1. rvol <= curvol /\ FullVolume(rpath, rvol, rvol = curvol)
    BY <1>6 DEF VolumesInv, ReadableInv
  <2>2. d[1] = VolHeader("new", rvol) BY <2>1 DEF FullVolume
  <2>3. d[1].archid = "new" BY <2>2, <1>1, EntryTypes
  <2> QED BY <2>1, <2>3, <1>3 DEF FullVolume
<1> QED BY <1>1, <1>2, <1>3, <1>4, <1>5, <1>6

LEMMA StartStep ==
    ASSUME VolumesInv, reader_start
    PROVE  VolumesInv'
<1>t. VolumesTypeOK BY DEF VolumesInv
<1>w. /\ rpc = "idle" /\ wpc \in Ended /\ rpc' = "open"
      /\ UNCHANGED <<options, filevars, writervars>>
      /\ UNCHANGED <<rvol, rpath, rpos, rarchid, endofarchive, got, mistyped>>
  BY DEF reader_start
<1>0. UNCHANGED <<options, present, data, cursize, wpc, curvol, vollist, wb, count, kept>>
  BY <1>w DEF filevars, writervars
<1>1. VolumesTypeOK'
  <2>1. /\ rvol' \in Nat /\ rpath' \in Paths /\ rpos' \in Nat \ {0}
        /\ rarchid' \in {"none", "old", "new"} /\ got' \in Seq(Entry)
    BY <1>t, <1>w, ReaderTypesNow
  <2>2. endofarchive' \in BOOLEAN /\ mistyped' \in BOOLEAN BY <1>t, <1>w, ReaderTypesNow
  <2>3. rpc' \in {"idle", "open", "main", "loop", "prompt", "end"} BY <1>w
  <2> QED BY <1>t, <1>w, <2>1, <2>2, <2>3, ReaderTypes
<1>2. FilesInv' /\ StageInv' /\ BufferInv' /\ CurrentInv' /\ LastInv' /\ RemoveInv' /\ DoneInv'
  BY <1>w, ReaderKeepsFiles
<1>3. /\ rvol = 0 /\ got = <<>> /\ rarchid = "none" /\ rpath = get_path_to_volume(0)
      /\ ~endofarchive
  BY <1>w DEF VolumesInv, ReaderInv
<1>4. ReaderInv' BY <1>w, <1>3 DEF ReaderInv
<1>5. ReadableInv'
  <2>1. ASSUME wpc = "done", count > 0
        PROVE  FullVolume(get_path_to_volume(0), 0, 0 = curvol)
    <3>1. 0 \in 0 .. curvol BY <1>t, ReaderTypesNow
    <3> QED BY <2>1, <3>1 DEF VolumesInv, DoneInv
  <2>2. 0 <= curvol BY <1>t, ReaderTypesNow
  <2>3. ASSUME wpc' = "done", count' > 0
        PROVE  rvol' <= curvol' /\ FullVolume(rpath, rvol, rvol = curvol)'
    BY <2>1, <2>2, <2>3, <1>0, <1>w, <1>3 DEF FullVolume
  <2> QED BY <2>3, <1>w, <1>3 DEF ReadableInv
<1>6. ItemsOfOneArchive' /\ EndMeansWhole'
  BY <1>w, <1>3 DEF ItemsOfOneArchive, EndMeansWhole
<1> QED BY <1>1, <1>2, <1>4, <1>5, <1>6 DEF VolumesInv

\* The reader gives up: no archive that was saved completely.
LEMMA GiveUp ==
    ASSUME VolumesInv, wpc \in Ended, rpc' = "end", UNCHANGED <<options, filevars, writervars>>,
           UNCHANGED <<rvol, rpath, rarchid, endofarchive, got, mistyped>>, rpos' \in Nat \ {0},
           ~endofarchive, ~(wpc = "done" /\ count > 0 /\ ~mistyped)
    PROVE  VolumesInv'
<1>t. VolumesTypeOK BY DEF VolumesInv
<1>0. UNCHANGED <<options, present, data, cursize, wpc, curvol, vollist, wb, count, kept>>
  BY DEF filevars, writervars
<1>1. VolumesTypeOK'
  <2>1. /\ rvol' \in Nat /\ rpath' \in Paths
        /\ rarchid' \in {"none", "old", "new"} /\ got' \in Seq(Entry)
    BY <1>t, ReaderTypesNow
  <2>2. endofarchive' \in BOOLEAN /\ mistyped' \in BOOLEAN BY <1>t, ReaderTypesNow
  <2>3. rpc' \in {"idle", "open", "main", "loop", "prompt", "end"} OBVIOUS
  <2> QED BY <1>t, <2>1, <2>2, <2>3, ReaderTypes
<1>2. FilesInv' /\ StageInv' /\ BufferInv' /\ CurrentInv' /\ LastInv' /\ RemoveInv' /\ DoneInv'
  BY ReaderKeepsFiles
<1>3. ReaderInv' BY DEF ReaderInv
<1>4. ReadableInv' BY <1>0 DEF ReadableInv
<1>5. ItemsOfOneArchive' BY DEF VolumesInv, ItemsOfOneArchive
<1>6. EndMeansWhole' BY DEF EndMeansWhole
<1> QED BY <1>1, <1>2, <1>3, <1>4, <1>5, <1>6 DEF VolumesInv

\* A volume is opened: the first one, or the one that goes on.
LEMMA OpenStep ==
    ASSUME VolumesInv, reader_open
    PROVE  VolumesInv'
<1>t. VolumesTypeOK BY DEF VolumesInv
<1>w. /\ rpc = "open" /\ rpos' = 2
      /\ UNCHANGED <<options, filevars, writervars>>
      /\ UNCHANGED <<rvol, rpath, endofarchive, got, mistyped>>
  BY DEF reader_open
<1>0. UNCHANGED <<options, present, data, cursize, wpc, curvol, vollist, wb, count, kept>>
  BY <1>w DEF filevars, writervars
<1>r. /\ rvol \in Nat /\ rpath \in Paths /\ rarchid \in {"none", "old", "new"}
      /\ got \in Seq(Entry) /\ data[rpath] \in Seq(Entry) /\ Len(data[rpath]) \in Nat
      /\ present \subseteq Paths
  BY <1>t, ReaderTypesNow
<1>1. wpc \in Ended BY <1>w DEF VolumesInv, StageInv
<1>2. ~endofarchive BY <1>w DEF VolumesInv, ReaderInv
<1>3. wpc = "done" /\ count > 0 /\ ~mistyped =>
         /\ rvol <= curvol /\ FullVolume(rpath, rvol, rvol = curvol)
         /\ rvol > 0 => rarchid = "new"
  BY <1>w DEF VolumesInv, ReadableInv
<1>4. CASE ~(archreader_open(rpath) /\ archreader_read_volheader(data[rpath][1]))
  <2>1. rpc' = "end" /\ rarchid' = rarchid BY <1>4 DEF reader_open
  <2>2. ~(wpc = "done" /\ count > 0 /\ ~mistyped)
    <3>1. SUFFICES ASSUME wpc = "done", count > 0, ~mistyped PROVE FALSE OBVIOUS
    <3>2. FullVolume(rpath, rvol, rvol = curvol) /\ (rvol > 0 => rarchid = "new") BY <1>3, <3>1
    <3>3. /\ rpath \in present /\ Len(data[rpath]) > 2 /\ data[rpath][1] = VolHeader("new", rvol)
      BY <3>2 DEF FullVolume
    <3>4. data[rpath] # <<>> BY <3>3
    <3>5. /\ data[rpath][1].magic = "VOLH" /\ data[rpath][1].archid = "new"
          /\ data[rpath][1].num = rvol
      BY <3>3, <1>r, EntryTypes
    <3>6. rvol = 0 => rarchid = "none" BY <1>w DEF VolumesInv, ReaderInv
    <3>7. rvol = 0 \/ rvol > 0 BY <1>r
    <3>8. archreader_open(rpath) BY <3>3, <3>4, <3>5 DEF archreader_open
    <3>9. archreader_read_volheader(data[rpath][1])
      BY <3>2, <3>5, <3>6, <3>7 DEF archreader_read_volheader
    <3> QED BY <3>8, <3>9, <1>4
  <2>3. rpos' \in Nat \ {0} BY <1>w
  <2> QED BY <1>w, <1>1, <1>2, <2>1, <2>2, <2>3, GiveUp
<1>5. CASE archreader_open(rpath) /\ archreader_read_volheader(data[rpath][1])
  <2>1. PICK d : d = data[rpath] OBVIOUS
  <2>2. /\ rarchid' = d[1].archid /\ rpc' = IF rvol = 0 THEN "main" ELSE "loop"
        /\ rpath \in present /\ d # <<>> /\ d[1].num = rvol
        /\ rarchid \in {"none", d[1].archid}
    BY <1>5, <2>1 DEF reader_open, archreader_open, archreader_read_volheader
  <2>3. d \in Seq(Entry) /\ Len(d) \in Nat /\ Len(d) > 0 BY <1>r, <2>1, <2>2
  <2>4. d[1] \in Entry BY <2>3
  <2>5. d[1].archid \in {"old", "new"} BY <2>4, EntryFields
  <2>6. rpc' \in {"main", "loop"} BY <2>2
  <2>7. VolumesTypeOK'
    <3>1. /\ rvol' \in Nat /\ rpath' \in Paths /\ rpos' \in Nat \ {0}
          /\ rarchid' \in {"none", "old", "new"} /\ got' \in Seq(Entry)
      BY <1>r, <1>w, <2>2, <2>5
    <3>2. endofarchive' \in BOOLEAN /\ mistyped' \in BOOLEAN BY <1>t, <1>w, ReaderTypesNow
    <3>3. rpc' \in {"idle", "open", "main", "loop", "prompt", "end"} BY <2>6
    <3> QED BY <1>t, <1>w, <3>1, <3>2, <3>3, ReaderTypes
  <2>8. FilesInv' /\ StageInv' /\ BufferInv' /\ CurrentInv' /\ LastInv' /\ RemoveInv' /\ DoneInv'
    BY <1>w, <1>1, <2>6, ReaderKeepsFiles
  <2>9. /\ rpath' \in present' /\ data'[rpath'] = d /\ d # <<>> /\ rpos' <= Len(d) + 1
        /\ d[1].archid = rarchid' /\ d[1].num = rvol'
    BY <1>w, <1>0, <2>1, <2>2, <2>3
  <2>10. CASE rvol = 0
    <3>1. got = <<>> BY <1>w, <2>10 DEF VolumesInv, ReaderInv
    <3>2. rpc' = "main" BY <2>2, <2>10
    <3>3. ReaderInv' BY <1>w, <1>2, <2>9, <2>10, <3>1, <3>2 DEF ReaderInv
    <3>4. ItemsOfOneArchive' BY <1>w, <3>1 DEF ItemsOfOneArchive
    <3>5. ReadableInv'
      <4>1. ASSUME wpc' = "done", count' > 0, ~mistyped'
            PROVE  rvol' <= curvol' /\ FullVolume(rpath, rvol, rvol = curvol)'
        BY <4>1, <1>0, <1>w, <1>3 DEF FullVolume
      <4>2. rvol' = 0 BY <1>w, <2>10
      <4> QED BY <4>1, <4>2, <3>2 DEF ReadableInv
    <3>6. EndMeansWhole' BY <1>w, <1>2 DEF EndMeansWhole
    <3> QED BY <2>7, <2>8, <3>3, <3>4, <3>5, <3>6 DEF VolumesInv
  <2>11. CASE rvol # 0
    <3>0. rvol > 0 /\ rpc' = "loop" BY <1>r, <2>2, <2>11
    <3>1. got # <<>> /\ \E p \in present :
                /\ Closed(data[p]) /\ data[p][Len(data[p]) - 1].num = Len(got)
                /\ data[p][1].archid = rarchid /\ data[p][1].num + 1 = rvol
      BY <1>w, <3>0 DEF VolumesInv, ReaderInv
    <3>2. PICK p \in present :
                /\ Closed(data[p]) /\ data[p][Len(data[p]) - 1].num = Len(got)
                /\ data[p][1].archid = rarchid /\ data[p][1].num + 1 = rvol
      BY <3>1
    <3>3. data[p][1].archid = d[1].archid /\ rarchid' = rarchid
      <4>1. data[p] \in Seq(Entry) /\ Len(data[p]) \in Nat BY <1>t, ReaderTypesNow
      <4>2. Len(data[p]) > 2 BY <3>2 DEF Closed
      <4>3. data[p][1] \in Entry BY <4>1, <4>2
      <4>4. data[p][1].archid # "none" BY <4>3, EntryFields
      <4> QED BY <3>2, <4>4, <2>2
    <3>4. GoesOn(data[p], d) BY <2>1, <2>2 DEF VolumesInv, FilesInv
    <3>5. Len(d) > 1 => d[2].num = Len(got) + 1 BY <3>2, <3>3, <3>4, <2>2 DEF GoesOn
    <3>6. ReaderInv'
      <4>1. rpos' = 2 /\ rvol' > 0 /\ got' # <<>> /\ got' = got BY <1>w, <3>0, <3>1
      <4>2. ~endofarchive' BY <1>w, <1>2
      <4> QED BY <2>9, <3>0, <3>5, <4>1, <4>2 DEF ReaderInv
    <3>7. ItemsOfOneArchive' BY <1>w, <3>3 DEF VolumesInv, ItemsOfOneArchive
    <3>8. ReadableInv'
      <4>1. ASSUME wpc' = "done", count' > 0, ~mistyped'
            PROVE  rvol' <= curvol' /\ FullVolume(rpath, rvol, rvol = curvol)' /\ rarchid' = "new"
        BY <4>1, <1>0, <1>w, <1>3, <3>0, <3>3 DEF FullVolume
      <4> QED BY <4>1, <3>0 DEF ReadableInv
    <3>9. EndMeansWhole' BY <1>w, <1>2 DEF EndMeansWhole
    <3> QED BY <2>7, <2>8, <3>6, <3>7, <3>8, <3>9 DEF VolumesInv
  <2> QED BY <2>10, <2>11
<1> QED BY <1>4, <1>5

\* The main header
LEMMA MainStep ==
    ASSUME VolumesInv, reader_main
    PROVE  VolumesInv'
<1>t. VolumesTypeOK BY DEF VolumesInv
<1>w. /\ rpc = "main" /\ rpos' = rpos + 1
      /\ UNCHANGED <<options, filevars, writervars>>
      /\ UNCHANGED <<rvol, rpath, rarchid, endofarchive, mistyped>>
  BY DEF reader_main
<1>0. UNCHANGED <<options, present, data, cursize, wpc, curvol, vollist, wb, count, kept>>
  BY <1>w DEF filevars, writervars
<1>1. PICK d : d = data[rpath] OBVIOUS
<1>2. /\ wpc \in Ended /\ rpath \in present /\ d \in Seq(Entry)
      /\ Len(d) \in Nat /\ Len(d) > 0 /\ WellFormed(d)
      /\ d[1].archid = rarchid /\ d[1].num = rvol /\ ~endofarchive
      /\ wpc = "done" /\ count > 0 /\ ~mistyped => Len(d) > 2
  BY <1>1, <1>w, OpenVolume
<1>3. rvol = 0 /\ rpos = 2 /\ got = <<>> BY <1>w DEF VolumesInv, ReaderInv
<1>4. rpos' = 3 /\ rpos' \in Nat \ {0} BY <1>w, <1>3
<1>5. CanRead(1) <=> 2 <= Len(d) BY <1>1, <1>2, <1>3 DEF CanRead
<1>6. CASE ~(CanRead(1) /\ d[2].magic = "MAIN")
  <2>1. rpc' = "end" /\ got' = got BY <1>1, <1>3, <1>6 DEF reader_main
  <2>2. ~(wpc = "done" /\ count > 0 /\ ~mistyped)
    <3>1. SUFFICES ASSUME Len(d) > 2 PROVE FALSE BY <1>2
    <3>0. \A n \in Nat : n > 2 => 2 <= n /\ 2 \in 1 .. n /\ 2 # n /\ n > 1 OBVIOUS
    <3>2. 2 <= Len(d) /\ 2 \in 1 .. Len(d) /\ 2 # Len(d) /\ Len(d) > 1 BY <3>0, <3>1, <1>2
    <3>3. d[2].magic \in {"MAIN", "VOLF"} BY <3>2, <1>2, <1>3 DEF WellFormed
    <3>4. d[2].magic = "VOLF" BY <3>2, <3>3, <1>5, <1>6
    <3> QED BY <3>2, <3>4, <1>2, FooterIsLast
  <2> QED BY <1>w, <1>2, <1>4, <2>1, <2>2, GiveUp
<1>7. CASE CanRead(1) /\ d[2].magic = "MAIN"
  <2>1. rpc' = "loop" /\ got' = <<d[2]>> BY <1>1, <1>3, <1>7 DEF reader_main
  <2>2. Len(d) > 1 /\ 2 \in 1 .. Len(d) /\ 1 \in 1 .. Len(d) /\ 1 < Len(d) /\ 3 <= Len(d) + 1
    BY <1>2, <1>5, <1>7
  <2>3. Follows(d[1], d[1 + 1]) BY <2>2, <1>2 DEF WellFormed
  <2>4. d[1].magic = "VOLH" /\ d[2].archid = rarchid BY <2>2, <1>2 DEF WellFormed
  <2>5. d[2].num = 1 /\ EndOfItem(d[2]) BY <2>3, <2>4, <1>7 DEF Follows, EndOfItem
  <2>6. d[2] \in Entry BY <2>2, <1>2
  <2>7. got' \in Seq(Entry) /\ Len(got') = 1 /\ got' # <<>> /\ got'[1] = d[2] /\ DOMAIN got' = {1}
    BY <2>1, <2>6
  <2>8. VolumesTypeOK'
    <3>1. /\ rvol' \in Nat /\ rpath' \in Paths /\ rarchid' \in {"none", "old", "new"}
      BY <1>t, <1>w, ReaderTypesNow
    <3>2. endofarchive' \in BOOLEAN /\ mistyped' \in BOOLEAN BY <1>t, <1>w, ReaderTypesNow
    <3>3. rpc' \in {"idle", "open", "main", "loop", "prompt", "end"} BY <2>1
    <3> QED BY <1>t, <1>w, <1>4, <2>7, <3>1, <3>2, <3>3, ReaderTypes
  <2>9. FilesInv' /\ StageInv' /\ BufferInv' /\ CurrentInv' /\ LastInv' /\ RemoveInv' /\ DoneInv'
    BY <1>w, <1>2, <2>1, ReaderKeepsFiles
  <2>10. ReaderInv'
    <3>1. /\ rpath' \in present' /\ data'[rpath'] = d /\ d # <<>> /\ rpos' <= Len(d) + 1
          /\ d[1].archid = rarchid' /\ d[1].num = rvol' /\ ~endofarchive'
      BY <1>w, <1>0, <1>1, <1>2, <1>4, <2>2
    <3>2. rpos' > 2 /\ rpos' - 1 = 2 BY <1>4
    <3> QED BY <2>1, <2>5, <2>7, <3>1, <3>2 DEF ReaderInv
  <2>11. ReadableInv'
    <3>1. ASSUME wpc' = "done", count' > 0, ~mistyped'
          PROVE  rvol' <= curvol' /\ FullVolume(rpath, rvol, rvol = curvol)'
      <4>1. rvol <= curvol /\ FullVolume(rpath, rvol, rvol = curvol)
        BY <3>1, <1>0, <1>w DEF VolumesInv, ReadableInv
      <4> QED BY <4>1, <1>0, <1>w DEF FullVolume
    <3>2. ~(rvol' > 0) BY <1>w, <1>3
    <3> QED BY <2>1, <3>1, <3>2 DEF ReadableInv
  <2>12. ItemsOfOneArchive' BY <1>w, <2>4, <2>5, <2>7 DEF ItemsOfOneArchive
  <2>13. EndMeansWhole' BY <1>w, <1>2 DEF EndMeansWhole
  <2> QED BY <2>8, <2>9, <2>10, <2>11, <2>12, <2>13 DEF VolumesInv
<1> QED BY <1>6, <1>7

\* The entry at the position of the reader
LEMMA NextEntry ==
    ASSUME VolumesInv, rpc = "loop", NEW d, d = data[rpath], rpos <= Len(d)
    PROVE  /\ rpos \in 1 .. Len(d) /\ d[rpos] \in Entry /\ d[rpos].archid = rarchid /\ rpos > 1
           /\ \/ /\ d[rpos].magic \in {"HEAD", "BLKH"} /\ d[rpos].num = Len(got) + 1
              \/ /\ d[rpos].magic = "VOLF" /\ rpos > 2 /\ rpos = Len(d)
                 /\ d[rpos - 1].num = Len(got)
<1>t. VolumesTypeOK BY DEF VolumesInv
<1>1. /\ d \in Seq(Entry) /\ Len(d) \in Nat /\ Len(d) > 0 /\ WellFormed(d)
      /\ d[1].archid = rarchid /\ d[1].num = rvol
  BY OpenVolume
<1>2. rpos \in Nat /\ rvol \in Nat /\ got \in Seq(Entry) BY <1>t, ReaderTypesNow
<1>3. \/ /\ rpos = 2 /\ rvol > 0 /\ got # <<>>
         /\ Len(d) > 1 => d[2].num = Len(got) + 1
      \/ /\ rpos > 2 /\ got # <<>>
         /\ EndOfItem(d[rpos - 1]) /\ d[rpos - 1].num = Len(got)
  BY DEF VolumesInv, ReaderInv
<1>4. rpos > 1 /\ rpos \in 1 .. Len(d) /\ rpos - 1 \in 1 .. Len(d) /\ rpos - 1 < Len(d)
      /\ (rpos - 1) + 1 = rpos
  <2>1. rpos > 1 BY <1>2, <1>3
  <2>2. \A m, n \in Nat : m > 1 /\ m <= n =>
           /\ m \in 1 .. n /\ m - 1 \in 1 .. n /\ m - 1 < n /\ (m - 1) + 1 = m
    OBVIOUS
  <2> QED BY <1>1, <1>2, <2>1, <2>2
<1>5. d[rpos] \in Entry /\ d[rpos].archid = rarchid BY <1>1, <1>4 DEF WellFormed
<1>6. Follows(d[rpos - 1], d[rpos]) BY <1>1, <1>4 DEF WellFormed
<1>7. d[rpos].magic = "VOLF" => rpos = Len(d) BY <1>1, <1>4, FooterIsLast
<1>8. Len(got) \in Nat /\ (got # <<>> => Len(got) > 0) BY <1>2
<1>9. CASE rpos = 2 /\ rvol > 0
  <2>1. rpos - 1 = 1 /\ Len(d) > 1 BY <1>1, <1>4, <1>9
  <2>2. d[1].magic = "VOLH" BY <1>1, <2>1 DEF WellFormed
  <2>3. d[2].num = Len(got) + 1 /\ got # <<>> BY <1>3, <1>9, <2>1
  <2>4. d[2].num # 1 BY <2>3, <1>8
  <2>5. d[1].num # 0 BY <1>1, <1>9
  <2>6. Follows(d[1], d[2]) BY <1>6, <1>9, <2>1
  <2>7. d[2].magic \in {"HEAD", "BLKH"} BY <2>2, <2>4, <2>5, <2>6 DEF Follows, EndOfItem
  <2> QED BY <1>4, <1>5, <1>9, <2>3, <2>7
<1>10. CASE rpos > 2
  <2>1. EndOfItem(d[rpos - 1]) /\ d[rpos - 1].num = Len(got) BY <1>2, <1>3, <1>10
  <2>2. \/ d[rpos].magic \in {"HEAD", "BLKH"} /\ d[rpos].num = d[rpos - 1].num + 1
        \/ d[rpos].magic = "VOLF"
    BY <1>6, <2>1 DEF Follows, EndOfItem
  <2> QED BY <1>4, <1>5, <1>7, <1>10, <2>1, <2>2
<1> QED BY <1>3, <1>9, <1>10

\* A header or a block
LEMMA ReadStep ==
    ASSUME VolumesInv, reader_read
    PROVE  VolumesInv'
<1>t. VolumesTypeOK BY DEF VolumesInv
<1>w. /\ rpc = "loop" /\ CanRead(1) /\ data[rpath][rpos].magic # "VOLF" /\ CanRead(ItemSize)
      /\ got' = Append(got, data[rpath][rpos]) /\ rpos' = rpos + ItemSize
      /\ UNCHANGED <<options, filevars, writervars>>
      /\ UNCHANGED <<rpc, rvol, rpath, rarchid, endofarchive, mistyped>>
  BY DEF reader_read
<1>0. UNCHANGED <<options, present, data, cursize, wpc, curvol, vollist, wb, count, kept>>
  BY <1>w DEF filevars, writervars
<1>1. PICK d : d = data[rpath] OBVIOUS
<1>2. /\ wpc \in Ended /\ rpath \in present /\ d \in Seq(Entry)
      /\ Len(d) \in Nat /\ Len(d) > 0 /\ WellFormed(d)
      /\ d[1].archid = rarchid /\ d[1].num = rvol /\ ~endofarchive
  BY <1>1, <1>w, OpenVolume
<1>r. rpos \in Nat /\ got \in Seq(Entry) /\ Len(got) \in Nat BY <1>t, ReaderTypesNow
<1>3. rpos <= Len(d) BY <1>1, <1>2, <1>r, <1>w DEF CanRead
<1>4. /\ rpos \in 1 .. Len(d) /\ d[rpos] \in Entry /\ d[rpos].archid = rarchid /\ rpos > 1
      /\ d[rpos].magic \in {"HEAD", "BLKH"} /\ d[rpos].num = Len(got) + 1
  BY <1>1, <1>3, <1>w, NextEntry
<1>5. /\ got' \in Seq(Entry) /\ Len(got') = Len(got) + 1 /\ got' # <<>>
      /\ \A i \in 1 .. Len(got) : got'[i] = got[i]
      /\ got'[Len(got) + 1] = d[rpos]
  BY <1>1, <1>4, <1>r, <1>w, AppendEntry
<1>6. /\ rpos' \in Nat /\ rpos' > 2 /\ rpos' <= Len(d) + 1
      /\ EndOfItem(d[rpos' - 1]) /\ d[rpos' - 1].num = Len(got')
  <2>1. CASE d[rpos].magic = "HEAD"
    <3>1. ItemSize = 1 BY <1>1, <2>1 DEF ItemSize
    <3>2. rpos' = rpos + 1 /\ rpos' - 1 = rpos BY <1>r, <1>w, <3>1
    <3> QED BY <1>2, <1>3, <1>4, <1>5, <1>r, <2>1, <3>2 DEF EndOfItem
  <2>2. CASE d[rpos].magic = "BLKH"
    <3>1. ItemSize = 2 BY <1>1, <2>2 DEF ItemSize
    <3>2. rpos' = rpos + 2 /\ rpos' - 1 = rpos + 1 BY <1>r, <1>w, <3>1
    <3>3. rpos + 1 <= Len(d)
      <4>1. CanRead(2) BY <1>w, <3>1
      <4>2. rpos + 2 - 1 <= Len(d) BY <4>1, <1>1 DEF CanRead
      <4> QED BY <4>2, <1>r, <1>2
    <3>4. rpos < Len(d) BY <3>3, <1>r, <1>2
    <3>5. Follows(d[rpos], d[rpos + 1]) BY <3>4, <1>2, <1>4 DEF WellFormed
    <3>6. d[rpos + 1].magic = "DATA" /\ d[rpos + 1].num = d[rpos].num
      BY <2>2, <3>5 DEF Follows, EndOfItem
    <3>7. rpos' \in Nat /\ rpos' > 2 /\ rpos' <= Len(d) + 1 BY <1>2, <1>4, <1>r, <3>2, <3>3
    <3> QED BY <1>4, <1>5, <3>2, <3>6, <3>7 DEF EndOfItem
  <2> QED BY <1>4, <2>1, <2>2
<1>7. VolumesTypeOK'
  <2>1. /\ rvol' \in Nat /\ rpath' \in Paths /\ rarchid' \in {"none", "old", "new"}
        /\ rpc' \in {"idle", "open", "main", "loop", "prompt", "end"}
    BY <1>t, <1>w, ReaderTypesNow
  <2>2. endofarchive' \in BOOLEAN /\ mistyped' \in BOOLEAN BY <1>t, <1>w, ReaderTypesNow
  <2>3. rpos' \in Nat \ {0} BY <1>6
  <2> QED BY <1>t, <1>w, <1>5, <2>1, <2>2, <2>3, ReaderTypes
<1>8. FilesInv' /\ StageInv' /\ BufferInv' /\ CurrentInv' /\ LastInv' /\ RemoveInv' /\ DoneInv'
  <2>1. rpc' # "idle" BY <1>w
  <2> QED BY <1>w, <1>2, <2>1, ReaderKeepsFiles
<1>9. ReaderInv'
  <2>1. /\ rpath' \in present' /\ data'[rpath'] = d /\ d # <<>> /\ rpos' <= Len(d) + 1
        /\ d[1].archid = rarchid' /\ d[1].num = rvol' /\ ~endofarchive' /\ rpc' = "loop"
    BY <1>w, <1>0, <1>1, <1>2, <1>6
  <2> QED BY <1>5, <1>6, <2>1 DEF ReaderInv
<1>10. ReadableInv'
  <2>1. ReadableInv BY DEF VolumesInv
  <2> QED BY <2>1, <1>0, <1>w DEF ReadableInv, FullVolume
<1>11. ItemsOfOneArchive'
  <2>1. ItemsOfOneArchive /\ rarchid' = rarchid BY <1>w DEF VolumesInv
  <2>2. ASSUME NEW i \in 1 .. Len(got) + 1
        PROVE  got'[i].archid = rarchid /\ got'[i].num = i
    <3>1. i \in 1 .. Len(got) \/ i = Len(got) + 1 BY <1>r
    <3>2. CASE i \in 1 .. Len(got)
      <4>1. i \in DOMAIN got BY <3>2, <1>r
      <4> QED BY <3>2, <4>1, <1>5, <2>1 DEF ItemsOfOneArchive
    <3>3. CASE i = Len(got) + 1 BY <3>3, <1>4, <1>5
    <3> QED BY <3>1, <3>2, <3>3
  <2>3. DOMAIN got' = 1 .. Len(got) + 1 BY <1>5
  <2> QED BY <2>1, <2>2, <2>3 DEF ItemsOfOneArchive
<1>12. EndMeansWhole' BY <1>w, <1>2 DEF EndMeansWhole
<1> QED BY <1>7, <1>8, <1>9, <1>10, <1>11, <1>12 DEF VolumesInv

\* The volume ends too early.
LEMMA TruncatedStep ==
    ASSUME VolumesInv, reader_truncated
    PROVE  VolumesInv'
<1>t. VolumesTypeOK BY DEF VolumesInv
<1>w. /\ rpc = "loop" /\ ~(CanRead(1) /\ CanRead(ItemSize)) /\ rpc' = "end"
      /\ UNCHANGED <<options, filevars, writervars>>
      /\ UNCHANGED <<rvol, rpath, rpos, rarchid, endofarchive, got, mistyped>>
  BY DEF reader_truncated
<1>1. PICK d : d = data[rpath] OBVIOUS
<1>2. /\ wpc \in Ended /\ d \in Seq(Entry) /\ Len(d) \in Nat /\ ~endofarchive
      /\ rpos <= Len(d) + 1
      /\ wpc = "done" /\ count > 0 /\ ~mistyped =>
           Len(d) > 2 /\ d[Len(d)] = VolFooter("new", rvol, rvol = curvol)
  BY <1>1, <1>w, OpenVolume
<1>r. rpos \in Nat /\ rpos \in Nat \ {0} /\ rvol \in Nat BY <1>t, ReaderTypesNow
<1>3. ~(wpc = "done" /\ count > 0 /\ ~mistyped)
  <2>1. SUFFICES ASSUME wpc = "done", count > 0, ~mistyped PROVE FALSE OBVIOUS
  <2>2. Len(d) > 2 /\ d[Len(d)].magic = "VOLF" BY <1>2, <2>1 DEF VolFooter
  <2>3. rpos # Len(d) + 1
    <3>1. SUFFICES ASSUME rpos = Len(d) + 1 PROVE FALSE OBVIOUS
    <3>2. rpos # 2 /\ rpos - 1 = Len(d) BY <3>1, <2>2, <1>2
    <3>3. EndOfItem(d[rpos - 1]) BY <1>1, <1>w, <3>2 DEF VolumesInv, ReaderInv
    <3> QED BY <2>2, <3>2, <3>3 DEF EndOfItem
  <2>4. rpos <= Len(d) BY <2>3, <1>2, <1>r
  <2>5. CanRead(1) BY <2>4, <1>1, <1>2, <1>r DEF CanRead
  <2>6. CanRead(2) \/ d[rpos].magic # "BLKH"
    <3>1. CASE rpos = Len(d) BY <3>1, <2>2
    <3>2. CASE rpos < Len(d)
      <4>1. rpos + 2 - 1 <= Len(d) BY <3>2, <1>2, <1>r
      <4> QED BY <4>1, <1>1 DEF CanRead
    <3> QED BY <2>4, <3>1, <3>2, <1>2, <1>r
  <2> QED BY <2>5, <2>6, <1>1, <1>w DEF ItemSize
<1> QED BY <1>w, <1>2, <1>3, <1>r, GiveUp

\* A footer: the end, or the next volume
LEMMA FooterStep ==
    ASSUME VolumesInv, reader_footer
    PROVE  VolumesInv'
<1>t. VolumesTypeOK BY DEF VolumesInv
<1>w. /\ rpc = "loop" /\ CanRead(1) /\ data[rpath][rpos].magic = "VOLF"
      /\ endofarchive' = data[rpath][rpos].lastvol
      /\ UNCHANGED <<options, filevars, writervars>>
      /\ UNCHANGED <<rpos, rarchid, got, mistyped>>
  BY DEF reader_footer
<1>v. IF endofarchive'
      THEN rpc' = "end" /\ rvol' = rvol /\ rpath' = rpath
      ELSE /\ rvol' = rvol + 1 /\ rpath' = get_path_to_volume(rvol')
           /\ rpc' = IF rpath' \in present THEN "open" ELSE "prompt"
  BY DEF reader_footer
<1>0. UNCHANGED <<options, present, data, cursize, wpc, curvol, vollist, wb, count, kept>>
  BY <1>w DEF filevars, writervars
<1>1. PICK d : d = data[rpath] OBVIOUS
<1>2. /\ wpc \in Ended /\ rpath \in present /\ d \in Seq(Entry)
      /\ Len(d) \in Nat /\ Len(d) > 0 /\ WellFormed(d)
      /\ d[1].archid = rarchid /\ d[1].num = rvol
      /\ wpc = "done" /\ count > 0 /\ ~mistyped =>
            /\ rvol <= curvol /\ rarchid = "new"
            /\ d[Len(d)] = VolFooter("new", rvol, rvol = curvol)
  BY <1>1, <1>w, OpenVolume
<1>r. /\ rpos \in Nat /\ rpos \in Nat \ {0} /\ rvol \in Nat /\ rpath \in Paths
      /\ got \in Seq(Entry) /\ rarchid \in {"none", "old", "new"}
      /\ curvol \in Nat
  BY <1>t, ReaderTypesNow
<1>3. rpos <= Len(d) BY <1>1, <1>2, <1>r, <1>w DEF CanRead
<1>4. /\ rpos \in 1 .. Len(d) /\ d[rpos] \in Entry /\ d[rpos].archid = rarchid
      /\ rpos > 2 /\ rpos = Len(d) /\ d[rpos - 1].num = Len(got) /\ d[rpos].magic = "VOLF"
  BY <1>1, <1>3, <1>w, NextEntry
<1>5. endofarchive' = d[rpos].lastvol /\ d[rpos].lastvol \in BOOLEAN
  BY <1>1, <1>4, <1>w, EntryFields
<1>6. got # <<>> BY <1>w DEF VolumesInv, ReaderInv
<1>7. CASE endofarchive'
  <2>1. rpc' = "end" /\ rvol' = rvol /\ rpath' = rpath BY <1>7, <1>v
  <2>2. VolumesTypeOK'
    <3>1. endofarchive' \in BOOLEAN /\ mistyped' \in BOOLEAN BY <1>5, <1>t, <1>w, ReaderTypesNow
    <3>2. rpc' \in {"idle", "open", "main", "loop", "prompt", "end"} BY <2>1
    <3>3. /\ rvol' \in Nat /\ rpath' \in Paths /\ rpos' \in Nat \ {0}
          /\ rarchid' \in {"none", "old", "new"} /\ got' \in Seq(Entry)
      BY <1>r, <1>w, <2>1
    <3> QED BY <1>t, <1>w, <3>1, <3>2, <3>3, ReaderTypes
  <2>3. FilesInv' /\ StageInv' /\ BufferInv' /\ CurrentInv' /\ LastInv' /\ RemoveInv' /\ DoneInv'
    BY <1>w, <1>2, <2>1, ReaderKeepsFiles
  <2>4. ReaderInv' BY <2>1 DEF ReaderInv
  <2>5. ReadableInv'
    <3>1. ASSUME wpc' = "done", count' > 0, ~mistyped' PROVE rarchid' = "new"
      BY <3>1, <1>0, <1>2, <1>w
    <3> QED BY <3>1, <1>7, <2>1 DEF ReadableInv
  <2>6. ItemsOfOneArchive' BY <1>w DEF VolumesInv, ItemsOfOneArchive
  <2>7. EndMeansWhole'
    <3>1. ASSUME rarchid = "new" PROVE Len(got) = count
      <4>1. d[rpos].magic = "VOLF" /\ d[rpos].lastvol /\ d[rpos].archid = "new"
        BY <3>1, <1>4, <1>5, <1>7
      <4>2. d[rpos - 1].num = count
        BY <4>1, <1>1, <1>2, <1>4 DEF VolumesInv, LastInv
      <4> QED BY <4>2, <1>4
    <3> QED BY <3>1, <1>0, <1>w DEF EndMeansWhole
  <2> QED BY <2>2, <2>3, <2>4, <2>5, <2>6, <2>7 DEF VolumesInv
<1>8. CASE ~endofarchive'
  <2>1. rvol' = rvol + 1 /\ rpath' = get_path_to_volume(rvol + 1) BY <1>8, <1>v
  <2>2. \/ rpc' = "open" /\ rpath' \in present
        \/ rpc' = "prompt" /\ rpath' \notin present
    BY <1>8, <1>v
  <2>3. rvol < MaxItems BY <1>2, <1>4, <1>5, <1>8 DEF WellFormed
  <2>4. rvol + 1 \in 0 .. MaxItems BY <2>3, <1>r, VolumesAssumption
  <2>5. VolumesTypeOK'
    <3>1. endofarchive' \in BOOLEAN /\ mistyped' \in BOOLEAN BY <1>5, <1>t, <1>w, ReaderTypesNow
    <3>2. rpc' \in {"idle", "open", "main", "loop", "prompt", "end"} BY <2>2
    <3>3. rpath' \in Paths BY <2>1, <2>4, PathsDiffer
    <3>4. /\ rvol' \in Nat /\ rpos' \in Nat \ {0}
          /\ rarchid' \in {"none", "old", "new"} /\ got' \in Seq(Entry)
      BY <1>r, <1>w, <2>1
    <3> QED BY <1>t, <1>w, <3>1, <3>2, <3>3, <3>4, ReaderTypes
  <2>6. FilesInv' /\ StageInv' /\ BufferInv' /\ CurrentInv' /\ LastInv' /\ RemoveInv' /\ DoneInv'
    <3>1. rpc' # "idle" BY <2>2
    <3> QED BY <1>w, <1>2, <3>1, ReaderKeepsFiles
  <2>7. ReaderInv'
    <3>1. rvol' > 0 /\ got' # <<>> /\ rvol' # 0 BY <1>r, <1>w, <1>6, <2>1
    <3>2. Closed(d) /\ d[Len(d) - 1].num = Len(got) BY <1>2, <1>4 DEF Closed
    <3>3. \E p \in present' :
             /\ Closed(data'[p]) /\ data'[p][Len(data'[p]) - 1].num = Len(got')
             /\ data'[p][1].archid = rarchid' /\ data'[p][1].num + 1 = rvol'
      BY <1>0, <1>1, <1>2, <1>w, <2>1, <3>2
    <3> QED BY <1>8, <2>2, <3>1, <3>3 DEF ReaderInv
  <2>8. ReadableInv'
    <3>1. ASSUME wpc = "done", count > 0, ~mistyped
          PROVE  /\ rvol + 1 <= curvol /\ rarchid = "new"
                 /\ rpath' \in present => FullVolume(rpath', rvol + 1, rvol + 1 = curvol)
      <4>1. rvol <= curvol /\ rarchid = "new" /\ d[rpos] = VolFooter("new", rvol, rvol = curvol)
        BY <3>1, <1>2, <1>4
      <4>2. rvol # curvol
        <5>1. SUFFICES ASSUME rvol = curvol PROVE FALSE OBVIOUS
        <5>2. (rvol = curvol) = TRUE BY <5>1
        <5>3. d[rpos] = VolFooter("new", rvol, TRUE) BY <4>1, <5>2
        <5>4. VolFooter("new", rvol, TRUE).lastvol BY DEF VolFooter
        <5> QED BY <5>3, <5>4, <1>5, <1>8
      <4>3. rvol + 1 <= curvol /\ rvol + 1 \in 0 .. curvol BY <4>1, <4>2, <1>r
      <4>4. rpath' \in present => FullVolume(get_path_to_volume(rvol + 1), rvol + 1, rvol + 1 = curvol)
        BY <3>1, <4>3, <2>1 DEF VolumesInv, DoneInv
      <4> QED BY <4>1, <4>3, <4>4, <2>1
    <3>2. ASSUME wpc' = "done", count' > 0, ~mistyped'
          PROVE  /\ rvol' <= curvol' /\ rarchid' = "new"
                 /\ rpc' = "open" => FullVolume(rpath, rvol, rvol = curvol)'
                 /\ rpc' = "prompt" => rpath' = get_path_to_volume(rvol') /\ rpath' \notin present'
      <4>1. /\ rvol' <= curvol' /\ rarchid' = "new"
            /\ rpath' \in present => FullVolume(rpath', rvol', rvol' = curvol')
        BY <3>1, <3>2, <1>0, <1>w, <2>1
      <4> QED BY <4>1, <1>0, <2>1, <2>2 DEF FullVolume
    <3> QED BY <2>2, <3>2 DEF ReadableInv
  <2>9. ItemsOfOneArchive' BY <1>w DEF VolumesInv, ItemsOfOneArchive
  <2>10. EndMeansWhole' BY <1>8 DEF EndMeansWhole
  <2> QED BY <2>5, <2>6, <2>7, <2>8, <2>9, <2>10 DEF VolumesInv
<1> QED BY <1>7, <1>8

\* The user types a path.
LEMMA PromptStep ==
    ASSUME VolumesInv, reader_prompt
    PROVE  VolumesInv'
<1>t. VolumesTypeOK BY DEF VolumesInv
<1>w. /\ rpc = "prompt" /\ rpc' = "open"
      /\ UNCHANGED <<options, filevars, writervars>>
      /\ UNCHANGED <<rvol, rpos, rarchid, endofarchive, got>>
  BY DEF reader_prompt
<1>0. UNCHANGED <<options, present, data, cursize, wpc, curvol, vollist, wb, count, kept>>
  BY <1>w DEF filevars, writervars
<1>1. PICK p \in present : rpath' = p /\ mistyped' = (mistyped \/ p # Elsewhere)
  BY DEF reader_prompt
<1>2. wpc \in Ended BY <1>w DEF VolumesInv, StageInv
<1>r. /\ rpos \in Nat \ {0} /\ rvol \in Nat /\ present \subseteq Paths
      /\ got \in Seq(Entry) /\ rarchid \in {"none", "old", "new"} /\ curvol \in Nat
  BY <1>t, ReaderTypesNow
<1>3. /\ rvol > 0 /\ got # <<>> /\ ~endofarchive
      /\ \E q \in present :
            /\ Closed(data[q]) /\ data[q][Len(data[q]) - 1].num = Len(got)
            /\ data[q][1].archid = rarchid /\ data[q][1].num + 1 = rvol
  BY <1>w DEF VolumesInv, ReaderInv
<1>4. VolumesTypeOK'
  <2>1. endofarchive' \in BOOLEAN BY <1>t, <1>w, ReaderTypesNow
  <2>2. mistyped' \in BOOLEAN BY <1>1
  <2>3. rpc' \in {"idle", "open", "main", "loop", "prompt", "end"} BY <1>w
  <2>4. /\ rvol' \in Nat /\ rpath' \in Paths /\ rpos' \in Nat \ {0}
        /\ rarchid' \in {"none", "old", "new"} /\ got' \in Seq(Entry)
    BY <1>1, <1>r, <1>w
  <2> QED BY <1>t, <1>w, <2>1, <2>2, <2>3, <2>4, ReaderTypes
<1>5. FilesInv' /\ StageInv' /\ BufferInv' /\ CurrentInv' /\ LastInv' /\ RemoveInv' /\ DoneInv'
  <2>1. rpc' # "idle" BY <1>w
  <2> QED BY <1>w, <1>2, <2>1, ReaderKeepsFiles
<1>6. ReaderInv'
  <2>1. rvol' # 0 /\ rvol' > 0 BY <1>r, <1>w, <1>3
  <2> QED BY <1>0, <1>w, <1>3, <2>1 DEF ReaderInv
<1>7. ReadableInv'
  <2>1. ASSUME wpc = "done", count > 0, ~mistyped'
        PROVE  rvol <= curvol /\ FullVolume(p, rvol, rvol = curvol) /\ rarchid = "new"
    <3>1. ~mistyped /\ p = Elsewhere BY <1>1, <2>1
    <3>2. rvol <= curvol /\ get_path_to_volume(rvol) \notin present /\ rarchid = "new"
      BY <1>w, <1>3, <2>1, <3>1 DEF VolumesInv, ReadableInv
    <3>3. rvol \in 0 .. curvol BY <3>2, <1>r
    <3>4. \/ FullVolume(get_path_to_volume(rvol), rvol, rvol = curvol)
          \/ FullVolume(Elsewhere, rvol, rvol = curvol)
      BY <2>1, <3>3 DEF VolumesInv, DoneInv
    <3>5. ~FullVolume(get_path_to_volume(rvol), rvol, rvol = curvol) BY <3>2 DEF FullVolume
    <3> QED BY <3>1, <3>2, <3>4, <3>5
  <2>2. ASSUME wpc' = "done", count' > 0, ~mistyped'
        PROVE  rvol' <= curvol' /\ FullVolume(rpath, rvol, rvol = curvol)' /\ rarchid' = "new"
    BY <2>1, <2>2, <1>0, <1>1, <1>w DEF FullVolume
  <2> QED BY <2>2, <1>w DEF ReadableInv
<1>8. ItemsOfOneArchive' BY <1>w DEF VolumesInv, ItemsOfOneArchive
<1>9. EndMeansWhole' BY <1>w, <1>3 DEF EndMeansWhole
<1> QED BY <1>4, <1>5, <1>6, <1>7, <1>8, <1>9 DEF VolumesInv

-----------------------------------------------------------------------------
(* The theorems *)

LEMMA NextInv == VolumesInv /\ [Next]_vars => VolumesInv'
<1> SUFFICES ASSUME VolumesInv, [Next]_vars PROVE VolumesInv' OBVIOUS
<1>1. CASE Writer
  BY <1>1, CreateStep, VolHeaderStep, DoWriteStep, SplitStep, WriteStep, VolFooterStep, RemoveStep
     DEF Writer
<1>2. CASE Crash BY <1>2, CrashStep
<1>3. CASE Move BY <1>3, MoveStep
<1>4. CASE Reader
  BY <1>4, StartStep, OpenStep, MainStep, ReadStep, TruncatedStep, FooterStep, PromptStep
     DEF Reader
<1>5. CASE UNCHANGED vars
  <2>1. UNCHANGED <<options, present, data, cursize, wpc, curvol, vollist, wb, count, kept,
                    rpc, rvol, rpath, rpos, rarchid, endofarchive, got, mistyped>>
    BY <1>5 DEF vars, filevars, writervars, readervars
  <2>2. VolumesTypeOK' BY <2>1 DEF VolumesInv, VolumesTypeOK
  <2>3. FilesInv' BY <2>1 DEF VolumesInv, FilesInv
  <2>4. StageInv' BY <2>1 DEF VolumesInv, StageInv, New
  <2>5. BufferInv' BY <2>1 DEF VolumesInv, BufferInv, WaitingItem, ClosedBefore, New
  <2>6. CurrentInv' BY <2>1 DEF VolumesInv, CurrentInv, ClosedBefore, New, volpath
  <2>7. LastInv' BY <2>1 DEF VolumesInv, LastInv
  <2>8. RemoveInv' BY <2>1 DEF VolumesInv, RemoveInv, New
  <2>9. DoneInv' BY <2>1 DEF VolumesInv, DoneInv, FullVolume
  <2>10. ReaderInv' BY <2>1 DEF VolumesInv, ReaderInv
  <2>11. ReadableInv' BY <2>1 DEF VolumesInv, ReadableInv, FullVolume
  <2>12. ItemsOfOneArchive' /\ EndMeansWhole'
    BY <2>1 DEF VolumesInv, ItemsOfOneArchive, EndMeansWhole
  <2> QED
    BY <2>2, <2>3, <2>4, <2>5, <2>6, <2>7, <2>8, <2>9, <2>10, <2>11, <2>12 DEF VolumesInv
<1> QED BY <1>1, <1>2, <1>3, <1>4, <1>5 DEF Next, Terminated

\* Every reachable state of archwriter.c, archreader.c and the files they use
\* satisfies the inductive invariant, the type invariant with it.
THEOREM VolumesCorrect == Spec => []VolumesInv
<1>1. Init => VolumesInv BY InitInv
<1>2. VolumesInv /\ [Next]_vars => VolumesInv' BY NextInv
<1> HIDE DEF Init, VolumesInv
<1> QED BY <1>1, <1>2, PTL DEF Spec

\* Whatever crash, older volumes or typed paths: the reader gets the items of
\* one archive, in order and without gap.
THEOREM ReadsOneArchive == Spec => []ItemsOfOneArchive
<1>1. VolumesInv => ItemsOfOneArchive BY DEF VolumesInv
<1> QED BY <1>1, VolumesCorrect, PTL

\* The flag of the last volume is only seen after the last item.
THEOREM EndIsTrue == Spec => []EndMeansWhole
<1>1. VolumesInv => EndMeansWhole BY DEF VolumesInv
<1> QED BY <1>1, VolumesCorrect, PTL

\* A complete archive is read to its end, even if one volume was moved.
THEOREM CompleteIsReadable == Spec => []SavedIsReadable
<1>1. VolumesInv => SavedIsReadable BY DEF VolumesInv, ReadableInv, SavedIsReadable
<1> QED BY <1>1, VolumesCorrect, PTL

\* archwriter_remove() leaves nothing of the new archive but what unlink()
\* refused to remove.
THEOREM FailureIsClean == Spec => []FailureRemovesAll
<1>1. VolumesInv => FailureRemovesAll
  <2>1. ASSUME VolumesInv, wpc = "removed", NEW p \in present \ kept, NEW i \in DOMAIN data[p]
        PROVE  data[p][i].archid = "old"
    <3>1. PICK d : d = data[p] OBVIOUS
    <3>2. present \subseteq Paths /\ data \in [Paths -> Seq(Entry)] BY <2>1 DEF VolumesInv, VolumesTypeOK
    <3>3. d \in Seq(Entry) /\ i \in DOMAIN d BY <3>1, <3>2
    <3>4. i \in 1 .. Len(d) /\ d # <<>> BY <3>3
    <3>5. d[1] \in Entry BY <3>3, <3>4
    <3>6. d[i].archid = d[1].archid BY <2>1, <3>1, <3>4 DEF VolumesInv, FilesInv, WellFormed
    <3>7. ~New(p) BY <2>1 DEF VolumesInv, RemoveInv
    <3> QED BY <3>1, <3>4, <3>5, <3>6, <3>7, EntryFields DEF New
  <2> QED BY <2>1 DEF FailureRemovesAll
<1> QED BY <1>1, VolumesCorrect, PTL

\* A step to "next" other than the write of an item writes only the header.
LEMMA FitsInit == Init => VolumeFits
  BY DEF Init, VolumeFits

LEMMA FitsNext == VolumesInv /\ VolumeFits /\ [Next]_vars => VolumeFits'
<1> SUFFICES ASSUME VolumesInv, VolumeFits, [Next]_vars PROVE VolumeFits' OBVIOUS
<1>1. ASSUME wpc' # "next" PROVE VolumeFits' BY <1>1 DEF VolumeFits
<1>2. ASSUME UNCHANGED <<options, data, cursize, wpc, curvol, count>> PROVE VolumeFits'
  BY <1>2 DEF VolumeFits, volpath
<1>3. CASE archwriter_create BY <1>1, <1>3 DEF archwriter_create
<1>4. CASE archwriter_write_volheader
  <2>1. VolumesTypeOK BY DEF VolumesInv
  <2> DEFINE e == VolHeader("new", curvol)
  <2>2. data[volpath] = <<>> /\ wpc = "volheader"
    BY <1>4 DEF VolumesInv, CurrentInv, archwriter_write_volheader
  <2>3. e \in Entry BY <2>1, EntryTypes DEF VolumesTypeOK
  <2>4. \/ data' = [data EXCEPT ![volpath] = Append(data[volpath], e)]
        \/ wpc' = "failed"
    BY <1>4, <2>1, <2>3, WriteOne DEF archwriter_write_volheader
  <2>5. CASE wpc' = "failed" BY <2>5, <1>1
  <2>6. CASE data' = [data EXCEPT ![volpath] = Append(data[volpath], e)]
    <3>1. Append(data[volpath], e) \in Seq(Entry) /\ Len(Append(data[volpath], e)) = 1
      BY <2>2, <2>3
    <3>2. data'[volpath] = Append(data[volpath], e) BY <2>1, <2>6, <3>1, OneFile
    <3>3. volpath' = volpath BY <1>4 DEF archwriter_write_volheader, volpath
    <3>4. \A i \in DOMAIN data'[volpath'] : ~(i > 1) BY <3>1, <3>2, <3>3
    <3> QED BY <3>4 DEF VolumeFits
  <2> QED BY <2>4, <2>5, <2>6
<1>5. CASE archwriter_dowrite BY <1>1, <1>5 DEF archwriter_dowrite
<1>6. CASE archwriter_split BY <1>1, <1>6 DEF archwriter_split, archwriter_write_buffer
<1>7. CASE archwriter_write BY <1>7, WriteStep
<1>8. CASE archwriter_write_volfooter
  BY <1>1, <1>8 DEF archwriter_write_volfooter, archwriter_write_buffer
<1>9. CASE archwriter_remove BY <1>1, <1>9 DEF archwriter_remove
<1>10. CASE Crash BY <1>1, <1>10 DEF Crash
<1>11. CASE Move
  <2>1. rpc # "idle" /\ UNCHANGED writervars BY <1>11 DEF Move
  <2>2. wpc' # "next" BY <2>1 DEF VolumesInv, StageInv, Ended, writervars
  <2> QED BY <2>2, <1>1
<1>12. CASE Reader
  <2>1. UNCHANGED <<options, filevars, writervars>>
    BY <1>12 DEF Reader, reader_start, reader_open, reader_main, reader_read, reader_truncated,
                 reader_footer, reader_prompt
  <2> QED BY <2>1, <1>2 DEF filevars, writervars
<1>13. CASE UNCHANGED vars BY <1>13, <1>2 DEF vars, filevars, writervars
<1> QED
  BY <1>3, <1>4, <1>5, <1>6, <1>7, <1>8, <1>9, <1>10, <1>11, <1>12, <1>13
     DEF Next, Writer, Terminated

\* archwriter_split_check() keeps a volume within the size asked for, but for a
\* single item that is larger than a volume.
THEOREM SplitIsRight == Spec => []VolumeFits
<1>1. Init => VolumeFits BY FitsInit
<1>2. VolumesInv /\ VolumeFits /\ [Next]_vars => VolumeFits' BY FitsNext
<1>3. Spec => []VolumesInv BY VolumesCorrect
<1> HIDE DEF Init, VolumesInv, VolumeFits
<1> QED BY <1>1, <1>2, <1>3, PTL DEF Spec

\* What one step does to a volume of the older archive
OldIsKept ==
    ~options.overwrite =>
        \A p \in present : data[p] # <<>> /\ data[p][1].archid = "old" =>
            p \in present' /\ data'[p] = data[p]

LEMMA OldIsKeptByStep == VolumesInv /\ [Next]_vars => OldIsKept
<1> SUFFICES ASSUME VolumesInv, [Next]_vars, ~options.overwrite, NEW p \in present,
                    data[p] # <<>>, data[p][1].archid = "old"
             PROVE  p \in present' /\ data'[p] = data[p]
  BY DEF OldIsKept
<1>t. VolumesTypeOK BY DEF VolumesInv
<1>p. p \in Paths /\ data \in [Paths -> Seq(Entry)] BY <1>t DEF VolumesTypeOK
<1>1. ASSUME wpc \in {"volheader", "next", "split", "write"} PROVE p # volpath
  <2>1. SUFFICES ASSUME p = volpath PROVE FALSE OBVIOUS
  <2>2. data[volpath][1] = VolHeader("new", curvol) BY <1>1, <2>1 DEF VolumesInv, CurrentInv
  <2>3. VolHeader("new", curvol).archid = "new" BY DEF VolHeader
  <2> QED BY <2>1, <2>2, <2>3
<1>2. ASSUME NEW x, x # p, NEW v, data' = [data EXCEPT ![x] = v] PROVE data'[p] = data[p]
  BY <1>2, <1>p
<1>3. ASSUME NEW buf, NEW nx, archwriter_write_buffer(buf, nx), p # volpath
      PROVE  data'[p] = data[p]
  BY <1>3, <1>2 DEF archwriter_write_buffer
<1>4. CASE archwriter_create
  <2>1. CASE /\ volpath \notin present \/ options.overwrite
             /\ present' = present \cup {volpath}
             /\ data' = [data EXCEPT ![volpath] = <<>>]
    <3>1. p # volpath BY <2>1
    <3> QED BY <2>1, <3>1, <1>2
  <2>2. CASE UNCHANGED filevars BY <2>2 DEF filevars
  <2> QED BY <1>4, <2>1, <2>2 DEF archwriter_create
<1>5. CASE archwriter_write_volheader
  BY <1>5, <1>1, <1>3 DEF archwriter_write_volheader
<1>6. CASE archwriter_dowrite BY <1>6 DEF archwriter_dowrite, filevars
<1>7. CASE archwriter_split BY <1>7, <1>1, <1>3 DEF archwriter_split
<1>8. CASE archwriter_write BY <1>8, <1>1, <1>3 DEF archwriter_write
<1>9. CASE archwriter_write_volfooter
  BY <1>9, <1>1, <1>3 DEF archwriter_write_volfooter
<1>10. CASE archwriter_remove
  <2>1. data' = data BY <1>10 DEF archwriter_remove, filevars
  <2>2. CASE vollist = <<>> BY <1>10, <2>1, <2>2 DEF archwriter_remove, filevars
  <2>3. CASE vollist # <<>>
    <3>1. vollist \in Seq(Paths) BY <1>t DEF VolumesTypeOK
    <3>2. Head(vollist) = vollist[1] /\ 1 \in 1 .. Len(vollist) BY <2>3, <3>1
    <3>3. p # Head(vollist) BY <3>2 DEF VolumesInv, RemoveInv, New
    <3>4. present' = present \ {Head(vollist)} \/ present' = present
      BY <1>10, <2>3 DEF archwriter_remove
    <3> QED BY <2>1, <3>3, <3>4
  <2> QED BY <2>2, <2>3
<1>11. CASE Crash
  <2>1. present' = present BY <1>11 DEF Crash
  <2>2. CASE data' = data BY <2>1, <2>2
  <2>3. CASE /\ wpc \in {"volheader", "next", "split", "write"}
             /\ \E k \in 0 .. Len(data[volpath]) :
                   data' = [data EXCEPT ![volpath] = SubSeq(data[volpath], 1, k)]
    BY <2>1, <2>3, <1>1, <1>2
  <2> QED BY <1>11, <2>2, <2>3 DEF Crash
<1>12. CASE Move
  <2>1. PICK n \in 1 .. curvol :
          /\ \E i \in DOMAIN vollist : vollist[i] = get_path_to_volume(n)
          /\ present' = (present \ {get_path_to_volume(n)}) \cup {Elsewhere}
          /\ data' = [data EXCEPT ![Elsewhere] = data[get_path_to_volume(n)]]
    BY <1>12 DEF Move
  <2>2. PICK i \in DOMAIN vollist : vollist[i] = get_path_to_volume(n) BY <2>1
  <2>3. vollist \in Seq(Paths) BY <1>t DEF VolumesTypeOK
  <2>4. i \in 1 .. Len(vollist) BY <2>2, <2>3
  <2>5. p # get_path_to_volume(n) BY <2>2, <2>4 DEF VolumesInv, RemoveInv, New
  <2>6. Elsewhere # p BY <1>12 DEF Move
  <2>7. data'[p] = data[p] BY <2>1, <2>6, <1>2
  <2> QED BY <2>1, <2>5, <2>7
<1>13. CASE Reader
  <2>1. UNCHANGED filevars
    BY <1>13 DEF Reader, reader_start, reader_open, reader_main, reader_read, reader_truncated,
                 reader_footer, reader_prompt
  <2> QED BY <2>1 DEF filevars
<1>14. CASE UNCHANGED vars BY <1>14 DEF vars, filevars
<1> QED
  BY <1>4, <1>5, <1>6, <1>7, <1>8, <1>9, <1>10, <1>11, <1>12, <1>13, <1>14
     DEF Next, Writer, Terminated

\* Without option -o no step changes or removes a volume of an older archive.
THEOREM OldArchiveIsSafe == Spec => OldVolumesAreKept
<1>1. VolumesInv /\ [Next]_vars => [OldIsKept]_vars BY OldIsKeptByStep
<1>2. Spec => []VolumesInv BY VolumesCorrect
<1> HIDE DEF VolumesInv, Next
<1>3. Spec => [][OldIsKept]_vars BY <1>1, <1>2, PTL DEF Spec
<1> QED BY <1>3 DEF OldVolumesAreKept, OldIsKept

=============================================================================
