------------------------- MODULE RestoreWholeProofs -------------------------
(***************************************************************************)
(* restfs and restdir of the archive of a save that read every file to its *)
(* end: nothing that was asked for is missing after a restoration that     *)
(* reports success, what is excluded is not touched, and damage to the     *)
(* data costs no other file than those whose blocks it hits, for every     *)
(* number of threads, every interleaving and every fault the properties    *)
(* allow.                                                                  *)
(* The argument follows the items: what comes next in the queue is what    *)
(* comes next in the archive, so each file gets its own blocks and footer, *)
(* and each file system ends at its own DATF.                              *)
(***************************************************************************)
EXTENDS RestoreProofs

Sound == QueueInv /\ RestoreInv

\* What Sound says, for the lemmas of RestoreProofs
LEMMA SoundFacts ==
    ASSUME Sound
    PROVE  /\ QueueInv /\ RestoreTypeOK /\ EndsInv /\ QueueHoldsSent /\ GotIsSent /\ ObjectsComeOnce
           /\ OriginInv /\ WorkInv /\ FileInv /\ ItemsOK /\ WorkOK
BY DEF Sound, RestoreInv, ItemsOK, RestoreTypeOK, WorkOK, WorkTypeOK, CountedGood, NoSilentCorruption

-----------------------------------------------------------------------------
(* What comes next *)

\* The lengths of the histories
LEMMA Lengths ==
    ASSUME Sound
    PROVE  /\ Len(got) \in Nat /\ Len(sent) \in Nat /\ Len(queue) \in Nat /\ Len(got) <= Len(sent)
           /\ Len(origin) = Len(sent)
           /\ DOMAIN got = 1 .. Len(got) /\ DOMAIN sent = 1 .. Len(sent)
           /\ DOMAIN origin = 1 .. Len(sent)
           /\ \A n \in DOMAIN got : n \in DOMAIN sent
           /\ \A n \in 1 .. Len(sent) : origin[n] \in DOMAIN Archive /\ origin[n] \in Nat
           /\ \A m, n \in 1 .. Len(sent) : m < n => origin[m] < origin[n]
<1>1. QueueInv /\ RestoreTypeOK /\ QueueHoldsSent /\ GotIsSent /\ OriginInv BY SoundFacts
<1>2. got \in Seq(Info) /\ sent \in Seq(Info) /\ origin \in Seq(DOMAIN Archive) BY <1>1 DEF RestoreTypeOK
<1>3. Len(queue) \in Nat BY <1>1, ItemNumbers
<1>4. Len(origin) = Len(sent) /\ Len(got) <= Len(sent) BY <1>1 DEF OriginInv, GotIsSent
<1>5. \A p \in DOMAIN Archive : p \in Nat BY ArchiveItems
<1>6. \A n \in 1 .. Len(got) : n \in 1 .. Len(sent) BY <1>2, <1>4
<1>7. \A m, n \in DOMAIN origin : m < n => origin[m] < origin[n] BY <1>1 DEF OriginInv
<1>8. DOMAIN origin = 1 .. Len(sent) BY <1>2, <1>4
<1>9. /\ Len(got) \in Nat /\ Len(sent) \in Nat
      /\ DOMAIN got = 1 .. Len(got) /\ DOMAIN sent = 1 .. Len(sent)
  BY <1>2
<1>10. \A n \in DOMAIN origin : origin[n] \in DOMAIN Archive BY <1>2
<1> HIDE DEF Sound
<1> QED BY ONLY <1>3, <1>4, <1>5, <1>6, <1>7, <1>8, <1>9, <1>10

\* The first item of the queue is the next one of the history.
LEMMA HeadIsNext ==
    ASSUME Sound, ~Stopped, queue # <<>>
    PROVE  /\ Len(got) + 1 \in DOMAIN sent
           /\ queue[1].type = "BLOCK" <=> sent[Len(got) + 1].magic = "BLKH"
           /\ queue[1].status = "DONE" => queue[1].info \in Unpacked(sent[Len(got) + 1])
<1>1. QueueInv /\ RestoreTypeOK /\ QueueHoldsSent /\ GotIsSent BY SoundFacts
<1>2. /\ queue \in Seq(Item) /\ Len(queue) \in Nat /\ DOMAIN queue = 1 .. Len(queue)
      /\ \A i \in DOMAIN queue : /\ queue[i].itemnum = Len(sent) - Len(queue) + i
                                 /\ queue[i].itemnum \in DOMAIN sent
  BY <1>1, ItemNumbers
<1>3. 1 \in DOMAIN queue BY <1>2
<1>4. Len(got) + Len(queue) = Len(sent) BY <1>1 DEF GotIsSent
<1>5. queue[1].itemnum = Len(got) + 1
  <2>1. queue[1].itemnum = Len(sent) - Len(queue) + 1 BY <1>2, <1>3
  <2>2. Len(got) \in Nat /\ Len(sent) \in Nat /\ Len(queue) \in Nat BY Lengths
  <2> QED BY ONLY <1>4, <2>1, <2>2
<1>6. Len(got) + 1 \in DOMAIN sent BY <1>2, <1>3, <1>5
<1> QED BY <1>1, <1>3, <1>5, <1>6 DEF QueueHoldsSent

\* The end of the queue is seen when everything has been taken.
LEMMA NothingLeft ==
    ASSUME Sound, ~Stopped, queue_get_end_of_queue
    PROVE  queue = <<>> /\ endofqueue /\ Len(got) = Len(sent)
<1>1. QueueInv /\ GotIsSent BY SoundFacts
<1>2. itemcount = Len(queue) /\ queue \in Seq(Item) BY <1>1 DEF QueueInv, CountersMatch, QueueTypeOK
<1>3. Len(queue) = 0 /\ endofqueue
  <2>1. itemcount < 1 /\ endofqueue BY DEF queue_get_end_of_queue
  <2> QED BY <1>2, <2>1, Lengths
<1>4. queue = <<>> BY <1>2, <1>3
<1>5. Len(got) + Len(queue) = Len(sent) BY <1>1 DEF GotIsSent
<1> QED BY <1>3, <1>4, <1>5, Lengths

\* Items of the archive that have the same kind, object and place
Alike(x, y) == x.magic = y.magic /\ x.obj = y.obj /\ x.off = y.off /\ x.fsid = y.fsid

\* What is taken is what is in the archive, its contents aside.
LEMMA TakenIsAlike ==
    ASSUME Sound, NEW n \in DOMAIN sent, NEW x \in Unpacked(sent[n])
    PROVE  /\ Alike(x, Archive[origin[n]]) /\ Alike(sent[n], Archive[origin[n]])
           /\ x.magic # "BLKH" => x = Archive[origin[n]]
           /\ Archive[origin[n]] \in Info
<1>1. RestoreTypeOK /\ OriginInv BY SoundFacts
<1>2. /\ n \in DOMAIN origin /\ origin[n] \in DOMAIN Archive /\ sent[n] \in Info
      /\ sent[n].magic # "BLKH" => Archive[origin[n]] = sent[n]
  BY <1>1, ItemOrigin
<1>3. ComesFrom(sent[n], origin[n]) BY <1>1, <1>2 DEF OriginInv
<1>4. Archive[origin[n]] \in Info BY <1>2, ArchiveItems
<1>5. \A y \in Info : y \in [magic: STRING, fsid: Nat, obj: Nat, off: Nat, cnt: Nat, form: STRING]
  BY ArchiveAssumption
<1>6. Alike(sent[n], Archive[origin[n]]) BY <1>2, <1>3, <1>4, <1>5 DEF ComesFrom, Alike
<1>7. Alike(x, sent[n]) BY <1>2, <1>5 DEF Unpacked, decompress_block_generic, Alike
<1>8. ASSUME x.magic # "BLKH" PROVE x = Archive[origin[n]]
  <2>1. sent[n].magic # "BLKH" BY <1>7, <1>8 DEF Alike
  <2> QED BY <1>2, <2>1, HeaderKept
<1> QED BY <1>4, <1>6, <1>7, <1>8 DEF Alike

\* If nothing is lost, the item that follows in the archive comes next: what is
\* between them are footers of volumes.
LEMMA NextItem ==
    ASSUME Sound, NoneLost, NEW n \in DOMAIN sent, n + 1 \in DOMAIN sent,
           NEW r \in DOMAIN Archive, Follows(origin[n], r), queued(Archive[r])
    PROVE  origin[n + 1] = r
<1>1. RestoreTypeOK /\ OriginInv BY SoundFacts
<1>2. PICK m : m = n + 1 OBVIOUS
<1>3. /\ n \in 1 .. Len(sent) /\ m \in 1 .. Len(sent) /\ Len(sent) \in Nat
      /\ n \in DOMAIN origin /\ m \in DOMAIN origin
  BY <1>2, Lengths
<1>4. /\ origin[n] \in Nat /\ origin[m] \in Nat /\ origin[m] \in DOMAIN Archive
      /\ origin[n] \in DOMAIN Archive /\ r \in Nat /\ origin[n] < origin[m]
  <2>1. n < m BY <1>2, <1>3
  <2> QED BY <1>3, <2>1, Lengths, ArchiveItems
<1>5. /\ origin[n] < r
      /\ \A x \in origin[n] + 1 .. r - 1 : Archive[x].magic = "VOLF"
  BY DEF Follows
<1>6. ~(origin[m] < r)
  <2>1. SUFFICES ASSUME origin[m] < r PROVE FALSE OBVIOUS
  <2>2. origin[m] \in origin[n] + 1 .. r - 1 BY <1>4, <2>1
  <2>3. origin[m] = 1 \/ queued(Archive[origin[m]]) BY <1>1, <1>3, ItemOrigin, Lengths
  <2>4. origin[m] # 1
    <3>1. origin[n] >= 1 BY <1>4, ArchiveItems
    <3> QED BY <1>4, <3>1
  <2> QED BY <1>5, <2>2, <2>3, <2>4 DEF queued
<1>7. ~(r < origin[m])
  <2>1. SUFFICES ASSUME r < origin[m] PROVE FALSE OBVIOUS
  <2>2. (r \in damaged /\ Fault("header")) \/ ~queued(Archive[r])
    BY <1>1, <1>2, <1>3, <1>5, <2>1, LostBetween
  <2> QED BY <2>2 DEF NoneLost
<1> QED BY <1>2, <1>4, <1>6, <1>7

-----------------------------------------------------------------------------
(* The blocks of a file *)

\* The first conjunct of FlowInv
KnownHead ==
    /\ file.head.form = "unique"
    /\ \E q \in DOMAIN Archive : Archive[q] = file.head /\ wanted(file.head)

\* What the archive of a whole save has after the last item taken for a file.
LEMMA FollowerOfFile ==
    ASSUME WholeArchive, Sound, InFile, KnownHead, OnTrack, Len(got) > 0, file.head.cnt # 0
    PROVE  \E r \in DOMAIN Archive :
              /\ Follows(origin[Len(got)], r) /\ queued(Archive[r])
              /\ Archive[r].obj = file.head.obj /\ Archive[r].fsid = file.head.fsid
              /\ IF filepos < file.head.cnt THEN Archive[r].magic = "BLKH" /\ Archive[r].off = filepos
                 ELSE Archive[r].magic = "FILF"
<1>1. WorkOK /\ Pending(file.head) /\ file.head.cnt \in Nat /\ filepos \in Nat
  BY SoundFacts, HeadFacts, FileFacts
<1>2. file.head.magic = "OBJT" /\ file.head.cnt > 0 BY <1>1 DEF Pending
<1>3. PICK q \in DOMAIN Archive : Archive[q] = file.head /\ wanted(file.head) BY DEF KnownHead
<1>4. PICK p \in DOMAIN Archive : p = origin[Len(got)]
  <2>1. Len(got) \in 1 .. Len(sent) BY Lengths
  <2> QED BY <2>1, Lengths
<1>5. /\ p = q \/ (Archive[p].magic = "BLKH" /\ Archive[p].obj = file.head.obj)
      /\ filepos = IF p = q THEN 0 ELSE Archive[p].off + 1
  <2>1. CASE filepos = 0
    <3>1. Archive[p] = file.head BY <1>4, <2>1 DEF OnTrack
    <3>2. p = q BY <1>2, <1>3, <3>1, ArchiveAssumption
    <3> QED BY <2>1, <3>2
  <2>2. CASE filepos # 0
    <3>1. /\ Archive[p].magic = "BLKH" /\ Archive[p].obj = file.head.obj
          /\ Archive[p].off = filepos - 1
      BY <1>4, <2>2 DEF OnTrack
    <3>2. p # q BY <1>2, <1>3, <3>1
    <3>3. Archive[p].off + 1 = filepos BY <1>1, <3>1
    <3> QED BY <3>1, <3>2, <3>3
  <2> QED BY <2>1, <2>2
<1>6. file.head.form = "unique" BY DEF KnownHead
<1>7. PICK k : k = IF p = q THEN 0 ELSE Archive[p].off + 1 OBVIOUS
<1>8. \E r \in DOMAIN Archive :
         /\ Follows(p, r)
         /\ Archive[r].fsid = Archive[q].fsid /\ Archive[r].obj = Archive[q].obj
         /\ IF k < Archive[q].cnt
            THEN Archive[r].magic = "BLKH" /\ Archive[r].off = k
            ELSE Archive[r].magic = "FILF"
  <2>1. /\ Archive[q].magic = "OBJT" /\ Archive[q].form = "unique" /\ Archive[q].cnt > 0
        /\ p = q \/ (Archive[p].magic = "BLKH" /\ Archive[p].obj = Archive[q].obj)
    BY <1>2, <1>3, <1>5, <1>6
  <2> QED BY <1>7, <2>1 DEF WholeArchive
<1>9. PICK r \in DOMAIN Archive :
         /\ Follows(p, r)
         /\ Archive[r].fsid = Archive[q].fsid /\ Archive[r].obj = Archive[q].obj
         /\ IF k < Archive[q].cnt
            THEN Archive[r].magic = "BLKH" /\ Archive[r].off = k
            ELSE Archive[r].magic = "FILF"
  BY <1>8
<1>10. k = filepos BY <1>5, <1>7
<1>11. queued(Archive[r]) BY <1>3, <1>9 DEF queued, wanted, Follows
<1> QED BY <1>3, <1>4, <1>9, <1>10, <1>11

\* It comes next,
LEMMA NextOfFile ==
    ASSUME WholeArchive, Sound, InFile, KnownHead, OnTrack, Len(got) > 0, file.head.cnt # 0,
           NoneLost, Len(got) + 1 \in DOMAIN sent, NEW x \in Unpacked(sent[Len(got) + 1])
    PROVE  /\ x.obj = file.head.obj /\ Alike(x, Archive[origin[Len(got) + 1]])
           /\ x.magic = sent[Len(got) + 1].magic
           /\ IF filepos < file.head.cnt THEN x.magic = "BLKH" /\ x.off = filepos
              ELSE x.magic = "FILF"
<1>1. PICK r \in DOMAIN Archive :
         /\ Follows(origin[Len(got)], r) /\ queued(Archive[r])
         /\ Archive[r].obj = file.head.obj
         /\ IF filepos < file.head.cnt THEN Archive[r].magic = "BLKH" /\ Archive[r].off = filepos
            ELSE Archive[r].magic = "FILF"
  BY FollowerOfFile
<1>2. PICK n \in DOMAIN sent : n = Len(got)
  <2>1. Len(got) \in 1 .. Len(sent) BY Lengths
  <2> QED BY <2>1, Lengths
<1>3. n + 1 \in DOMAIN sent /\ Follows(origin[n], r) BY <1>1, <1>2
<1>4. origin[n + 1] = r BY <1>1, <1>3, NextItem
<1>5. PICK m \in DOMAIN sent : m = Len(got) + 1 OBVIOUS
<1>6. Alike(x, Archive[origin[m]]) /\ Alike(sent[m], Archive[origin[m]]) BY <1>5, TakenIsAlike
<1> QED BY <1>1, <1>2, <1>4, <1>5, <1>6 DEF Alike

\* and it comes if the reader has read the whole archive.
LEMMA FileGoesOn ==
    ASSUME WholeArchive, Sound, InFile, KnownHead, OnTrack, Len(got) > 0, file.head.cnt # 0,
           NoneLost, Ended, pos > Len(Archive)
    PROVE  Len(got) < Len(sent)
<1>1. PICK r \in DOMAIN Archive : Follows(origin[Len(got)], r) /\ queued(Archive[r])
  BY FollowerOfFile
<1>2. RestoreTypeOK /\ OriginInv BY SoundFacts
<1>3. r \in 1 .. pos - 1
  <2>1. Len(Archive) \in Nat /\ r \in 1 .. Len(Archive) /\ pos \in Int
    BY <1>2, ArchiveItems DEF RestoreTypeOK
  <2> QED BY ONLY <2>1, pos > Len(Archive)
<1>4. readerpc # "add" BY DEF Ended
<1>5. ~(r \in damaged /\ Fault("header")) BY DEF NoneLost
<1>6. PICK n \in DOMAIN origin : origin[n] = r BY <1>1, <1>2, <1>3, <1>4, <1>5 DEF OriginInv
<1>7. PICK g \in 1 .. Len(sent) : g = Len(got)
  <2>1. Len(got) \in 1 .. Len(sent) BY Lengths
  <2> QED BY <2>1
<1>8. n \in 1 .. Len(sent) /\ origin[g] < origin[n] /\ origin[g] \in Nat /\ origin[n] \in Nat
  <2>1. origin[g] < r BY <1>1, <1>7 DEF Follows
  <2> QED BY <1>6, <1>7, <2>1, Lengths
<1>9. ~(n < g) /\ n # g
  <2>1. n < g => origin[n] < origin[g] BY <1>7, <1>8, Lengths
  <2> QED BY <1>8, <2>1
<1> QED BY <1>7, <1>8, <1>9, Lengths

\* The header that has just been taken is on the track.
LEMMA StartOfFile ==
    WholeArchive /\ Sound /\ mainpc = "unique" =>
        /\ OnTrack
        /\ \E q \in DOMAIN Archive : Archive[q] = file.head /\ wanted(file.head)
<1> SUFFICES ASSUME WholeArchive, Sound, mainpc = "unique"
             PROVE  /\ OnTrack
                    /\ \E q \in DOMAIN Archive : Archive[q] = file.head /\ wanted(file.head)
  OBVIOUS
<1>1. FileInv /\ GotIsSent /\ OriginInv /\ RestoreTypeOK /\ WorkOK BY SoundFacts
<1>2. file.data = <<>> /\ Len(got) > 0 /\ got[Len(got)] = file.head BY <1>1 DEF FileInv
<1>3. PICK g \in DOMAIN sent : g = Len(got)
  <2>1. Len(got) \in 1 .. Len(sent) BY <1>2, Lengths
  <2> QED BY <2>1, Lengths
<1>4. g \in DOMAIN got /\ file.head \in Unpacked(sent[g])
  <2>1. g \in DOMAIN got BY <1>2, <1>3, Lengths
  <2> QED BY <1>1, <1>2, <1>3, <2>1 DEF GotIsSent
<1>5. file.head.magic = "OBJT" BY <1>1, HeadFacts DEF InFile, Pending
<1>6. Archive[origin[g]] = file.head /\ Archive[origin[g]] \in Info BY <1>4, <1>5, TakenIsAlike
<1>7. filepos = 0 BY <1>2 DEF filepos
<1>8. OnTrack BY <1>3, <1>6, <1>7 DEF OnTrack
<1>9. origin[g] \in DOMAIN Archive /\ (origin[g] = 1 \/ queued(Archive[origin[g]]))
  BY <1>1, ItemOrigin
<1>10. queued(file.head) BY <1>5, <1>6, <1>9 DEF WholeArchive
<1>11. file.head.fsid # 0
  BY <1>5, <1>6, <1>9, RestoreAssumption DEF WholeArchive
<1>12. wanted(file.head) BY <1>10, <1>11 DEF queued
<1> QED BY <1>6, <1>8, <1>9, <1>12

-----------------------------------------------------------------------------
(* The steps *)

\* What a step leaves alone, whoever takes it
LEMMA AnyStep ==
    ASSUME Sound, Sound', [Next]_vars
    PROVE  /\ job' = job /\ damaged \subseteq damaged' /\ (NoneLost' => NoneLost)
           /\ aborted => aborted'
           /\ Fault("abort") \/ aborted' = aborted
           /\ Len(sent) <= Len(sent')
           /\ \A n \in 1 .. Len(sent) : sent'[n] = sent[n] /\ origin'[n] = origin[n]
<1>0. /\ QueueInv /\ RestoreTypeOK /\ EndsInv /\ ItemsOK /\ ObjectsComeOnce /\ OriginInv
  BY SoundFacts
<1>1. job' = job BY DEF Next, Main, Reader, Decomp, User, Terminated, vars
<1>2. damaged \subseteq damaged' BY <1>0, ReaderKept
<1>3. NoneLost' => NoneLost BY <1>1, <1>2 DEF NoneLost, Fault
<1>4. (aborted => aborted') /\ (Fault("abort") \/ aborted' = aborted)
  <2>1. CASE Main
    <3>1. MainKind BY <1>0, <2>1, MainStep
    <3> QED BY <3>1 DEF MainKind, Takes, Drops, Keeps, create_comp, syncvars
  <2>2. CASE ~Main
    BY <2>2 DEF Next, Reader, Decomp, User, Terminated, Signal, vars, syncvars, reader_start,
       reader_open, reader_add, reader_read, reader_skip_damaged, reader_zero_damaged, reader_give_up,
       reader_volume, reader_end, reader_exit, inc_secthreads, dec_secthreads, thread_comp_start,
       thread_comp_take, thread_comp_put, thread_comp_exit, thread_comp_error
  <2> QED BY <2>1, <2>2
<1>5. \/ sent' = sent /\ origin' = origin
      \/ \E x \in Info, p \in DOMAIN Archive : sent' = Append(sent, x) /\ origin' = Append(origin, p)
  <2>1. CASE reader_add BY <1>0, <2>1 DEF reader_add, ObjectsComeOnce, OriginInv
  <2>2. CASE ~reader_add
    <3>1. CASE Main BY <1>0, <3>1, MainStep DEF MainKind
    <3>2. CASE ~Main
      BY <2>2, <3>2 DEF Next, Reader, Decomp, User, Terminated, vars, readervars, reader_start,
         reader_open, reader_read, reader_skip_damaged, reader_zero_damaged, reader_give_up,
         reader_volume, reader_end, reader_exit
    <3> QED BY <3>1, <3>2
  <2> QED BY <2>1, <2>2
<1>6. Len(sent) <= Len(sent') /\ \A n \in 1 .. Len(sent) : sent'[n] = sent[n] /\ origin'[n] = origin[n]
  <2>1. CASE sent' = sent /\ origin' = origin BY <2>1, Lengths
  <2>2. ASSUME NEW x \in Info, NEW p \in DOMAIN Archive,
               sent' = Append(sent, x), origin' = Append(origin, p)
        PROVE  Len(sent) <= Len(sent') /\ \A n \in 1 .. Len(sent) : sent'[n] = sent[n] /\ origin'[n] = origin[n]
    <3>1. sent \in Seq(Info) /\ origin \in Seq(DOMAIN Archive) /\ Len(origin) = Len(sent)
      BY <1>0, Lengths DEF RestoreTypeOK
    <3>2. Len(sent') = Len(sent) + 1 /\ \A n \in 1 .. Len(sent) : sent'[n] = sent[n]
      BY <2>2, <3>1, AppendShape
    <3>3. \A n \in 1 .. Len(origin) : origin'[n] = origin[n] BY <2>2, <3>1, AppendShape
    <3> QED BY <3>1, <3>2, <3>3, Lengths
  <2> QED BY <1>5, <2>1, <2>2
<1> QED BY <1>1, <1>2, <1>3, <1>4, <1>6

\* The main thread takes the next item, or none.
LEMMA MainTakes ==
    ASSUME Sound, Main
    PROVE  /\ UNCHANGED <<sent, origin, damaged, job, pos>>
           /\ \/ got' = got
              \/ /\ Takes /\ ~Stopped /\ Len(got) + 1 \in DOMAIN sent
                 /\ queue[1].info \in Unpacked(sent[Len(got) + 1])
                 /\ Len(got') = Len(got) + 1 /\ got'[Len(got) + 1] = queue[1].info
                 /\ \A n \in 1 .. Len(got) : got'[n] = got[n]
<1>1. QueueInv /\ RestoreTypeOK /\ EndsInv /\ ItemsOK /\ ObjectsComeOnce BY SoundFacts
<1>2. MainKind /\ UNCHANGED <<sent, origin, damaged, job, pos>> BY <1>1, MainStep DEF Main, MainKind
<1>3. Takes \/ got' = got BY <1>2 DEF MainKind, Drops, Keeps
<1>4. CASE Takes BY <1>1, <1>2, <1>4, TakesWhat DEF Takes
<1> QED BY <1>2, <1>3, <1>4

\* The other threads leave the main thread where it is.
LEMMA OtherStep ==
    ASSUME [Next]_vars, ~Main
    PROVE  UNCHANGED <<job, mainpc, fsi, file, group, disk, counted, errors, totalerr, ret, got>>
<1>1. UNCHANGED <<job, mainvars>>
  BY DEF Next, Reader, Decomp, User, Terminated, vars, reader_start, reader_open, reader_add,
     reader_read, reader_skip_damaged, reader_zero_damaged, reader_give_up, reader_volume,
     reader_end, reader_exit
<1> QED BY <1>1 DEF mainvars, workvars

\* The end of the queue, once it is reached, stays.
LEMMA EndStays ==
    ASSUME Sound, [Next]_vars, endofqueue, queue = <<>>
    PROVE  endofqueue' /\ queue' = <<>>
<1>1. QueueInv /\ RestoreTypeOK /\ EndsInv /\ QueueHoldsSent /\ ObjectsComeOnce BY SoundFacts
<1>2. [QNext]_qvars BY <1>1, RestoreQueueStep
<1>3. DOMAIN queue = {} /\ \A i : i \notin DOMAIN queue OBVIOUS
<1>4. CASE UNCHANGED qvars BY <1>4 DEF qvars, queuevars
<1>5. CASE Fill BY <1>5 DEF Fill, queue_add_block, queue_add_header, queue_set_end_of_queue
<1>6. CASE Empty
  BY <1>6 DEF Empty, queue_dequeue_first, queue_dequeue_block, queue_dequeue_header,
     queue_destroy_first_item, HeadReady
<1>7. ASSUME NEW t \in CompThreads, Work(t) PROVE endofqueue' /\ queue' = <<>>
  <2>1. CASE thread_comp_take(t) BY <1>3, <2>1 DEF thread_comp_take
  <2>2. ASSUME NEW info \in Info, thread_comp_put(t, {info}) PROVE endofqueue' /\ queue' = <<>>
    <3>1. PICK x : queue_replace_block(blknum[t], x, "DONE") BY <2>2 DEF thread_comp_put
    <3>2. DOMAIN queue' = {} /\ endofqueue' = endofqueue BY <1>3, <3>1 DEF queue_replace_block
    <3>3. queue' \in Seq(Item) BY <1>1, <1>2, NextInv DEF QueueInv, QueueTypeOK
    <3> QED BY <3>2, <3>3
  <2> QED BY <1>7, <2>1, <2>2
        DEF Work, create_comp, thread_comp_start, thread_comp_error, thread_comp_exit, queuevars
<1> QED BY <1>2, <1>4, <1>5, <1>6, <1>7 DEF QNext

\* The reader leaves early only if it must.
LEMMA ReaderEndStep ==
    ASSUME WholeArchive, Sound, Sound', ReaderEndInv, [Next]_vars
    PROVE  ReaderEndInv'
<1>0. QueueInv /\ RestoreTypeOK /\ EndsInv /\ ItemsOK /\ ObjectsComeOnce /\ OriginInv BY SoundFacts
<1>1. job' = job BY AnyStep
<1>2. CASE Main
  <2>1. MainKind /\ pos' = pos BY <1>0, <1>2, MainStep DEF MainKind
  <2>2. stopfillqueue => stopfillqueue' BY <2>1 DEF MainKind, Takes, Drops, Keeps, create_comp, syncvars
  <2>3. Ended' => Ended BY <2>1 DEF MainKind, Ended
  <2> QED BY <1>1, <2>1, <2>2, <2>3 DEF ReaderEndInv, Fault
<1>3. CASE Reader
  <2>0. /\ Len(Archive) \in Nat /\ DOMAIN Archive = 1 .. Len(Archive) /\ pos \in 1 .. Len(Archive) + 1
    BY <1>0, ArchiveItems DEF RestoreTypeOK
  <2>1. stopfillqueue' = stopfillqueue
    BY <1>3 DEF Reader, syncvars, reader_start, reader_open, reader_add, reader_read,
       reader_skip_damaged, reader_zero_damaged, reader_give_up, reader_volume, reader_end,
       reader_exit, inc_secthreads, dec_secthreads
  <2>2. CASE reader_read
    <3>1. readerpc = "loop" /\ pos \in DOMAIN Archive /\ pos' = pos + 1
      BY <2>0, <2>2 DEF reader_read, Reading
    <3>2. Ended' => Archive[pos].magic = "VOLF" /\ Archive[pos].cnt = 1 BY <2>2 DEF reader_read, Ended
    <3>3. Ended' => pos' > Len(Archive) BY <2>0, <3>1, <3>2 DEF WholeArchive
    <3> QED BY <3>3 DEF ReaderEndInv
  <2>3. CASE ~reader_read
    <3>1. Ended' => \/ Ended /\ pos' = pos
                    \/ Fault("io") \/ Fault("header")
                    \/ (stopfillqueue \/ pos > Len(Archive)) /\ pos' = pos
      BY <1>3, <2>3 DEF Reader, Ended, reader_start, reader_open, reader_add, reader_skip_damaged,
         reader_zero_damaged, reader_give_up, reader_volume, reader_end, reader_exit
    <3> QED BY <1>1, <2>1, <3>1 DEF ReaderEndInv, Fault
  <2> QED BY <2>2, <2>3
<1>4. CASE ~Main /\ ~Reader
  <2>1. UNCHANGED <<readerpc, pos, stopfillqueue>>
    BY <1>4 DEF Next, Decomp, User, Terminated, Signal, vars, syncvars, readervars,
       thread_comp_start, thread_comp_take, thread_comp_put, thread_comp_exit, thread_comp_error,
       inc_secthreads, dec_secthreads
  <2> QED BY <1>1, <2>1 DEF ReaderEndInv, Ended, Fault
<1> QED BY <1>2, <1>3, <1>4

-----------------------------------------------------------------------------
(* Each file gets its own blocks and its own footer *)

\* Each step inside extractar_restore_obj_regfile_unique()
FileStep == main_file_open \/ main_file_loop \/ main_file_block \/ main_file_footer

\* The header stays, and where the file is, is known.
LEMMA FileStepFacts ==
    ASSUME Sound, FlowInv, FileStep, Main
    PROVE  /\ InFile /\ InFile' /\ mainpc' # "unique" /\ KnownHead
           /\ file \in FileType /\ file' \in FileType /\ file'.head = file.head
           /\ (excluded' <=> excluded)
           /\ UNCHANGED <<sent, origin, damaged, job, pos, group, counted, errors, totalerr, ret, fsi>>
           /\ ~Stopped /\ ~Stopped' /\ ~stopfillqueue
           /\ mainpc \in {"unique", "blocks", "block"} => Len(got) > 0
           /\ filepos \in Nat /\ filepos <= file.head.cnt /\ file.head.cnt \in Nat
<1>0. WorkOK /\ FileInv /\ EndsInv /\ ItemsOK /\ RestoreTypeOK BY SoundFacts
<1>1. /\ InFile /\ InFile' /\ mainpc' \in {"blocks", "block", "footer", "fileend"}
      /\ UNCHANGED <<group, counted, errors, totalerr, ret, fsi>>
  BY DEF FileStep, main_file_open, main_file_loop, main_file_block, main_file_footer, InFile, Goto
<1>2. /\ file \in FileType /\ filepos \in Nat /\ filepos <= file.head.cnt /\ file.head.cnt \in Nat
  BY <1>0, <1>1, FileFacts
<1>3. UNCHANGED <<sent, origin, damaged, job, pos>> BY MainTakes
<1>4. file' \in FileType /\ file'.head = file.head
  <2>1. CASE main_file_block
    <3>1. \/ file' = [file EXCEPT !.minorerr = TRUE, !.delfile = TRUE]
          \/ file' = [file EXCEPT !.minorerr = TRUE, !.delfile = TRUE, !.fatalerr = TRUE]
          \/ queue # <<>> /\ file' = [file EXCEPT !.data = Append(@, queue[1].info)]
      BY <2>1 DEF main_file_block, TakeBlock, queue_dequeue_block, HeadReady
    <3>2. queue # <<>> => queue[1].info \in Info
      <4>1. \A i \in DOMAIN queue : queue[i].info \in Info BY <1>0, SoundFacts, ItemNumbers
      <4>2. queue # <<>> => 1 \in DOMAIN queue BY SoundFacts, ItemNumbers
      <4> QED BY <4>1, <4>2
    <3>3. queue # <<>> => Append(file.data, queue[1].info) \in Seq(Info) BY <1>2, <3>2, AppendShape DEF FileType
    <3> QED BY <1>2, <3>1, <3>3 DEF FileType
  <2>2. CASE ~main_file_block
    <3>1. \/ file' = file
          \/ \E b \in BOOLEAN : file' = [file EXCEPT !.minorerr = b]
          \/ file' = [file EXCEPT !.minorerr = TRUE]
          \/ file' = [file EXCEPT !.minorerr = TRUE, !.delfile = TRUE]
      BY <2>2 DEF FileStep, main_file_open, main_file_loop, main_file_footer
    <3> QED BY <1>2, <3>1 DEF FileType
  <2> QED BY <2>1, <2>2
<1>5. excluded' <=> excluded BY <1>3, <1>4 DEF excluded, Excluded
<1>6. ~Stopped /\ ~Stopped' /\ ~stopfillqueue BY <1>0, <1>1 DEF Stopped, InFile, EndsInv
<1>7. KnownHead BY <1>1 DEF FlowInv, KnownHead
<1>8. mainpc \in {"unique", "blocks", "block"} => Len(got) > 0
  <2>1. mainpc = "unique" => Len(got) > 0 BY <1>0 DEF FileInv
  <2>2. mainpc \in {"blocks", "block"} => filepos < Len(got) BY <1>0 DEF FileInv, Written
  <2> QED BY <1>2, <2>1, <2>2, Lengths
<1> QED BY <1>1, <1>2, <1>3, <1>4, <1>5, <1>6, <1>7, <1>8

\* The block that is taken is the one at filepos, if nothing is lost.
LEMMA BlockFlow ==
    ASSUME WholeArchive, Sound, FlowInv, main_file_block, Main, NoneLost
    PROVE  \/ /\ mainpc' = "blocks" /\ OnTrack' /\ (file'.delfile <=> file.delfile)
           \/ /\ mainpc' = "footer" /\ file'.fatalerr /\ ~excluded
           \/ /\ mainpc' = "footer" /\ queue_get_end_of_queue
              /\ queue' = <<>> /\ endofqueue' /\ Len(got) = Len(sent)
<1>0. /\ InFile /\ KnownHead /\ file \in FileType /\ file' \in FileType /\ file'.head = file.head
      /\ UNCHANGED <<sent, origin>> /\ ~Stopped /\ ~Stopped' /\ Len(got) > 0
      /\ filepos \in Nat /\ file.head.cnt \in Nat
  BY FileStepFacts DEF FileStep, main_file_block
<1>1. mainpc = "block" /\ OnTrack /\ filepos < file.head.cnt
  BY SoundFacts DEF main_file_block, FlowInv, FileInv
<1>2. file.head.cnt # 0 BY <1>0, <1>1
<1>3. ASSUME queue # <<>>, queue[1].status = "DONE"
      PROVE  queue[1].type = "BLOCK" /\ queue[1].info.off = filepos
  <2>1. /\ Len(got) + 1 \in DOMAIN sent /\ queue[1].info \in Unpacked(sent[Len(got) + 1])
        /\ queue[1].type = "BLOCK" <=> sent[Len(got) + 1].magic = "BLKH"
    BY <1>0, <1>3, HeadIsNext
  <2>2. /\ queue[1].info.magic = "BLKH" /\ queue[1].info.off = filepos
        /\ queue[1].info.magic = sent[Len(got) + 1].magic
    BY <1>0, <1>1, <1>2, <2>1, NextOfFile
  <2> QED BY <2>1, <2>2
<1>4. CASE TakeBlock
  <2>1. queue # <<>> /\ queue[1].status = "DONE" /\ queue[1].info.off = filepos
    BY <1>3, <1>4 DEF TakeBlock, queue_dequeue_block, HeadReady
  <2>2. \/ /\ mainpc' = "blocks" /\ file' = [file EXCEPT !.data = Append(@, queue[1].info)]
        \/ /\ mainpc' = "footer" /\ ~excluded
           /\ file' = [file EXCEPT !.minorerr = TRUE, !.delfile = TRUE, !.fatalerr = TRUE]
        \/ DequeueFails("BLOCK")
    BY <2>1 DEF main_file_block, Goto
  <2>3. ~DequeueFails("BLOCK")
    <3>1. got' # got
      <4>1. got' = Append(got, queue[1].info) /\ got \in Seq(Info) /\ queue[1].info \in Info
        <5>1. \A i \in DOMAIN queue : queue[i].info \in Info BY SoundFacts, ItemNumbers
        <5>2. 1 \in DOMAIN queue BY <2>1, SoundFacts, ItemNumbers
        <5> QED BY <1>4, <5>1, <5>2, SoundFacts DEF TakeBlock, Taken, RestoreTypeOK
      <4>2. Len(got') = Len(got) + 1 BY <4>1, AppendShape
      <4> QED BY <4>2, Lengths
    <3> QED BY <3>1 DEF DequeueFails, Local
  <2>4. CASE mainpc' = "blocks" /\ file' = [file EXCEPT !.data = Append(@, queue[1].info)]
    <3>1. /\ Len(got) + 1 \in DOMAIN sent /\ queue[1].info \in Unpacked(sent[Len(got) + 1])
      BY <1>0, <2>1, HeadIsNext
    <3>2. /\ queue[1].info.magic = "BLKH" /\ queue[1].info.off = filepos
          /\ queue[1].info.obj = file.head.obj
          /\ Alike(queue[1].info, Archive[origin[Len(got) + 1]])
      BY <1>0, <1>1, <1>2, <3>1, NextOfFile
    <3>3. Len(got') = Len(got) + 1
      <4>1. got' # got BY <2>3, <1>4, MainTakes, <2>1 DEF DequeueFails, Local, TakeBlock, Taken
      <4> QED BY <4>1, MainTakes
    <3>4. file.data \in Seq(Info) /\ file'.data = Append(file.data, queue[1].info)
          /\ (file'.delfile <=> file.delfile)
      BY <1>0, <2>4 DEF FileType
    <3>5. queue[1].info \in Info
      <4>1. \A i \in DOMAIN queue : queue[i].info \in Info BY SoundFacts, ItemNumbers
      <4>2. 1 \in DOMAIN queue BY <2>1, SoundFacts, ItemNumbers
      <4> QED BY <4>1, <4>2
    <3>6. filepos' = filepos + 1 BY <3>4, <3>5, AppendShape DEF filepos
    <3>7. filepos' # 0 /\ filepos' - 1 = filepos BY <1>0, <3>6
    <3>8. PICK x : x = Archive[origin[Len(got) + 1]] OBVIOUS
    <3>9. x.magic = "BLKH" /\ x.off = filepos /\ x.obj = file.head.obj BY <3>2, <3>8 DEF Alike
    <3>10. Archive[origin'[Len(got')]] = x BY <1>0, <3>3, <3>8
    <3>11. OnTrack' BY <1>0, <3>7, <3>9, <3>10 DEF OnTrack
    <3> QED BY <2>4, <3>4, <3>11
  <2>5. CASE /\ mainpc' = "footer" /\ ~excluded
             /\ file' = [file EXCEPT !.minorerr = TRUE, !.delfile = TRUE, !.fatalerr = TRUE]
    BY <1>0, <2>5 DEF FileType
  <2> QED BY <2>2, <2>3, <2>4, <2>5
<1>5. CASE DequeueFails("BLOCK")
  <2>1. queue_get_end_of_queue BY <1>3, <1>5 DEF DequeueFails, HeadReady
  <2>2. queue = <<>> /\ endofqueue /\ Len(got) = Len(sent) BY <1>0, <2>1, NothingLeft
  <2>3. queue' = queue /\ endofqueue' = endofqueue BY <1>5 DEF DequeueFails, Local, queuevars
  <2>4. mainpc' = "footer"
    <3>1. ~TakeBlock BY <2>2 DEF TakeBlock, queue_dequeue_block, HeadReady
    <3> QED BY <3>1 DEF main_file_block, Goto
  <2> QED BY <2>1, <2>2, <2>3, <2>4
<1> QED BY <1>4, <1>5 DEF main_file_block

\* The header stays known, and the file on its track.
LEMMA FlowStep ==
    ASSUME WholeArchive, Sound, Sound', FlowInv, [Next]_vars
    PROVE  FlowInv'
<1>0. job' = job /\ (NoneLost' => NoneLost) BY AnyStep
<1>1. CASE ~Main
  <2>1. UNCHANGED <<mainpc, file, got>> BY <1>1, OtherStep
  <2>2. filepos' = filepos BY <2>1 DEF filepos
  <2>3. ASSUME OnTrack, Len(got) > 0 PROVE OnTrack'
    <3>1. Len(got) \in 1 .. Len(sent) BY <2>3, Lengths
    <3>2. PICK g : g = Len(got) OBVIOUS
    <3>3. origin'[g] = origin[g] /\ Len(got') = g BY <2>1, <3>1, <3>2, AnyStep
    <3> QED BY <2>1, <2>2, <2>3, <3>2, <3>3 DEF OnTrack
  <2>4. mainpc \in {"unique", "blocks", "block"} => Len(got) > 0
    <3>1. WorkOK /\ FileInv BY SoundFacts
    <3>2. mainpc = "unique" => Len(got) > 0 BY <3>1 DEF FileInv
    <3>3. mainpc \in {"blocks", "block"} => filepos < Len(got) BY <3>1 DEF FileInv, Written
    <3>4. mainpc \in {"blocks", "block"} => filepos \in Nat BY <3>1, FileFacts DEF InFile
    <3> QED BY <3>2, <3>3, <3>4, Lengths
  <2>5. endofqueue /\ queue = <<>> => endofqueue' /\ queue' = <<>> BY EndStays
  <2> QED BY <1>0, <2>1, <2>3, <2>4, <2>5 DEF FlowInv, InFile
<1>2. CASE Main /\ FileStep
  <2>1. /\ InFile /\ InFile' /\ mainpc' # "unique" /\ KnownHead /\ file \in FileType
        /\ file'.head = file.head /\ UNCHANGED origin /\ ~stopfillqueue
        /\ mainpc \in {"unique", "blocks", "block"} => Len(got) > 0
    BY <1>2, FileStepFacts
  <2>2. /\ file'.head.form = "unique"
        /\ \E q \in DOMAIN Archive : Archive[q] = file'.head /\ wanted(file.head)'
    BY <2>1 DEF KnownHead, wanted
  <2>3. SUFFICES ASSUME NoneLost, NoneLost', mainpc' # "fileend"
                 PROVE  /\ mainpc' \in {"blocks", "block"} => OnTrack'
                        /\ mainpc' = "footer" => \/ file'.fatalerr \/ (endofqueue' /\ queue' = <<>>)
                                                 \/ OnTrack' /\ Len(got') > 0
    BY <1>0, <2>1, <2>2 DEF FlowInv
  <2>4. CASE main_file_block
    <3>1. \/ mainpc' = "blocks" /\ OnTrack'
          \/ mainpc' = "footer" /\ file'.fatalerr
          \/ mainpc' = "footer" /\ queue' = <<>> /\ endofqueue'
      BY <1>2, <2>3, <2>4, BlockFlow
    <3> QED BY <3>1
  <2>5. CASE main_file_open \/ main_file_loop
    <3>1. mainpc \in {"unique", "blocks"} /\ got' = got /\ file'.data = file.data
      BY <2>1, <2>5 DEF main_file_open, main_file_loop, Local, FileType
    <3>2. OnTrack /\ Len(got) > 0 BY <2>1, <2>3, <3>1 DEF FlowInv
    <3>3. filepos' = filepos BY <3>1 DEF filepos
    <3>4. OnTrack' BY <2>1, <3>1, <3>2, <3>3 DEF OnTrack
    <3> QED BY <3>1, <3>2, <3>4
  <2>6. CASE main_file_footer BY <2>3, <2>6 DEF main_file_footer, Goto
  <2> QED BY <1>2, <2>4, <2>5, <2>6 DEF FileStep
<1>3. CASE Main /\ ~FileStep
  <2>1. InFile' => mainpc' = "unique" /\ file'.head.form = "unique"
    <3>1. CASE main_peek
      <4>1. ASSUME InFile'
            PROVE  mainpc' = queue[1].info.form /\ queue[1].info.magic = "OBJT" /\ queue # <<>>
                   /\ file'.head = queue[1].info
        BY <3>1, <4>1 DEF main_peek, Goto, Error, InFile, TakeHeader, queue_dequeue_header,
           HeadReady, NewFile
      <4>2. ASSUME InFile' PROVE mainpc' \in {"node", "unique", "multi"}
        BY <4>1, <4>2, KindOfObject, SoundFacts DEF QueueInv
      <4> QED BY <4>1, <4>2 DEF InFile
    <3>2. CASE ~main_peek
      <4>1. ~InFile'
        BY <1>3, <3>2 DEF Main, FileStep, InFile, Goto, Error, main_create_decomp, main_create_reader,
           main_mainhead, main_fsinfo, main_begin, main_fs, main_fsyb, main_node, main_next,
           main_objend, main_file_end, main_group_header, main_group_block, restore_files,
           main_check, main_stop, main_wait, main_drain, main_destroy, main_join_decomp, main_join_reader
      <4> QED BY <4>1
    <3> QED BY <3>1, <3>2
  <2>2. WholeArchive' BY DEF WholeArchive
  <2>3. mainpc' = "unique" =>
           OnTrack' /\ \E q \in DOMAIN Archive : Archive[q] = file'.head /\ wanted(file.head)'
    <3>1. (WholeArchive /\ Sound /\ mainpc = "unique" =>
             /\ OnTrack
             /\ \E q \in DOMAIN Archive : Archive[q] = file.head /\ wanted(file.head))'
      BY StartOfFile, PTL
    <3> QED BY <2>2, <3>1
  <2> QED BY <2>1, <2>3 DEF FlowInv, InFile
<1> QED BY <1>1, <1>2, <1>3

-----------------------------------------------------------------------------
(* What is excluded *)

\* A file that is excluded is never marked to be removed: its blocks come, each
\* at its offset, to the last one.
LEMMA NotRemovedStep ==
    ASSUME WholeArchive, Sound, Sound', ReaderEndInv, FlowInv, NotRemovedInv, [Next]_vars
    PROVE  NotRemovedInv'
<1> SUFFICES ASSUME Undisturbed PROVE ~aborted' /\ (InFile' /\ excluded' => ~file'.delfile)
  <2>1. job' = job BY AnyStep
  <2> QED BY <2>1 DEF NotRemovedInv, Undisturbed
<1>1. ~aborted /\ ~Fault("abort") /\ ~Fault("header") /\ ~Fault("io")
  BY DEF NotRemovedInv, Undisturbed, Fault
<1>2. ~aborted'
  <2>1. aborted' = aborted BY <1>1, AnyStep
  <2> QED BY <1>1, <2>1
<1>3. CASE ~Main
  <2>1. UNCHANGED <<mainpc, file, job>> BY <1>3, OtherStep
  <2> QED BY <1>2, <2>1 DEF NotRemovedInv, InFile, excluded, Excluded
<1>4. CASE Main /\ FileStep
  <2>1. /\ InFile /\ (excluded' <=> excluded) /\ file \in FileType /\ file' \in FileType
        /\ KnownHead /\ ~Stopped /\ ~stopfillqueue /\ file.head.cnt \in Nat /\ filepos \in Nat
        /\ mainpc \in {"unique", "blocks", "block"} => Len(got) > 0
    BY <1>4, FileStepFacts
  <2>2. excluded => ~file.delfile BY <2>1 DEF NotRemovedInv
  <2>3. CASE main_file_block
    <3>1. NoneLost BY <1>1 DEF NoneLost
    <3>2. ~(queue_get_end_of_queue /\ Len(got) = Len(sent))
      <4>1. SUFFICES ASSUME queue_get_end_of_queue, Len(got) = Len(sent) PROVE FALSE OBVIOUS
      <4>2. endofqueue BY <2>1, <4>1, NothingLeft
      <4>3. Ended BY <4>2, SoundFacts DEF EndsInv, Ended
      <4>4. pos > Len(Archive) BY <1>1, <2>1, <4>3 DEF ReaderEndInv
      <4>5. mainpc = "block" BY <2>3 DEF main_file_block
      <4>6. OnTrack BY <3>1, <4>5 DEF FlowInv
      <4>7. file.head.cnt # 0
        <5>1. filepos < file.head.cnt BY <4>5, SoundFacts DEF FileInv
        <5> QED BY <2>1, <5>1
      <4>8. Len(got) < Len(sent) BY <2>1, <3>1, <4>3, <4>4, <4>5, <4>6, <4>7, FileGoesOn
      <4> QED BY <4>1, <4>8, Lengths
    <3>3. (mainpc' = "blocks" /\ (file'.delfile <=> file.delfile)) \/ ~excluded
      BY <1>4, <2>3, <3>1, <3>2, BlockFlow
    <3> QED BY <1>2, <2>1, <2>2, <3>3
  <2>4. CASE ~main_file_block
    <3>1. ASSUME excluded PROVE file' = file \/ \E b \in BOOLEAN : file' = [file EXCEPT !.minorerr = b]
      BY <1>4, <2>4, <3>1 DEF FileStep, main_file_open, main_file_loop, main_file_footer
    <3>2. excluded => (file'.delfile <=> file.delfile) BY <2>1, <3>1 DEF FileType
    <3> QED BY <1>2, <2>1, <2>2, <3>2
  <2> QED BY <2>3, <2>4
<1>5. CASE Main /\ ~FileStep
  <2>1. ASSUME InFile' PROVE ~file'.delfile
    <3>1. FlowInv' BY FlowStep
    <3>2. main_peek
      BY <1>5, <2>1 DEF Main, FileStep, InFile, Goto, Error, main_create_decomp, main_create_reader,
         main_mainhead, main_fsinfo, main_begin, main_fs, main_fsyb, main_node, main_next,
         main_objend, main_file_end, main_group_header, main_group_block, restore_files,
         main_check, main_stop, main_wait, main_drain, main_destroy, main_join_decomp, main_join_reader
    <3>3. file' = NewFile(queue[1].info) BY <2>1, <3>2 DEF main_peek, InFile, Goto, Error
    <3> QED BY <3>3 DEF NewFile
  <2> QED BY <1>2, <2>1
<1> QED BY <1>3, <1>4, <1>5

\* What is excluded is neither written nor removed.
LEMMA ExcludedStep ==
    ASSUME WholeArchive, Sound, Sound', NotRemovedInv, ExcludedIsUntouched, [Next]_vars
    PROVE  ExcludedIsUntouched'
<1>0. job' = job BY AnyStep
<1>1. SUFFICES ASSUME Undisturbed, NEW o \in Objs \cap Excluded PROVE disk'[o] = disk[o]
  BY <1>0 DEF ExcludedIsUntouched, Undisturbed, Excluded, Present
<1>2. /\ disk \in [Objs -> {"absent", "old", "good", "bad"}] /\ o \in Objs
      /\ disk[o] # "bad"
  <2>1. disk[o] = IF o \in Present THEN "old" ELSE "absent" BY <1>1 DEF ExcludedIsUntouched
  <2> QED BY <2>1, SoundFacts DEF RestoreTypeOK
<1>3. CASE main_node
  <2>1. ~excluded => o # file.head.obj BY DEF excluded
  <2> QED BY <1>2, <1>3, <2>1 DEF main_node
<1>4. CASE main_file_open
  <2>1. ~excluded => o # file.head.obj BY DEF excluded
  <2> QED BY <1>2, <1>4, <2>1 DEF main_file_open
<1>5. CASE main_file_end
  <2>1. InFile BY <1>5 DEF main_file_end, InFile
  <2>2. o = file.head.obj => ~file.delfile BY <1>1, <2>1 DEF NotRemovedInv, excluded
  <2> QED BY <1>2, <1>5, <2>2 DEF main_file_end
<1>6. CASE main_group_block
  <2>1. disk' = disk \/ \E n \in 0 .. Len(group) : restore_files(n, queue[1].info)
    BY <1>6 DEF main_group_block
  <2>2. ASSUME NEW n \in 0 .. Len(group), restore_files(n, queue[1].info) PROVE disk'[o] = disk[o]
    <3>1. \A S : o \notin SmallFiles(S) BY DEF SmallFiles
    <3> DEFINE todo == SmallFiles(1 .. n)
               sound == SmallFiles({k \in 1 .. n : InBlock(group[k], queue[1].info)})
               removed == SmallFiles({n + 1} \cap DOMAIN group)
    <3>2. PICK unopened : disk' = [x \in Objs |-> IF x \in sound \ unopened THEN "good"
                                     ELSE IF x \in todo \ (sound \cup unopened) THEN "bad"
                                     ELSE IF x \in removed THEN "absent" ELSE disk[x]]
      BY <2>2 DEF restore_files
    <3>3. o \notin todo /\ o \notin sound /\ o \notin removed BY <3>1
    <3> HIDE DEF todo, sound, removed
    <3> QED BY <1>2, <3>2, <3>3
  <2> QED BY <2>1, <2>2
<1>7. CASE ~main_node /\ ~main_file_open /\ ~main_file_end /\ ~main_group_block
  <2>1. CASE Main
    BY <1>7, <2>1 DEF Main, workvars, main_create_decomp, main_create_reader, main_mainhead,
       main_fsinfo, main_begin, main_fs, main_fsyb, main_peek, main_next, main_objend, main_file_loop,
       main_file_block, main_file_footer, main_group_header, main_check, main_stop, main_wait,
       main_drain, main_destroy, main_join_decomp, main_join_reader
  <2>2. CASE ~Main BY <2>2, OtherStep
  <2> QED BY <2>1, <2>2
<1> QED BY <1>3, <1>4, <1>5, <1>6, <1>7

-----------------------------------------------------------------------------
(* What was asked for *)

\* An object that comes with a step is in the header that the step takes.
LEMMA NewObject ==
    ASSUME Sound, Main, NEW o \in TakenObjs', o \notin TakenObjs
    PROVE  /\ Takes /\ ~Stopped /\ queue # <<>> /\ queue[1].status = "DONE"
           /\ queue[1].info.magic = "OBJT" /\ o = queue[1].info.obj /\ queue[1].type # "BLOCK"
           /\ Len(got) + 1 \in DOMAIN sent /\ queue[1].info \in Unpacked(sent[Len(got) + 1])
           /\ sent[Len(got) + 1].magic = "OBJT"
           /\ queue[1].info = Archive[origin[Len(got) + 1]]
           /\ origin[Len(got) + 1] \in DOMAIN Archive
<1>1. got' # got BY DEF TakenObjs
<1>2. /\ Takes /\ ~Stopped /\ Len(got) + 1 \in DOMAIN sent
      /\ queue[1].info \in Unpacked(sent[Len(got) + 1])
      /\ Len(got') = Len(got) + 1 /\ got'[Len(got) + 1] = queue[1].info
      /\ \A n \in 1 .. Len(got) : got'[n] = got[n]
  BY <1>1, MainTakes
<1>3. PICK n \in DOMAIN got' : got'[n].magic = "OBJT" /\ o = got'[n].obj BY DEF TakenObjs
<1>4. n = Len(got) + 1
  <2>1. n \in 1 .. Len(got) + 1
    <3>1. got' = Append(got, queue[1].info) /\ got \in Seq(Info) BY <1>2, SoundFacts DEF Takes, RestoreTypeOK
    <3>2. queue[1].info \in Info BY <1>2, SoundFacts, MainTakes, TakesNext
    <3> QED BY <3>1, <3>2, AppendShape
  <2>2. n \notin 1 .. Len(got)
    <3>1. SUFFICES ASSUME n \in 1 .. Len(got) PROVE FALSE OBVIOUS
    <3>2. n \in DOMAIN got /\ got[n] = got'[n] BY <1>2, <3>1, Lengths
    <3> QED BY <1>3, <3>2 DEF TakenObjs
  <2> QED BY <2>1, <2>2, Lengths
<1>5. queue[1].info.magic = "OBJT" /\ o = queue[1].info.obj BY <1>2, <1>3, <1>4
<1>6. queue # <<>> /\ queue[1].status = "DONE" BY <1>2 DEF Takes
<1>7. PICK m \in DOMAIN sent : m = Len(got) + 1 BY <1>2
<1>8. /\ Alike(queue[1].info, Archive[origin[m]]) /\ Alike(sent[m], Archive[origin[m]])
      /\ queue[1].info = Archive[origin[m]]
  BY <1>2, <1>5, <1>7, TakenIsAlike
<1>9. sent[m].magic = "OBJT" /\ origin[m] \in DOMAIN Archive BY <1>5, <1>7, <1>8, Lengths DEF Alike
<1>10. queue[1].type = "BLOCK" <=> sent[m].magic = "BLKH" BY <1>2, <1>6, <1>7, HeadIsNext
<1> QED BY <1>2, <1>5, <1>6, <1>7, <1>8, <1>9, <1>10

\* Where the operations go
LEMMA PlaceStep ==
    ASSUME WholeArchive, Sound, Sound', PlaceInv, [Next]_vars
    PROVE  PlaceInv'
<1>0. /\ errors \in Nat /\ errors' \in Nat /\ fsi \in Nat /\ ret \in {0, -1}
      /\ oper \in {"RESTFS", "RESTDIR", "ARCHINFO"}
      /\ oper = "RESTFS" => archtype = "FILESYSTEMS"
      /\ oper = "RESTDIR" => archtype = "DIRECTORIES"
      /\ archtype \in {"FILESYSTEMS", "DIRECTORIES"}
  <2>1. errors' \in Nat BY DEF Sound, RestoreInv, RestoreTypeOK
  <2> QED BY <2>1, SoundFacts, RestoreAssumption DEF RestoreTypeOK
<1>1. CASE ~Main
  <2>1. UNCHANGED <<mainpc, fsi, errors, ret>> BY <1>1, OtherStep
  <2> QED BY <2>1 DEF PlaceInv, InObjects, InFile
<1>2. CASE main_peek /\ Main
  <2>1. /\ mainpc = "peek" /\ fsi' = fsi
        /\ \/ mainpc' = "stop" /\ ret' = -1 /\ errors' = errors
           \/ mainpc' \in {"objend", "peek"} /\ errors' = errors /\ ret' = ret
           \/ /\ TakeHeader /\ queue[1].info.magic = "OBJT" /\ ret' = ret
              /\ \/ queue[1].info.fsid = fsi /\ mainpc' = queue[1].info.form /\ errors' = errors
                 \/ queue[1].info.fsid # fsi /\ mainpc' = "next"
    BY <1>2 DEF main_peek, Goto, Error
  <2>2. CASE /\ errors' = errors
             /\ (mainpc' = "stop" /\ ret' = -1) \/ (mainpc' \in {"objend", "peek"} /\ ret' = ret)
    <3>1. InObjects /\ (mainpc' = "stop" => ~InObjects') /\ (mainpc' # "stop" => InObjects')
      BY <2>1, <2>2 DEF InObjects, InFile
    <3> QED BY <1>0, <2>1, <2>2, <3>1 DEF PlaceInv
  <2>3. CASE TakeHeader /\ queue[1].info.magic = "OBJT" /\ ret' = ret
             /\ \/ queue[1].info.fsid = fsi /\ mainpc' = queue[1].info.form /\ errors' = errors
                \/ queue[1].info.fsid # fsi /\ mainpc' = "next"
    <3>1. queue # <<>> /\ queue[1].status = "DONE"
      BY <2>3 DEF TakeHeader, queue_dequeue_header, HeadReady
    <3>2. mainpc' = queue[1].info.form => mainpc' \in {"node", "unique", "multi"}
      BY <2>3, <3>1, KindOfObject, SoundFacts DEF QueueInv
    <3>3. InObjects' /\ InObjects BY <2>1, <2>3, <3>2 DEF InObjects, InFile
    <3>4. oper = "RESTDIR" => queue[1].info.fsid = 1
      <4>1. ~Stopped BY <2>1 DEF Stopped
      <4>2. Len(got) + 1 \in DOMAIN sent /\ queue[1].info \in Unpacked(sent[Len(got) + 1])
        BY <3>1, <4>1, HeadIsNext
      <4>3. PICK m \in DOMAIN sent : m = Len(got) + 1 BY <4>2
      <4>4. queue[1].info = Archive[origin[m]] BY <2>3, <4>2, <4>3, TakenIsAlike
      <4>5. origin[m] \in DOMAIN Archive BY <4>3, Lengths
      <4> QED BY <1>0, <2>3, <4>4, <4>5 DEF WholeArchive
    <3>5. oper = "RESTDIR" => errors' = errors /\ fsi = 1 BY <2>3, <3>3, <3>4 DEF PlaceInv
    <3>6. mainpc' \notin {"fs", "fsyb"} BY <2>3, <3>2
    <3> QED BY <2>1, <3>3, <3>5, <3>6 DEF PlaceInv
  <2> QED BY <2>1, <2>2, <2>3
<1>3. CASE Main /\ ~main_peek
  <2> USE <1>0 DEF PlaceInv, InObjects, InFile, Goto, Error, workvars
  <2>1. CASE main_create_decomp \/ main_create_reader \/ main_mainhead \/ main_fsinfo \/ main_begin
    BY <2>1 DEF main_create_decomp, main_create_reader, main_mainhead, main_fsinfo, main_begin
  <2>2. CASE main_fs \/ main_fsyb \/ main_next \/ main_check
    BY <2>2 DEF main_fs, main_fsyb, main_next, main_check
  <2>3. CASE main_objend BY <2>3 DEF main_objend
  <2>4. CASE main_node \/ main_file_open \/ main_file_loop
    BY <2>4 DEF main_node, main_file_open, main_file_loop
  <2>5. CASE main_file_block \/ main_file_footer \/ main_file_end
    BY <2>5 DEF main_file_block, main_file_footer, main_file_end
  <2>6. CASE main_group_header \/ main_group_block
    <3>1. /\ mainpc = "multi" /\ errors' = errors /\ fsi' = fsi
          /\ (mainpc' = "stop" /\ ret' = -1) \/ mainpc' \in {"multi", "next"}
      BY <2>6 DEF main_group_header, main_group_block, restore_files
    <3> QED BY <3>1
  <2>7. CASE main_stop \/ main_wait \/ main_drain \/ main_destroy \/ main_join_decomp \/ main_join_reader
    BY <2>7 DEF main_stop, main_wait, main_drain, main_destroy, main_join_decomp, main_join_reader
  <2> QED BY <1>3, <2>1, <2>2, <2>3, <2>4, <2>5, <2>6, <2>7 DEF Main
<1> QED BY <1>1, <1>2, <1>3

\* The objects end at a DATF.
LEMMA DatfStep ==
    ASSUME WholeArchive, Sound, Sound', DatfInv, [Next]_vars
    PROVE  DatfInv'
<1> SUFFICES ASSUME mainpc' = "objend", ~aborted'
             PROVE  Len(got') < Len(sent') /\ sent'[Len(got') + 1].magic = "DATF"
  BY DEF DatfInv
<1>0. ~aborted BY AnyStep
<1>1. CASE ~Main
  <2>1. UNCHANGED <<mainpc, got>> BY <1>1, OtherStep
  <2>2. Len(got) < Len(sent) /\ sent[Len(got) + 1].magic = "DATF" BY <1>0, <2>1 DEF DatfInv
  <2>3. Len(got) + 1 \in 1 .. Len(sent) BY <2>2, Lengths
  <2>4. /\ Len(sent) <= Len(sent') /\ sent'[Len(got) + 1] = sent[Len(got) + 1] BY <2>3, AnyStep
  <2>5. Len(sent') \in Nat BY DEF Sound, RestoreInv, RestoreTypeOK
  <2> QED BY <2>1, <2>2, <2>4, <2>5, Lengths
<1>2. CASE Main
  <2>1. main_peek \/ main_next
    BY <1>2 DEF Main, Goto, Error, main_create_decomp, main_create_reader,
       main_mainhead, main_fsinfo, main_begin, main_fs, main_fsyb, main_node, main_file_open,
       main_file_loop, main_file_block, main_file_footer,
       main_objend, main_file_end, main_group_header, main_group_block, restore_files,
       main_check, main_stop, main_wait, main_drain, main_destroy, main_join_decomp, main_join_reader
  <2>2. ~main_next BY <1>0 DEF main_next, Goto
  <2>3. /\ mainpc = "peek" /\ got' = got /\ queue # <<>> /\ queue[1].status = "DONE"
        /\ queue[1].info.magic = "DATF"
    <3>1. \/ HeadReady /\ queue[1].info.magic = "DATF" /\ Local
          \/ mainpc' = queue[1].info.form /\ queue # <<>> /\ queue[1].info.magic = "OBJT"
      BY <2>1, <2>2 DEF main_peek, Goto, Error, TakeHeader, queue_dequeue_header, HeadReady
    <3>2. queue # <<>> /\ queue[1].info.magic = "OBJT" => queue[1].info.form # "objend"
      BY KindOfObject, SoundFacts DEF QueueInv
    <3> QED BY <2>1, <2>2, <3>1, <3>2 DEF HeadReady, Local, main_peek
  <2>4. ~Stopped BY <2>3 DEF Stopped
  <2>5. Len(got) + 1 \in DOMAIN sent /\ queue[1].info \in Unpacked(sent[Len(got) + 1])
    BY <2>3, <2>4, HeadIsNext
  <2>6. sent[Len(got) + 1].magic = "DATF"
    <3>1. sent[Len(got) + 1] \in Info BY <2>5, SoundFacts DEF RestoreTypeOK
    <3> QED BY <2>3, <2>5, <3>1, UnpackedSame
  <2>7. sent' = sent BY <1>2, MainTakes
  <2>8. Len(got) < Len(sent) BY <2>5, Lengths
  <2> QED BY <2>3, <2>6, <2>7, <2>8
<1> QED BY <1>1, <1>2

\* A header comes next to the blocks of a file only if it is the footer.
LEMMA FooterIsNoObject ==
    ASSUME WholeArchive, Sound, FlowInv, NoneLost, main_file_footer, Main, NEW o \in TakenObjs'
    PROVE  o \in TakenObjs
<1> SUFFICES ASSUME o \notin TakenObjs PROVE FALSE OBVIOUS
<1>1. /\ Takes /\ queue # <<>> /\ queue[1].info.magic = "OBJT"
      /\ Len(got) + 1 \in DOMAIN sent /\ queue[1].info \in Unpacked(sent[Len(got) + 1])
  BY NewObject
<1>2. got' # got BY DEF TakenObjs
<1>3. ~file.fatalerr /\ file.head.cnt # 0 /\ mainpc = "footer" BY <1>2 DEF main_file_footer, Local
<1>4. InFile /\ KnownHead BY <1>3 DEF FlowInv, KnownHead, InFile
<1>5. OnTrack /\ Len(got) > 0 BY <1>1, <1>3 DEF FlowInv
<1>6. IF filepos < file.head.cnt THEN queue[1].info.magic = "BLKH" /\ queue[1].info.off = filepos
      ELSE queue[1].info.magic = "FILF"
  BY <1>1, <1>3, <1>4, <1>5, NextOfFile
<1> QED BY <1>1, <1>6

\* What SettledInv says of one object
Settled(o) ==
    \/ o \in counted \/ totalerr \/ ret # 0 \/ errors > 0 \/ AtWork(o)
    \/ aborted /\ mainpc \in {"fs", "check"}

\* The block of a group settles all its files.
LEMMA GroupSettles ==
    ASSUME Sound, main_group_block, NEW k \in DOMAIN group, group[k].obj \notin Excluded
    PROVE  group[k].obj \in counted' \/ totalerr' \/ ret' # 0
<1>1. \/ ret' = -1
      \/ \E n \in 0 .. Len(group) : restore_files(n, queue[1].info)
  BY DEF main_group_block, Error
<1>2. ASSUME NEW n \in 0 .. Len(group), restore_files(n, queue[1].info)
      PROVE  group[k].obj \in counted' \/ totalerr' \/ ret' # 0
  <2> DEFINE todo == SmallFiles(1 .. n)
             sound == SmallFiles({j \in 1 .. n : InBlock(group[j], queue[1].info)})
  <2>1. PICK unopened, noattr :
           /\ counted' = counted \cup (sound \ (unopened \cup noattr))
           /\ totalerr' = \/ totalerr
                          \/ \E j \in 1 .. n : group[j].form # "multi"
                          \/ todo # sound \ (unopened \cup noattr)
           /\ n = Len(group) \/ ret' = -1
    BY <1>2 DEF restore_files, Error
  <2>2. group \in Seq(Info) BY SoundFacts DEF RestoreTypeOK
  <2>3. n = Len(group) => k \in 1 .. n BY <2>2
  <2>4. n = Len(group) /\ group[k].form = "multi" => group[k].obj \in todo BY <2>3 DEF SmallFiles
  <2> HIDE DEF todo, sound
  <2> QED BY <2>1, <2>3, <2>4
<1> QED BY <1>1, <1>2

\* An object that comes is restored, or it is going to be reported.
LEMMA SettledStep ==
    ASSUME WholeArchive, Sound, Sound', FlowInv, PlaceInv, DatfInv, SettledInv, [Next]_vars
    PROVE  SettledInv'
<1>0. /\ job' = job /\ (NoneLost' => NoneLost) /\ (aborted => aborted')
      /\ errors \in Nat /\ ret \in {0, -1} /\ totalerr \in BOOLEAN
  BY AnyStep, SoundFacts DEF RestoreTypeOK
<1> SUFFICES ASSUME NoneLost, NEW o \in TakenObjs', o \notin Excluded
             PROVE  Settled(o)'
  BY <1>0 DEF SettledInv, Settled, Excluded
<1>1. o \in TakenObjs => Settled(o) BY DEF SettledInv, Settled
<1>2. CASE ~Main
  <2>1. UNCHANGED <<mainpc, file, group, counted, errors, totalerr, ret, got>> BY <1>2, OtherStep
  <2>2. o \in TakenObjs BY <2>1 DEF TakenObjs
  <2> QED BY <1>0, <1>1, <2>1, <2>2 DEF Settled, AtWork, InFile
<1>3. ASSUME Main, o \notin TakenObjs
      PROVE  /\ Takes /\ queue[1].info.magic = "OBJT" /\ o = queue[1].info.obj
             /\ queue[1].type # "BLOCK" /\ sent[Len(got) + 1].magic = "OBJT" /\ got' # got
  <2>1. got' # got BY <1>3 DEF TakenObjs
  <2> QED BY <1>3, <2>1, NewObject
<1>4. CASE main_peek /\ Main
  <2>1. mainpc = "peek" /\ counted' = counted /\ totalerr' = totalerr BY <1>4 DEF main_peek
  <2>2. errors' \in {errors, errors + 1} /\ ret' \in {ret, -1} BY <1>4 DEF main_peek, Error
  <2>3. CASE o \in TakenObjs
    <3>1. ~AtWork(o) BY <2>1 DEF AtWork, InFile
    <3>2. o \in counted \/ totalerr \/ ret # 0 \/ errors > 0 BY <1>1, <2>1, <2>3, <3>1 DEF Settled
    <3>3. (ret # 0 => ret' # 0) /\ (errors > 0 => errors' > 0) BY <1>0, <2>2
    <3> QED BY <2>1, <3>2, <3>3 DEF Settled
  <2>4. CASE o \notin TakenObjs
    <3>1. queue[1].info.magic = "OBJT" /\ o = queue[1].info.obj /\ got' # got /\ queue # <<>>
      BY <1>3, <1>4, <2>4 DEF Takes
    <3>2. \/ /\ mainpc' = queue[1].info.form /\ file' = NewFile(queue[1].info)
             /\ group' = <<queue[1].info>>
          \/ errors' = errors + 1
      BY <1>4, <3>1 DEF main_peek, Goto, Local
    <3>3. CASE errors' = errors + 1
      <4>1. errors' > 0 BY <1>0, <3>3
      <4> QED BY <4>1 DEF Settled
    <3>4. CASE /\ mainpc' = queue[1].info.form /\ file' = NewFile(queue[1].info)
               /\ group' = <<queue[1].info>>
      <4>1. mainpc' \in {"node", "unique", "multi"}
        BY <3>1, <3>4, KindOfObject, SoundFacts DEF QueueInv
      <4>2. file'.head.obj = o BY <3>1, <3>4 DEF NewFile
      <4>3. 1 \in DOMAIN group' /\ group'[1].obj = o BY <3>1, <3>4
      <4>4. AtWork(o)' BY <4>1, <4>2, <4>3 DEF AtWork, InFile
      <4> QED BY <4>4 DEF Settled
    <3> QED BY <3>2, <3>3, <3>4
  <2> QED BY <2>3, <2>4
<1>5. CASE main_node /\ Main
  <2>1. /\ mainpc = "node" /\ got' = got /\ UNCHANGED <<file, group, errors, ret>>
    BY <1>5 DEF main_node, Local
  <2>2. o \in TakenObjs BY <2>1 DEF TakenObjs
  <2>3. counted \subseteq counted' /\ (totalerr => totalerr') BY <1>5 DEF main_node
  <2>4. o = file.head.obj => o \in counted' \/ totalerr'
    BY <1>5 DEF main_node, excluded, restore_attr
  <2>5. AtWork(o) => o = file.head.obj BY <2>1 DEF AtWork
  <2> QED BY <1>1, <2>1, <2>2, <2>3, <2>4, <2>5 DEF Settled
<1>6. CASE FileStep /\ Main
  <2>1. /\ InFile /\ InFile' /\ file'.head = file.head
        /\ UNCHANGED <<counted, errors, totalerr, ret>>
    BY <1>6, FileStepFacts
  <2>2. o \in TakenObjs
    <3>1. CASE main_file_block
      <4>1. SUFFICES ASSUME o \notin TakenObjs PROVE FALSE OBVIOUS
      <4>2. queue[1].type # "BLOCK" /\ got' # got BY <1>3, <1>6, <4>1
      <4> QED BY <3>1, <4>2 DEF main_file_block, TakeBlock, queue_dequeue_block, DequeueFails, Local
    <3>2. CASE main_file_footer BY <1>6, <3>2, FooterIsNoObject
    <3>3. CASE main_file_open \/ main_file_loop
      BY <3>3 DEF main_file_open, main_file_loop, Local, TakenObjs
    <3> QED BY <1>6, <3>1, <3>2, <3>3 DEF FileStep
  <2>3. AtWork(o) => AtWork(o)'
    <3>1. AtWork(o) => o = file.head.obj BY <2>1 DEF AtWork, InFile
    <3> QED BY <2>1, <3>1 DEF AtWork
  <2>4. mainpc \notin {"fs", "check"} BY <2>1 DEF InFile
  <2> QED BY <1>1, <2>1, <2>2, <2>3, <2>4 DEF Settled
<1>7. CASE main_file_end /\ Main
  <2>1. /\ mainpc = "fileend" /\ got' = got /\ errors' = errors /\ ret' \in {ret, -1}
    BY <1>7 DEF main_file_end, Local, Error
  <2>2. o \in TakenObjs BY <2>1 DEF TakenObjs
  <2>3. counted \subseteq counted' BY <1>7 DEF main_file_end
  <2>4. totalerr => totalerr' BY <1>7 DEF main_file_end
  <2>5. o = file.head.obj => o \in counted' \/ totalerr' BY <1>7 DEF main_file_end, excluded
  <2>6. AtWork(o) => o = file.head.obj BY <2>1 DEF AtWork
  <2>7. ret # 0 => ret' # 0 BY <2>1
  <2> QED BY <1>1, <2>1, <2>2, <2>3, <2>4, <2>5, <2>6, <2>7 DEF Settled
<1>8. CASE main_group_header /\ Main
  <2>1. /\ mainpc = "multi" /\ UNCHANGED <<file, counted, errors, totalerr>>
        /\ \/ ret' = -1
           \/ /\ TakeHeader /\ queue[1].info.magic = "OBJT" /\ mainpc' = mainpc /\ ret' = ret
              /\ group' = Append(group, queue[1].info)
    BY <1>8 DEF main_group_header, Error
  <2>2. CASE ret' = -1 BY <2>2 DEF Settled
  <2>3. CASE /\ TakeHeader /\ queue[1].info.magic = "OBJT" /\ mainpc' = mainpc /\ ret' = ret
             /\ group' = Append(group, queue[1].info)
    <3>1. group \in Seq(Info) /\ queue[1].info \in Info
      <4>1. \A i \in DOMAIN queue : queue[i].info \in Info BY SoundFacts, ItemNumbers
      <4>2. 1 \in DOMAIN queue BY <2>3, SoundFacts, ItemNumbers DEF TakeHeader, queue_dequeue_header, HeadReady
      <4> QED BY <4>1, <4>2, SoundFacts DEF RestoreTypeOK
    <3>2. /\ DOMAIN group' = 1 .. Len(group) + 1 /\ group'[Len(group) + 1] = queue[1].info
          /\ \A k \in 1 .. Len(group) : group'[k] = group[k]
          /\ Len(group) \in Nat /\ DOMAIN group = 1 .. Len(group)
      BY <2>3, <3>1, AppendShape
    <3>3. \A k \in DOMAIN group : k \in DOMAIN group' /\ group'[k] = group[k] BY <3>2
    <3>4. AtWork(o) => AtWork(o)' BY <2>1, <2>3, <3>3 DEF AtWork, InFile
    <3>5. CASE o \in TakenObjs BY <1>1, <2>1, <2>3, <3>4, <3>5 DEF Settled
    <3>6. CASE o \notin TakenObjs
      <4>1. o = queue[1].info.obj BY <1>3, <1>8, <3>6
      <4>2. Len(group) + 1 \in DOMAIN group' BY <3>2
      <4>3. AtWork(o)' BY <2>1, <2>3, <3>2, <4>1, <4>2 DEF AtWork
      <4> QED BY <4>3 DEF Settled
    <3> QED BY <3>5, <3>6
  <2> QED BY <2>1, <2>2, <2>3
<1>9. CASE main_group_block /\ Main
  <2>1. mainpc = "multi" /\ errors' = errors /\ ret' \in {ret, -1}
    BY <1>9 DEF main_group_block, restore_files, Error
  <2>2. o \in TakenObjs
    <3>1. SUFFICES ASSUME o \notin TakenObjs PROVE FALSE OBVIOUS
    <3>2. queue[1].type # "BLOCK" /\ got' # got BY <1>3, <1>9, <3>1
    <3> QED BY <1>9, <3>2 DEF main_group_block, TakeBlock, queue_dequeue_block, DequeueFails, Local
  <2>3. counted \subseteq counted' BY <1>9 DEF main_group_block, restore_files
  <2>4. totalerr => totalerr' BY <1>9 DEF main_group_block, restore_files
  <2>5. AtWork(o) => o \in counted' \/ totalerr' \/ ret' # 0
    <3>1. AtWork(o) => \E k \in DOMAIN group : o = group[k].obj BY <2>1 DEF AtWork, InFile
    <3> QED BY <1>9, <3>1, GroupSettles
  <2>6. ret # 0 => ret' # 0 BY <2>1
  <2> QED BY <1>1, <2>1, <2>2, <2>3, <2>4, <2>5, <2>6 DEF Settled
<1>10. CASE main_objend /\ Main
  <2>1. mainpc = "objend" /\ UNCHANGED <<file, group, counted, errors, totalerr>> /\ ret' \in {ret, -1}
    BY <1>10 DEF main_objend, Error
  <2>2. CASE o \in TakenObjs
    <3>1. ~AtWork(o) BY <2>1 DEF AtWork, InFile
    <3> QED BY <1>1, <2>1, <2>2, <3>1 DEF Settled
  <2>3. CASE o \notin TakenObjs
    <3>1. sent[Len(got) + 1].magic = "OBJT" /\ got' # got BY <1>3, <1>10, <2>3
    <3>2. aborted BY <2>1, <3>1 DEF DatfInv
    <3>3. mainpc' = "fs" \/ ret' = -1 BY <1>10, <3>1 DEF main_objend, Goto, Error, Local, DequeueFails
    <3> QED BY <1>0, <3>2, <3>3 DEF Settled
  <2> QED BY <2>2, <2>3
<1>11. CASE /\ ~main_peek /\ ~main_node /\ ~FileStep /\ ~main_file_end /\ ~main_group_header
            /\ ~main_group_block /\ ~main_objend /\ Main
  <2>1. /\ mainpc \notin {"node", "multi"} /\ ~InFile
        /\ UNCHANGED <<counted, totalerr>> /\ ret' \in {ret, -1}
        /\ errors' = errors \/ mainpc = "fsyb"
        /\ aborted /\ mainpc \in {"fs", "check"} => mainpc' \in {"fs", "check"} \/ ret' = -1
        /\ got' = got \/ ret' = -1 \/ queue[1].info.magic # "OBJT"
    BY <1>11 DEF Main, FileStep, InFile, Goto, Error, Local, DequeueFails, workvars, get_interrupted,
       main_create_decomp, main_create_reader, main_mainhead, main_fsinfo, main_begin, main_fs,
       main_fsyb, main_next, main_check, main_stop, main_wait, main_drain, main_destroy,
       main_join_decomp, main_join_reader
  <2>2. ~AtWork(o) BY <2>1 DEF AtWork
  <2>3. errors > 0 => errors' > 0 \/ ret # 0
    <3>1. mainpc = "fsyb" => ~InObjects BY DEF InObjects, InFile
    <3> QED BY <1>0, <2>1, <3>1 DEF PlaceInv
  <2>4. ret # 0 => ret' # 0 BY <2>1
  <2>5. CASE o \in TakenObjs
    <3>1. \/ o \in counted \/ totalerr \/ ret # 0 \/ errors > 0
          \/ aborted /\ mainpc \in {"fs", "check"}
      BY <1>1, <2>2, <2>5 DEF Settled
    <3> QED BY <1>0, <2>1, <2>3, <2>4, <3>1 DEF Settled
  <2>6. CASE o \notin TakenObjs
    <3>1. ret' = -1 BY <1>3, <1>11, <2>1, <2>6
    <3> QED BY <3>1 DEF Settled
  <2> QED BY <2>5, <2>6
<1> QED BY <1>2, <1>4, <1>5, <1>6, <1>7, <1>8, <1>9, <1>10, <1>11

\* What was asked for and is not behind an item that has come, has come.
LEMMA CameUpTo ==
    ASSUME Sound, NoneLost, NEW n \in DOMAIN sent, NEW p \in DOMAIN Archive, p <= origin[n],
           queued(Archive[p])
    PROVE  \E m \in 1 .. n : origin[m] = p
<1>1. OriginInv /\ RestoreTypeOK BY SoundFacts
<1>2. /\ n \in 1 .. Len(sent) /\ n \in DOMAIN origin /\ origin[n] \in Nat /\ p \in Nat /\ p >= 1
      /\ Len(sent) \in Nat /\ pos \in Int
  BY <1>1, Lengths, ArchiveItems DEF RestoreTypeOK
<1>3. origin[n] < IF readerpc = "add" THEN pos - 1 ELSE pos BY <1>1, <1>2 DEF OriginInv
<1>4. p \in 1 .. pos - 1 /\ (readerpc = "add" => p # pos - 1) BY <1>2, <1>3
<1>5. ~(p \in damaged /\ Fault("header")) BY DEF NoneLost
<1>6. PICK m \in DOMAIN origin : origin[m] = p BY <1>1, <1>4, <1>5 DEF OriginInv
<1>7. m \in 1 .. Len(sent) /\ (n < m => origin[n] < origin[m]) BY <1>2, <1>6, Lengths
<1>8. m \in 1 .. n BY <1>2, <1>6, <1>7
<1> QED BY <1>6, <1>8

\* What has come is not forgotten.
LEMMA GotGrows ==
    ASSUME Sound, Sound', [Next]_vars, NEW n \in DOMAIN got
    PROVE  n \in DOMAIN got' /\ origin'[n] = origin[n]
<1>1. n \in DOMAIN sent /\ n \in 1 .. Len(got) /\ Len(got) \in Nat BY Lengths
<1>2. origin'[n] = origin[n] BY <1>1, AnyStep, Lengths
<1>3. Len(got') \in Nat /\ DOMAIN got' = 1 .. Len(got') BY DEF Sound, RestoreInv, RestoreTypeOK
<1>4. got' = got \/ Len(got') = Len(got) + 1
  <2>1. CASE Main BY <2>1, MainTakes
  <2>2. CASE ~Main BY <2>2, OtherStep
  <2> QED BY <2>1, <2>2
<1>5. n \in 1 .. Len(got) /\ Len(got) \in Nat /\ Len(got') \in Nat BY <1>1, <1>3
<1>6. Len(got') = Len(got) \/ Len(got') = Len(got) + 1 BY <1>4, Zenon
<1>7. n \in 1 .. Len(got') BY ONLY <1>5, <1>6
<1> QED BY <1>2, <1>3, <1>7

\* The first conjunct of CameInv, for a bound on the file systems
CameBelow(f) ==
    \A p \in DOMAIN Archive : wanted(Archive[p]) /\ Archive[p].fsid < f =>
        \E n \in DOMAIN got : p <= origin[n]

\* The file systems before the one at work have come.
LEMMA BelowStep ==
    ASSUME WholeArchive, Sound, Sound', PlaceInv, DatfInv, CameInv, [Next]_vars,
           oper = "RESTFS", ~aborted', InObjects' \/ mainpc' \in {"fs", "fsyb"}
    PROVE  CameBelow(fsi)'
<1>0. /\ ~aborted /\ fsi \in Nat /\ \A p \in DOMAIN Archive : Archive[p].fsid \in Nat
      /\ \A p \in DOMAIN Archive : wanted(Archive[p]) => Archive[p].fsid # 0
  <2>1. \A p \in DOMAIN Archive : Archive[p].fsid \in Nat BY ArchiveItems, ArchiveAssumption
  <2>2. \A p \in DOMAIN Archive : wanted(Archive[p]) => Archive[p].fsid # 0
    BY RestoreAssumption DEF wanted
  <2> QED BY <2>1, <2>2, AnyStep, SoundFacts DEF RestoreTypeOK
<1>1. ASSUME NEW f, CameBelow(f), fsi' = f PROVE CameBelow(fsi)'
  <2>1. ASSUME NEW p \in DOMAIN Archive, wanted(Archive[p]), Archive[p].fsid < f
        PROVE  \E n \in DOMAIN got' : p <= origin'[n]
    <3>1. PICK n \in DOMAIN got : p <= origin[n] BY <1>1, <2>1 DEF CameBelow
    <3>2. n \in DOMAIN got' /\ origin'[n] = origin[n] BY GotGrows
    <3> QED BY <3>1, <3>2
  <2> QED BY <1>1, <2>1 DEF CameBelow, wanted
<1>2. InObjects \/ mainpc \in {"fs", "fsyb"} => CameBelow(fsi) BY <1>0 DEF CameInv, CameBelow
<1>3. CASE ~Main
  <2>1. UNCHANGED <<mainpc, fsi>> BY <1>3, OtherStep
  <2>2. CameBelow(fsi) BY <1>2, <2>1 DEF InObjects, InFile
  <2> QED BY <1>1, <2>1, <2>2
<1>4. CASE main_begin
  <2>1. fsi' = 1 BY <1>4 DEF main_begin
  <2>2. CameBelow(1)
    <3>1. \A p \in DOMAIN Archive : ~(wanted(Archive[p]) /\ Archive[p].fsid < 1) BY <1>0
    <3> QED BY <3>1 DEF CameBelow
  <2> QED BY <1>1, <2>1, <2>2
<1>5. CASE main_fs
  <2>1. CameBelow(fsi) BY <1>2, <1>5 DEF main_fs
  <2>2. CASE fsi' = fsi BY <1>1, <2>1, <2>2
  <2>3. CASE fsi' = fsi + 1 /\ fsi \notin fsbitmap
    <3>1. ASSUME NEW p \in DOMAIN Archive, wanted(Archive[p]), Archive[p].fsid < fsi + 1
          PROVE  Archive[p].fsid < fsi
      <4>1. Archive[p].fsid # fsi BY <2>3, <3>1 DEF wanted
      <4> QED BY <1>0, <3>1, <4>1
    <3>2. CameBelow(fsi + 1) BY <2>1, <3>1 DEF CameBelow
    <3> QED BY <1>1, <2>3, <3>2
  <2> QED BY <1>5, <2>2, <2>3 DEF main_fs
<1>6. CASE main_objend /\ Main
  <2>1. mainpc = "objend" /\ CameBelow(fsi) BY <1>2, <1>6 DEF main_objend, InObjects
  <2>2. /\ TakeHeader /\ fsi' = fsi + 1
    BY <1>6, RestoreAssumption DEF main_objend, Goto, Error, InObjects, InFile
  <2>3. got' # got
    <3>1. got' = Append(got, queue[1].info) /\ got \in Seq(Info) /\ queue[1].info \in Info
      <4>1. \A i \in DOMAIN queue : queue[i].info \in Info BY SoundFacts, ItemNumbers
      <4>2. 1 \in DOMAIN queue BY <2>2, SoundFacts, ItemNumbers DEF TakeHeader, queue_dequeue_header, HeadReady
      <4> QED BY <2>2, <4>1, <4>2, SoundFacts DEF TakeHeader, Taken, RestoreTypeOK
    <3>2. Len(got') = Len(got) + 1 BY <3>1, AppendShape
    <3> QED BY <3>2, Lengths
  <2>4. PICK g \in DOMAIN sent : g = Len(got) + 1 BY <1>6, <2>3, MainTakes
  <2>5. /\ sent[g].magic = "DATF" /\ origin[g] \in DOMAIN Archive
        /\ Archive[origin[g]].magic = "DATF" /\ (origin[g] = 1 \/ queued(Archive[origin[g]]))
    <3>1. sent[g].magic = "DATF" BY <1>0, <2>1, <2>4 DEF DatfInv
    <3> QED BY <3>1, SoundFacts, ItemOrigin
  <2>6. g \in DOMAIN got' /\ origin' = origin
    <3>1. Len(got') = g /\ origin' = origin BY <1>6, <2>3, <2>4, MainTakes
    <3>2. DOMAIN got' = 1 .. Len(got') BY DEF Sound, RestoreInv, RestoreTypeOK
    <3>3. Len(got) \in Nat BY Lengths
    <3>4. g \in 1 .. g BY ONLY <2>4, <3>3
    <3> QED BY <3>1, <3>2, <3>4
  <2>7. PICK d \in DOMAIN Archive : d = origin[g] BY <2>5
  <2>8. archtype = "FILESYSTEMS" /\ Archive[d].fsid # 0 /\ wanted(Archive[d])
    <3>1. archtype = "FILESYSTEMS" BY RestoreAssumption
    <3>2. Archive[d].fsid # 0 BY <2>5, <2>7, <3>1 DEF WholeArchive
    <3>3. queued(Archive[d]) BY <2>5, <2>7 DEF WholeArchive
    <3> QED BY <3>1, <3>2, <3>3 DEF queued
  <2>9. ~(Archive[d].fsid < fsi)
    <3>1. SUFFICES ASSUME Archive[d].fsid < fsi PROVE FALSE OBVIOUS
    <3>2. PICK n \in DOMAIN got : d <= origin[n] BY <2>1, <2>8, <3>1 DEF CameBelow
    <3>3. n \in 1 .. Len(sent) /\ n < g /\ g \in 1 .. Len(sent) BY <2>4, Lengths
    <3>4. origin[n] < origin[g] /\ origin[n] \in Nat /\ origin[g] \in Nat BY <3>3, Lengths
    <3> QED BY <2>7, <3>2, <3>4
  <2>10. ASSUME NEW p \in DOMAIN Archive, wanted(Archive[p]), Archive[p].fsid < fsi + 1
         PROVE  \E n \in DOMAIN got' : p <= origin'[n]
    <3>1. p <= d
      <4>1. SUFFICES ASSUME d < p PROVE FALSE BY ArchiveItems
      <4>2. Archive[p].fsid = 0 \/ Archive[p].fsid > Archive[d].fsid
        BY <2>5, <2>7, <2>8, <4>1 DEF WholeArchive
      <4> QED BY <1>0, <2>9, <2>10, <4>2
    <3> QED BY <2>6, <2>7, <3>1
  <2> QED BY <2>2, <2>10 DEF CameBelow, wanted
<1>7. CASE Main /\ ~main_begin /\ ~main_fs /\ ~main_objend
  <2>1. fsi' = fsi /\ (InObjects \/ mainpc \in {"fs", "fsyb"})
    BY <1>7 DEF Main, InObjects, InFile, Goto, Error, workvars,
       main_create_decomp, main_create_reader, main_mainhead, main_fsinfo, main_fsyb, main_peek,
       main_node, main_next, main_file_open, main_file_loop, main_file_block, main_file_footer,
       main_file_end, main_group_header, main_group_block, main_check, main_stop, main_wait,
       main_drain, main_destroy, main_join_decomp, main_join_reader
  <2> QED BY <1>1, <1>2, <2>1
<1> QED BY <1>3, <1>4, <1>5, <1>6, <1>7

\* At the end, everything that was asked for has come.
LEMMA AllCameStep ==
    ASSUME WholeArchive, Sound, Sound', PlaceInv, DatfInv, CameInv, [Next]_vars,
           oper # "ARCHINFO", NoneLost', ret' = 0,
           (mainpc' = "check" /\ ~aborted') \/ mainpc' = "stop" \/ Stopped'
    PROVE  AllCame'
<1>0. NoneLost /\ (aborted => aborted') /\ ret \in {0, -1} BY AnyStep, SoundFacts DEF RestoreTypeOK
<1>1. ASSUME AllCame PROVE AllCame'
  <2>1. ASSUME NEW p \in DOMAIN Archive, Archive[p].magic = "OBJT", wanted(Archive[p])
        PROVE  \E n \in DOMAIN got' : origin'[n] = p
    <3>1. PICK n \in DOMAIN got : origin[n] = p BY <1>1, <2>1 DEF AllCame
    <3>2. n \in DOMAIN got' /\ origin'[n] = origin[n] BY GotGrows
    <3> QED BY <3>1, <3>2
  <2> QED BY <2>1 DEF AllCame, wanted
<1>2. ASSUME ret = 0, (mainpc = "check" /\ ~aborted) \/ mainpc = "stop" \/ Stopped PROVE AllCame'
  <2>1. AllCame BY <1>0, <1>2 DEF CameInv
  <2> QED BY <1>1, <2>1
<1>3. CASE ~Main
  <2>1. UNCHANGED <<mainpc, ret>> BY <1>3, OtherStep
  <2> QED BY <1>0, <1>2, <2>1 DEF Stopped
<1>4. CASE main_fs /\ mainpc' = "check"
  <2>1. ~aborted BY <1>0, <1>4 DEF Stopped
  <2>2. mainpc = "fs" /\ fsi > fscount /\ oper = "RESTFS" /\ archtype = "FILESYSTEMS"
    <3>1. mainpc = "fs" /\ ~(fsi <= fscount) BY <1>4, <2>1 DEF main_fs, Goto
    <3>2. fsi \in Nat /\ fscount \in Nat BY SoundFacts, RestoreAssumption DEF RestoreTypeOK
    <3> QED BY <3>1, <3>2, RestoreAssumption DEF PlaceInv
  <2>3. ASSUME NEW p \in DOMAIN Archive, Archive[p].magic = "OBJT", wanted(Archive[p])
        PROVE  \E n \in DOMAIN got : origin[n] = p
    <3>1. Archive[p].fsid < fsi
      <4>1. Archive[p].fsid <= fscount BY <2>2 DEF WholeArchive
      <4>2. Archive[p].fsid \in Nat BY ArchiveItems, ArchiveAssumption
      <4>3. fsi \in Nat /\ fscount \in Nat BY SoundFacts, RestoreAssumption DEF RestoreTypeOK
      <4> QED BY ONLY <2>2, <4>1, <4>2, <4>3
    <3>2. PICK n \in DOMAIN got : p <= origin[n] BY <2>1, <2>2, <2>3, <3>1 DEF CameInv
    <3>3. n \in DOMAIN sent BY Lengths
    <3>4. queued(Archive[p]) BY <2>3 DEF queued
    <3>5. PICK m \in 1 .. n : origin[m] = p BY <1>0, <3>2, <3>3, <3>4, CameUpTo
    <3>6. m \in DOMAIN got BY <3>5, Lengths
    <3> QED BY <3>5, <3>6
  <2> QED BY <1>1, <2>3 DEF AllCame
<1>5. CASE main_objend /\ mainpc' = "check"
  <2>1. ~aborted BY <1>0, <1>5 DEF Stopped
  <2>2. mainpc = "objend" /\ archtype = "DIRECTORIES" BY <1>5 DEF main_objend, Goto, Error
  <2>3. PICK g \in DOMAIN sent : g = Len(got) + 1 /\ sent[g].magic = "DATF"
    <3>1. Len(got) < Len(sent) /\ sent[Len(got) + 1].magic = "DATF" BY <2>1, <2>2 DEF DatfInv
    <3>2. Len(got) + 1 \in 1 .. Len(sent) BY <3>1, Lengths
    <3> QED BY <3>1, <3>2, Lengths
  <2>4. origin[g] \in DOMAIN Archive /\ Archive[origin[g]].magic = "DATF"
    BY <2>3, SoundFacts, ItemOrigin
  <2>5. ASSUME NEW p \in DOMAIN Archive, Archive[p].magic = "OBJT", wanted(Archive[p])
        PROVE  \E n \in DOMAIN got : origin[n] = p
    <3>1. ~(origin[g] < p) BY <2>2, <2>4, <2>5 DEF WholeArchive
    <3>2. p <= origin[g] BY <2>4, <3>1, ArchiveItems
    <3>3. queued(Archive[p]) BY <2>5 DEF queued
    <3>4. PICK m \in 1 .. g : origin[m] = p BY <1>0, <3>2, <3>3, CameUpTo
    <3>5. m # g BY <2>4, <2>5, <3>4
    <3>6. m \in DOMAIN got
      <4>1. Len(got) \in Nat /\ DOMAIN got = 1 .. Len(got) BY Lengths
      <4>2. m \in 1 .. Len(got) BY ONLY <2>3, <3>4, <3>5, <4>1
      <4> QED BY <4>1, <4>2
    <3> QED BY <3>4, <3>6
  <2> QED BY <1>1, <2>5 DEF AllCame
<1>6. CASE Main /\ ~main_fs /\ ~main_objend
  <2>1. ret = 0 /\ ((mainpc = "check" /\ ~aborted) \/ mainpc = "stop" \/ Stopped)
    <3>1. CASE main_peek
      <4>1. ~(mainpc' \in {"node", "unique", "multi", "next", "peek", "objend"})
        BY DEF Stopped
      <4>2. \/ mainpc' = "stop" /\ ret' = -1
            \/ mainpc' \in {"next", "peek", "objend"}
            \/ mainpc' = queue[1].info.form /\ queue # <<>> /\ queue[1].info.magic = "OBJT"
        BY <3>1 DEF main_peek, Goto, Error, TakeHeader, queue_dequeue_header, HeadReady
      <4>3. queue # <<>> /\ queue[1].info.magic = "OBJT" =>
               queue[1].info.form \in {"node", "unique", "multi"}
        BY KindOfObject, SoundFacts DEF QueueInv
      <4> QED BY <4>1, <4>2, <4>3
    <3>2. CASE main_check
      BY <1>0, <3>2 DEF main_check, Goto, Error, get_interrupted, Stopped
    <3>3. CASE \/ main_create_decomp \/ main_create_reader \/ main_mainhead
               \/ main_fsinfo \/ main_begin \/ main_fsyb
      BY <3>3 DEF Stopped, Goto, Error, workvars, main_create_decomp, main_create_reader,
         main_mainhead, main_fsinfo, main_begin, main_fsyb
    <3>4. CASE \/ main_node \/ main_next \/ main_file_open \/ main_file_loop
               \/ main_file_block \/ main_file_footer \/ main_file_end
      BY <3>4 DEF Stopped, Goto, Error, workvars, main_node, main_next, main_file_open,
         main_file_loop, main_file_block, main_file_footer, main_file_end
    <3>5. CASE main_group_header
      BY <3>5 DEF Stopped, Goto, Error, main_group_header
    <3>6. CASE main_group_block
      <4>1. mainpc = "multi" /\ ((mainpc' = "next" /\ ret' = ret) \/ ret' = -1)
        BY <3>6 DEF Goto, Error, main_group_block, restore_files
      <4> QED BY <4>1 DEF Stopped
    <3>7. CASE \/ main_stop \/ main_wait \/ main_drain \/ main_destroy
               \/ main_join_decomp \/ main_join_reader
      BY <3>7 DEF Stopped, Goto, Error, workvars, main_stop, main_wait, main_drain,
         main_destroy, main_join_decomp, main_join_reader
    <3> QED BY <1>6, <3>1, <3>2, <3>3, <3>4, <3>5, <3>6, <3>7 DEF Main
  <2> QED BY <1>2, <2>1
<1>7. CASE (main_fs \/ main_objend) /\ mainpc' # "check"
  <2>1. FALSE BY <1>7 DEF main_fs, main_objend, Goto, Error, Stopped
  <2> QED BY <2>1
<1> QED BY <1>3, <1>4, <1>5, <1>6, <1>7

\* What is still to come
LEMMA CameStep ==
    ASSUME WholeArchive, Sound, Sound', PlaceInv, DatfInv, CameInv, [Next]_vars
    PROVE  CameInv'
<1>1. ASSUME oper = "RESTFS", ~aborted', InObjects' \/ mainpc' \in {"fs", "fsyb"}
      PROVE  CameBelow(fsi)'
  BY <1>1, BelowStep
<1>2. ASSUME oper # "ARCHINFO", NoneLost', ret' = 0,
             (mainpc' = "check" /\ ~aborted') \/ mainpc' = "stop" \/ Stopped'
      PROVE  AllCame'
  BY <1>2, AllCameStep
<1> QED BY <1>1, <1>2 DEF CameInv, CameBelow

-----------------------------------------------------------------------------
(* The whole *)

\* The reader at the beginning of the first volume, the main thread before its
\* first item
LEMMA WholeInitInv == ASSUME WholeArchive, Init PROVE WholeInv
<1> USE DEF Init
<1>1. ReaderEndInv BY DEF ReaderEndInv, Ended
<1>2. FlowInv BY DEF FlowInv, InFile
<1>3. NotRemovedInv BY DEF NotRemovedInv, InFile, ThreadsInit
<1>4. ExcludedIsUntouched BY DEF ExcludedIsUntouched
<1>5. PlaceInv BY DEF PlaceInv, InObjects, InFile
<1>6. SettledInv
  <2>1. \A n : n \notin DOMAIN got OBVIOUS
  <2>2. TakenObjs = {} BY <2>1 DEF TakenObjs
  <2> QED BY <2>2 DEF SettledInv
<1>7. DatfInv BY DEF DatfInv
<1>8. CameInv BY DEF CameInv, InObjects, InFile, Stopped
<1> QED BY <1>1, <1>2, <1>3, <1>4, <1>5, <1>6, <1>7, <1>8 DEF WholeInv

\* One step of the whole
LEMMA WholeNextInv ==
    ASSUME WholeArchive, Sound, Sound', WholeInv, [Next]_vars PROVE WholeInv'
<1>0. /\ ReaderEndInv /\ FlowInv /\ NotRemovedInv /\ ExcludedIsUntouched /\ PlaceInv
      /\ SettledInv /\ DatfInv /\ CameInv
  BY DEF WholeInv
<1>1. ReaderEndInv' /\ FlowInv' /\ NotRemovedInv' /\ ExcludedIsUntouched'
  BY <1>0, ReaderEndStep, FlowStep, NotRemovedStep, ExcludedStep
<1>2. PlaceInv' /\ SettledInv' /\ DatfInv' /\ CameInv'
  BY <1>0, PlaceStep, SettledStep, DatfStep, CameStep
<1> QED BY <1>1, <1>2 DEF WholeInv

\* If the archive is that of a whole save, what the main thread takes follows the
\* archive: the inductive invariant behind the theorems below.
THEOREM RestoreFollowsArchive == WholeArchive => (Spec => [](Sound /\ WholeInv))
<1> SUFFICES ASSUME WholeArchive PROVE Spec => [](Sound /\ WholeInv) OBVIOUS
<1>1. Init => WholeInv BY WholeInitInv
<1>2. Sound /\ Sound' /\ WholeInv /\ [Next]_vars => WholeInv' BY WholeNextInv
<1>3. Spec => []Sound BY RestoreCorrect DEF Sound
<1> HIDE DEF Init, Next, WholeInv, Sound
<1> QED BY <1>1, <1>2, <1>3, PTL DEF Spec

\* The state at the end of a restoration without damage
LEMMA EndIsWhole ==
    ASSUME WholeArchive, Sound, WholeInv PROVE CleanRestoreIsWhole
<1> SUFFICES ASSUME mainpc = "done", exitstatus = 0, damaged = {}, oper # "ARCHINFO",
                    NEW o \in Requested
             PROVE  disk[o] = "good"
  BY DEF CleanRestoreIsWhole
<1>1. ret = 0 /\ ~totalerr BY DEF exitstatus
<1>2. NoneLost /\ Stopped BY DEF NoneLost, Stopped
<1>3. PICK p \in DOMAIN Archive : /\ Archive[p].magic = "OBJT" /\ wanted(Archive[p])
                                  /\ o = Archive[p].obj /\ o \notin Excluded
  BY DEF Requested
<1>4. PICK n \in DOMAIN got : origin[n] = p BY <1>1, <1>2, <1>3 DEF WholeInv, CameInv, AllCame
<1>5. n \in DOMAIN sent /\ got[n] \in Unpacked(sent[n]) BY Lengths, SoundFacts DEF GotIsSent
<1>6. Alike(got[n], Archive[p]) BY <1>4, <1>5, TakenIsAlike
<1>7. o \in TakenObjs BY <1>3, <1>6 DEF TakenObjs, Alike
<1>8. ~AtWork(o) /\ errors = 0
  <2>1. ~InObjects BY DEF InObjects, InFile
  <2> QED BY <1>1, <2>1 DEF AtWork, InFile, WholeInv, PlaceInv
<1>9. o \in counted BY <1>1, <1>2, <1>3, <1>7, <1>8 DEF WholeInv, SettledInv
<1>10. disk[o] = "good" \/ Usurped(o) BY <1>9, SoundFacts DEF WorkOK, CountedGood
<1> QED BY <1>10 DEF Usurped

\* If no item of the archive is damaged and oper_restore() reports success, every
\* object that was asked for is there, with its contents: for every archive of a
\* whole save, every exclusion and every fault of the call.
THEOREM CleanRestoresAll == WholeArchive => (Spec => []CleanRestoreIsWhole)
<1> SUFFICES ASSUME WholeArchive PROVE Spec => []CleanRestoreIsWhole OBVIOUS
<1>1. Sound /\ WholeInv => CleanRestoreIsWhole BY EndIsWhole
<1>2. Spec => [](Sound /\ WholeInv) BY RestoreFollowsArchive
<1> QED BY <1>1, <1>2, PTL

\* What the user has excluded is neither written nor removed, as long as every
\* item of a whole archive gets to the main thread.
THEOREM ExclusionIsRespected == WholeArchive => (Spec => []ExcludedIsUntouched)
<1> SUFFICES ASSUME WholeArchive PROVE Spec => []ExcludedIsUntouched OBVIOUS
<1>1. Spec => [](Sound /\ WholeInv) BY RestoreFollowsArchive
<1> QED BY <1>1, PTL DEF WholeInv

-----------------------------------------------------------------------------
(* What damage to the data costs *)

\* What does not go wrong
LEMMA NoOtherFault ==
    ASSUME OnlyData
    PROVE  /\ ~Fault("abort") /\ ~Fault("pthread") /\ ~Fault("usage") /\ ~Fault("mkfs")
           /\ ~Fault("open") /\ ~Fault("attr") /\ ~Fault("write") /\ ~Fault("header")
           /\ ~Fault("io") /\ ~Fault("missing") /\ ~Fault("unpack") /\ ~Fault("comp")
           /\ NoneLost
BY DEF OnlyData, Fault, NoneLost

\* The blocks of an archive are packed, and an unpacked one is as it was saved.
LEMMA PackedBlock ==
    ASSUME SoundArchive, NEW p \in DOMAIN Archive, Archive[p].magic = "BLKH"
    PROVE  /\ Archive[p].form = "packed"
           /\ \A x \in Unpacked(Archive[p]) :
                 /\ x.form = "clear" => x = Block(Archive[p].fsid, Archive[p].obj, Archive[p].off)
                 /\ x.form = "clear" => Archive[p] = [x EXCEPT !.form = "packed"]
<1>1. PICK y : y = Archive[p] OBVIOUS
<1>2. y = [Block(y.fsid, y.obj, y.off) EXCEPT !.form = "packed"] BY <1>1 DEF SoundArchive
<1>3. y.form = "packed" BY <1>2 DEF Block, Header
<1>4. ASSUME NEW x \in Unpacked(y), x.form = "clear" PROVE x = [y EXCEPT !.form = "clear"]
  <2>1. x = [y EXCEPT !.form = "clear"] \/ x = [y EXCEPT !.form = "zeroed"]
    BY <1>3 DEF Unpacked, decompress_block_generic
  <2>2. [y EXCEPT !.form = "zeroed"].form = "zeroed" BY <1>2 DEF Block, Header
  <2> QED BY <1>4, <2>1, <2>2
<1>5. ASSUME NEW x \in Unpacked(y), x.form = "clear"
      PROVE  x = Block(y.fsid, y.obj, y.off) /\ y = [x EXCEPT !.form = "packed"]
  <2>1. PICK a, b, c : a = y.fsid /\ b = y.obj /\ c = y.off OBVIOUS
  <2>2. y = [Block(a, b, c) EXCEPT !.form = "packed"] BY <1>2, <2>1
  <2>3. x = [y EXCEPT !.form = "clear"] BY <1>4, <1>5
  <2>4. x = Block(a, b, c) /\ y = [x EXCEPT !.form = "packed"] BY <2>2, <2>3 DEF Block, Header
  <2> QED BY <2>1, <2>4
<1> QED BY <1>1, <1>3, <1>5

\* The headers before the file systems
LEMMA HeadsFirst ==
    ASSUME SoundArchive
    PROVE  /\ Heads \in Nat /\ Heads < Len(Archive) /\ Archive[1].magic = "MAIN" /\ Archive[1].fsid = 0
           /\ \A p \in 2 .. Heads + 1 :
                 /\ p \in DOMAIN Archive /\ Archive[p].fsid = 0 /\ queued(Archive[p])
                 /\ Archive[p].magic = IF archtype = "FILESYSTEMS" THEN "FSIN" ELSE "DIRS"
           /\ \A p \in DOMAIN Archive : p <= Heads + 1 => Archive[p].fsid = 0
<1>1. Heads \in Nat BY RestoreAssumption DEF Heads
<1>2. Heads < Len(Archive) /\ Archive[1].magic = "MAIN" BY DEF SoundArchive, WholeArchive
<1>3. \A p \in DOMAIN Archive : p <= Heads + 1 => Archive[p].fsid = 0 BY DEF SoundArchive
<1>4. \A p \in DOMAIN Archive : p \in 2 .. Heads + 1 =>
         Archive[p].magic = IF archtype = "FILESYSTEMS" THEN "FSIN" ELSE "DIRS"
  BY DEF SoundArchive
<1>5. 1 \in DOMAIN Archive /\ Archive[1].fsid = 0
  <2>1. 1 \in DOMAIN Archive BY ArchiveItems
  <2>2. 1 <= Heads + 1 BY <1>1
  <2> QED BY <1>3, <2>1, <2>2
<1>6. ASSUME NEW p \in 2 .. Heads + 1
      PROVE  /\ p \in DOMAIN Archive /\ Archive[p].fsid = 0 /\ queued(Archive[p])
             /\ Archive[p].magic = IF archtype = "FILESYSTEMS" THEN "FSIN" ELSE "DIRS"
  <2>1. p \in DOMAIN Archive /\ p <= Heads + 1
    <3>1. Len(Archive) \in Nat /\ DOMAIN Archive = 1 .. Len(Archive) BY ArchiveItems
    <3> QED BY <1>1, <1>2, <3>1
  <2> QED BY <1>3, <1>4, <2>1 DEF queued
<1> QED BY <1>1, <1>2, <1>3, <1>5, <1>6

\* Only blocks are damaged.
LEMMA DamageStep ==
    ASSUME OnlyData, Sound, \A p \in damaged : Archive[p].magic = "BLKH", [Next]_vars
    PROVE  \A p \in damaged' : Archive[p].magic = "BLKH"
<1>1. CASE Main BY <1>1, MainTakes
<1>2. CASE Reader
  BY <1>2, NoOtherFault DEF Reader, reader_start, reader_open, reader_add, reader_read,
     reader_skip_damaged, reader_zero_damaged, reader_give_up, reader_volume, reader_end, reader_exit
<1>3. CASE ~Main /\ ~Reader
  BY <1>3 DEF Next, Decomp, User, Terminated, vars, readervars
<1> QED BY <1>1, <1>2, <1>3

\* The last conjunct of ClearInv, for one item
Clear(item) ==
    item.type = "BLOCK" /\ item.status = "DONE" =>
        item.info.form = "clear" \/ origin[item.itemnum] \in damaged
AllClear == \A i \in DOMAIN queue : Clear(queue[i])

\* A block that is not damaged is packed in the archive,
LEMMA ClearAdd ==
    ASSUME SoundArchive, Sound, Sound', OnlyData, ClearInv, reader_add, Reader
    PROVE  AllClear'
<1>0. /\ QueueInv /\ RestoreTypeOK /\ QueueHoldsSent /\ ObjectsComeOnce /\ OriginInv
  BY SoundFacts
<1>n. /\ queue \in Seq(Item) /\ Len(queue) \in Nat /\ DOMAIN queue = 1 .. Len(queue)
      /\ sent \in Seq(Info) /\ Len(sent) \in Nat /\ DOMAIN sent = 1 .. Len(sent)
      /\ curitemnum = Len(sent) + 1
      /\ \A i \in DOMAIN queue : queue[i].itemnum \in DOMAIN sent
  BY <1>0, ItemNumbers
<1>1. PICK item \in Item : /\ queue' = Append(queue, item) /\ item.itemnum = Len(sent) + 1
                           /\ item.info = ritem
                           /\ item.type = "BLOCK" => ritem.magic = "BLKH"
                           /\ item.type = "BLOCK" /\ item.status = "DONE" => ritem.form # "packed"
  <2>0. ritem \in Info BY <1>0 DEF reader_add, ObjectsComeOnce
  <2>1. CASE ritem.magic # "BLKH"
    <3> DEFINE item == [type |-> "HEADER", status |-> "DONE", itemnum |-> curitemnum, info |-> ritem]
    <3>1. item \in Item BY <1>n, <2>0 DEF Item, Status
    <3>2. queue' = Append(queue, item) BY <2>1 DEF reader_add, queue_add_header
    <3> QED BY <1>n, <2>1, <3>1, <3>2
  <2>2. CASE ritem.magic = "BLKH"
    <3> DEFINE status == IF ritem.form = "packed" THEN "TODO" ELSE "DONE"
               item == [type |-> "BLOCK", status |-> status, itemnum |-> curitemnum, info |-> ritem]
    <3>1. item \in Item BY <1>n, <2>0 DEF Item, Status
    <3>2. queue' = Append(queue, item) BY <2>2 DEF reader_add, queue_add_block
    <3> QED BY <1>n, <2>2, <3>1, <3>2
  <2> QED BY <2>1, <2>2
<1>2. /\ DOMAIN queue' = 1 .. Len(queue) + 1
      /\ \A i \in 1 .. Len(queue) : queue'[i] = queue[i]
      /\ queue'[Len(queue) + 1] = item
  BY <1>n, <1>1, AppendShape
<1>3. /\ damaged' = damaged /\ Len(origin) = Len(sent)
      /\ \A n \in 1 .. Len(sent) : origin'[n] = origin[n]
      /\ origin'[Len(sent) + 1] = pos - 1
  <2>1. Len(origin) = Len(sent) /\ origin \in Seq(DOMAIN Archive) /\ pos - 1 \in DOMAIN Archive
    BY <1>0 DEF OriginInv, RestoreTypeOK, reader_add
  <2>2. origin' = Append(origin, pos - 1) /\ damaged' = damaged BY DEF reader_add
  <2> QED BY <2>1, <2>2, AppendShape
<1>4. ritem.magic = "BLKH" /\ ritem.form # "packed" => pos - 1 \in damaged
  <2>1. pos - 1 \in DOMAIN Archive /\ ComesFrom(ritem, pos - 1) BY <1>0 DEF reader_add, OriginInv
  <2>2. PICK p \in DOMAIN Archive : p = pos - 1 BY <2>1
  <2>3. ritem = Archive[p] \/ p \in damaged BY <2>1, <2>2 DEF ComesFrom
  <2>4. Archive[p].magic = "BLKH" => Archive[p].form = "packed" BY PackedBlock
  <2> QED BY <2>2, <2>3, <2>4
<1>5. ASSUME NEW i \in DOMAIN queue', NEW y, y = queue'[i] PROVE Clear(y)'
  <2>1. CASE i \in DOMAIN queue
    <3>1. PICK x : x = queue[i] OBVIOUS
    <3>2. Clear(x) /\ x.itemnum \in 1 .. Len(sent) BY <1>n, <2>1, <3>1 DEF ClearInv, Clear
    <3>3. queue'[i] = x BY <1>n, <1>2, <2>1, <3>1
    <3>4. origin'[x.itemnum] = origin[x.itemnum] BY <1>3, <3>2
    <3> QED BY <1>3, <1>5, <3>2, <3>3, <3>4 DEF Clear
  <2>2. CASE i = Len(queue) + 1
    <3>1. queue'[i] = item BY <1>2, <2>2
    <3> QED BY <1>1, <1>3, <1>4, <1>5, <3>1 DEF Clear
  <2> QED BY <1>n, <1>2, <2>1, <2>2
<1> QED BY <1>5 DEF AllClear, Clear

\* and a thread unpacks it.
LEMMA ClearStep ==
    ASSUME SoundArchive, Sound, Sound', OnlyData, ClearInv, [Next]_vars
    PROVE  ClearInv'
<1>0. /\ QueueInv /\ RestoreTypeOK /\ EndsInv /\ QueueHoldsSent /\ ObjectsComeOnce /\ OriginInv
  BY SoundFacts
<1>n. /\ queue \in Seq(Item) /\ Len(queue) \in Nat /\ DOMAIN queue = 1 .. Len(queue)
      /\ DOMAIN sent = 1 .. Len(sent)
      /\ \A i \in DOMAIN queue : queue[i].itemnum \in DOMAIN sent
  BY <1>0, ItemNumbers
<1>1. \A p \in damaged' : Archive[p].magic = "BLKH" BY DamageStep DEF ClearInv
<1>2. SUFFICES AllClear' BY <1>1 DEF ClearInv, AllClear, Clear
<1>3. damaged \subseteq damaged' /\ \A n \in 1 .. Len(sent) : origin'[n] = origin[n] BY AnyStep
<1>4. ASSUME NEW i \in DOMAIN queue, NEW x, x.type = queue[i].type, x.itemnum = queue[i].itemnum,
             x.status = "DONE" => queue[i].status = "DONE", x.info = queue[i].info
      PROVE  Clear(x)'
  <2>1. Clear(queue[i]) /\ queue[i].itemnum \in 1 .. Len(sent) BY <1>n DEF ClearInv, Clear
  <2>2. origin'[x.itemnum] = origin[queue[i].itemnum] BY <1>3, <1>4, <2>1
  <2> QED BY <1>3, <1>4, <2>1, <2>2 DEF Clear
<1>5. CASE queue' = queue
  <2>1. ASSUME NEW i \in DOMAIN queue', NEW y, y = queue'[i] PROVE Clear(y)' BY <1>4, <1>5, <2>1
  <2> QED BY <2>1 DEF AllClear, Clear
<1>6. CASE queue # <<>> /\ RemoveHead
  <2>1. /\ DOMAIN queue' = 1 .. Len(queue) - 1
        /\ \A i \in 1 .. Len(queue) - 1 : queue'[i] = queue[i + 1]
    BY <1>n, <1>6, TailShape DEF RemoveHead
  <2>2. ASSUME NEW i \in DOMAIN queue', NEW y, y = queue'[i] PROVE Clear(y)'
    <3>1. PICK j \in DOMAIN queue : queue'[i] = queue[j]
      <4>1. i + 1 \in DOMAIN queue /\ queue'[i] = queue[i + 1] BY <1>n, <2>1
      <4> QED BY <4>1
    <3> QED BY <1>4, <2>2, <3>1
  <2> QED BY <2>2 DEF AllClear, Clear
<1>7. CASE reader_add /\ Reader BY <1>7, ClearAdd
<1>8. ASSUME NEW t \in CompThreads, thread_comp_take(t) PROVE AllClear'
  <2>1. PICK k \in DOMAIN queue : queue_get_first_block_todo(k) BY <1>8 DEF thread_comp_take
  <2>2. queue' = [queue EXCEPT ![k].status = "PROGRESS"] BY <2>1 DEF queue_get_first_block_todo
  <2>3. ASSUME NEW i \in DOMAIN queue'
        PROVE  /\ i \in DOMAIN queue /\ queue'[i].itemnum = queue[i].itemnum
               /\ queue'[i].type = queue[i].type /\ queue'[i].info = queue[i].info
               /\ queue'[i].status = "DONE" => queue[i].status = "DONE"
    <3>1. i \in DOMAIN queue BY <2>2
    <3>2. queue[i] \in Item BY <1>n, <3>1
    <3> QED BY <2>2, <3>1, <3>2 DEF Item
  <2>4. ASSUME NEW i \in DOMAIN queue', NEW y, y = queue'[i] PROVE Clear(y)'
    <3>1. i \in DOMAIN queue BY <2>3, <2>4
    <3> QED BY <1>4, <2>3, <2>4, <3>1
  <2> QED BY <2>4 DEF AllClear, Clear
<1>9. ASSUME NEW t \in CompThreads, NEW info, info.form = "clear",
             queue_replace_block(blknum[t], info, "DONE")
      PROVE  AllClear'
  <2>1. ASSUME NEW i \in DOMAIN queue'
        PROVE  i \in DOMAIN queue /\ (queue'[i] = queue[i] \/ queue'[i].info = info)
    <3>1. i \in DOMAIN queue /\ queue'[i] = IF queue[i].itemnum = blknum[t]
             THEN [queue[i] EXCEPT !.status = "DONE", !.info = info] ELSE queue[i]
      BY <1>9 DEF queue_replace_block
    <3>2. queue[i] \in Item BY <1>n, <3>1
    <3> QED BY <3>1, <3>2 DEF Item
  <2>2. ASSUME NEW i \in DOMAIN queue', NEW y, y = queue'[i] PROVE Clear(y)'
    <3>1. CASE y = queue[i] BY <1>4, <2>1, <2>2, <3>1
    <3>2. CASE y.info = info BY <1>9, <3>2 DEF Clear
    <3> QED BY <2>1, <2>2, <3>1, <3>2
  <2> QED BY <2>2 DEF AllClear, Clear
<1>10. CASE Main
  <2>1. MainKind BY <1>0, <1>10, MainStep
  <2>2. (queue # <<>> /\ RemoveHead) \/ queue' = queue
    BY <2>1 DEF MainKind, Takes, Drops, Keeps, create_comp, queue_destroy_first_item, queuevars
  <2> QED BY <1>5, <1>6, <2>2
<1>11. CASE Reader /\ ~reader_add
  <2>1. queue' = queue
    BY <1>11 DEF Reader, queuevars, reader_start, reader_open, reader_read, reader_skip_damaged,
       reader_zero_damaged, reader_give_up, reader_volume, reader_end, reader_exit, queue_set_end_of_queue
  <2> QED BY <1>5, <2>1
<1>12. ASSUME NEW t \in CompThreads, Decomp(t) PROVE AllClear'
  <2> DEFINE R == {r \in decompress_block_generic(blkinfo[t]) : r.form = "clear" \/ Fault("unpack")}
  <2>1. CASE thread_comp_put(t, R)
    <3>1. \A r \in R : r.form = "clear" BY NoOtherFault
    <3> HIDE DEF R
    <3>2. PICK r \in R : queue_replace_block(blknum[t], r, "DONE") BY <2>1 DEF thread_comp_put
    <3> QED BY <1>9, <3>1, <3>2
  <2>2. CASE thread_comp_take(t) BY <1>8, <2>2
  <2>3. CASE ~thread_comp_put(t, R) /\ ~thread_comp_take(t)
    <3>1. queue' = queue
      BY <1>12, <2>3 DEF Decomp, thread_comp_start, thread_comp_exit, thread_comp_error, queuevars
    <3> QED BY <1>5, <3>1
  <2> QED BY <2>1, <2>2, <2>3
<1>13. CASE User \/ UNCHANGED vars
  BY <1>5, <1>13 DEF User, Signal, vars, queuevars
<1> QED BY <1>7, <1>10, <1>11, <1>12, <1>13 DEF Next, Terminated
-----------------------------------------------------------------------------
(* The item that comes next *)

\* The item at position r of the archive is the next one after position p that
\* is queued.
NextQueued(p, r) ==
    /\ r \in DOMAIN Archive /\ p < r /\ queued(Archive[r])
    /\ \A x \in p + 1 .. r - 1 : ~queued(Archive[x])

\* The main thread gets it, if it looks for an item.
Comes(r) ==
    /\ r \in DOMAIN Archive
    /\ ~queue_get_end_of_queue
    /\ HeadReady => /\ Len(got) + 1 \in DOMAIN sent /\ origin[Len(got) + 1] = r
                    /\ queue[1].info \in Unpacked(sent[Len(got) + 1])
                    /\ queue[1].type = IF Archive[r].magic = "BLKH" THEN "BLOCK" ELSE "HEADER"

\* Where the last item was
LEMMA LastItem ==
    ASSUME Sound
    PROVE  /\ LastPos \in Nat
           /\ \A n \in DOMAIN got : origin[n] \in Nat /\ origin[n] <= LastPos
           /\ got # <<>> => /\ Len(got) > 0 /\ Len(got) \in DOMAIN sent
                            /\ LastPos = origin[Len(got)] /\ LastPos \in DOMAIN Archive
<1>1. CASE got = <<>> BY <1>1 DEF LastPos
<1>2. CASE got # <<>>
  <2>1. got \in Seq(Info) BY SoundFacts DEF RestoreTypeOK
  <2>2. Len(got) > 0 BY <1>2, <2>1
  <2>3. PICK g \in 1 .. Len(sent) : g = Len(got)
    <3>1. Len(got) \in 1 .. Len(sent) BY <2>2, Lengths
    <3> QED BY <3>1
  <2>4. LastPos = origin[g] BY <1>2, <2>3 DEF LastPos
  <2>5. \A n \in DOMAIN got : n \in 1 .. Len(sent) /\ (n < g \/ n = g) BY <2>3, Lengths
  <2>6. \A n \in DOMAIN got : origin[n] \in Nat /\ origin[n] <= origin[g] BY <2>3, <2>5, Lengths
  <2> QED BY <2>2, <2>3, <2>4, <2>6, Lengths
<1> QED BY <1>1, <1>2

\* The archive is read to its end, and the items come in its order.
LEMMA NextComes ==
    ASSUME SoundArchive, Sound, ReaderEndInv, OnlyData, ~Stopped, NEW r, NextQueued(LastPos, r)
    PROVE  Comes(r)
<1>0. QueueInv /\ RestoreTypeOK /\ EndsInv /\ OriginInv /\ NoneLost /\ ~stopfillqueue
  BY SoundFacts, NoOtherFault DEF EndsInv
<1>1. /\ r \in DOMAIN Archive /\ r \in Nat /\ LastPos < r /\ queued(Archive[r]) /\ LastPos \in Nat
      /\ \A x \in LastPos + 1 .. r - 1 : ~queued(Archive[x])
      /\ \A n \in DOMAIN got : origin[n] # r
  BY LastItem, ArchiveItems DEF NextQueued
<1>2. ~queue_get_end_of_queue
  <2>1. SUFFICES ASSUME queue_get_end_of_queue PROVE FALSE OBVIOUS
  <2>2. endofqueue /\ Len(got) = Len(sent) BY <2>1, NothingLeft
  <2>3. Ended /\ readerpc # "add" BY <1>0, <2>2 DEF EndsInv, Ended
  <2>4. pos > Len(Archive) BY <1>0, <2>3, NoOtherFault DEF ReaderEndInv
  <2>5. r \in 1 .. pos - 1
    <3>1. Len(Archive) \in Nat /\ r \in 1 .. Len(Archive) /\ pos \in Int
      BY <1>0, <1>1, ArchiveItems DEF RestoreTypeOK
    <3> QED BY ONLY <2>4, <3>1
  <2>6. PICK n \in DOMAIN origin : origin[n] = r BY <1>0, <1>1, <2>3, <2>5, NoOtherFault DEF OriginInv
  <2>7. n \in DOMAIN got BY <2>2, <2>6, Lengths
  <2> QED BY <1>1, <2>6, <2>7
<1>3. ASSUME HeadReady PROVE origin[Len(got) + 1] = r
  <2>1. PICK g \in DOMAIN sent : g = Len(got) + 1 BY <1>3, HeadIsNext DEF HeadReady
  <2>2. g \in 1 .. Len(sent) /\ origin[g] \in Nat /\ g \in DOMAIN origin /\ origin[g] >= 1
    BY <2>1, Lengths, ArchiveItems
  <2>3. LastPos < origin[g]
    <3>1. CASE got = <<>> BY <2>2, <3>1 DEF LastPos
    <3>2. CASE got # <<>>
      <4>1. PICK l \in 1 .. Len(sent) : l = Len(got) /\ LastPos = origin[l] BY <3>2, LastItem, Lengths
      <4>2. l < g BY <2>1, <4>1
      <4> QED BY <2>2, <4>1, <4>2, Lengths
    <3> QED BY <3>1, <3>2
  <2>4. queued(Archive[origin[g]])
    <3>1. origin[g] = 1 \/ queued(Archive[origin[g]]) BY <1>0, <2>2 DEF OriginInv
    <3>2. queued(Archive[1])
      <4>1. Archive[1].magic = "MAIN" BY DEF SoundArchive, WholeArchive
      <4>4. Archive[1].fsid = 0 BY HeadsFirst
      <4> QED BY <4>1, <4>4 DEF queued
    <3> QED BY <3>1, <3>2
  <2>5. ~(origin[g] < r)
    <3>1. SUFFICES ASSUME origin[g] < r PROVE FALSE OBVIOUS
    <3>2. origin[g] \in LastPos + 1 .. r - 1 BY <1>1, <2>2, <2>3, <3>1
    <3> QED BY <1>1, <2>4, <3>2
  <2>6. ~(r < origin[g])
    <3>1. SUFFICES ASSUME r < origin[g] PROVE FALSE OBVIOUS
    <3>2. PICK m \in 1 .. g : origin[m] = r BY <1>0, <1>1, <2>1, <2>2, <3>1, CameUpTo
    <3>3. m # g BY <3>1, <3>2, <1>1
    <3>4. m \in DOMAIN got
      <4>1. Len(got) \in Nat /\ DOMAIN got = 1 .. Len(got) BY Lengths
      <4>2. m \in 1 .. Len(got) BY ONLY <2>1, <3>2, <3>3, <4>1
      <4> QED BY <4>1, <4>2
    <3> QED BY <1>1, <3>2, <3>4
  <2> QED BY <1>1, <2>1, <2>2, <2>5, <2>6
<1>4. ASSUME HeadReady
      PROVE  /\ Len(got) + 1 \in DOMAIN sent /\ queue[1].info \in Unpacked(sent[Len(got) + 1])
             /\ queue[1].type = IF Archive[r].magic = "BLKH" THEN "BLOCK" ELSE "HEADER"
  <2>1. PICK g \in DOMAIN sent : g = Len(got) + 1 BY <1>4, HeadIsNext DEF HeadReady
  <2>2. /\ queue[1].type = "BLOCK" <=> sent[g].magic = "BLKH"
        /\ queue[1].info \in Unpacked(sent[g])
    BY <1>4, <2>1, HeadIsNext DEF HeadReady
  <2>3. Alike(sent[g], Archive[r]) BY <1>3, <1>4, <2>1, <2>2, TakenIsAlike
  <2>4. queue[1].type \in {"BLOCK", "HEADER"}
    <3>1. queue \in Seq(Item) BY <1>0 DEF QueueInv, QueueTypeOK
    <3>2. queue[1] \in Item BY <1>4, <3>1, TailShape DEF HeadReady
    <3> QED BY <3>2 DEF Item
  <2> QED BY <2>1, <2>2, <2>3, <2>4 DEF Alike
<1> QED BY <1>1, <1>2, <1>3, <1>4 DEF Comes

\* The item that is taken is the one that comes.
LEMMA LastMoves ==
    ASSUME Sound, Main, NEW r, Comes(r), HeadReady, got' = Append(got, queue[1].info)
    PROVE  LastPos' = r /\ got' # <<>> /\ Len(got') > 0 /\ r \in Nat
<1>1. /\ Len(got) + 1 \in DOMAIN sent /\ origin[Len(got) + 1] = r /\ r \in DOMAIN Archive BY DEF Comes
<1>2. got \in Seq(Info) /\ queue[1].info \in Info /\ origin' = origin
  <2>1. \A i \in DOMAIN queue : queue[i].info \in Info BY SoundFacts, ItemNumbers
  <2>2. 1 \in DOMAIN queue BY SoundFacts, ItemNumbers DEF HeadReady
  <2> QED BY <2>1, <2>2, MainTakes, SoundFacts DEF RestoreTypeOK
<1>3. Len(got') = Len(got) + 1 BY <1>2, AppendShape
<1>4. got' # <<>>
  <2>1. Len(got) + 1 # 0 BY Lengths
  <2> QED BY <1>3, <2>1
<1> QED BY <1>1, <1>2, <1>3, <1>4, ArchiveItems, Lengths DEF LastPos

\* queue_dequeue_header() returns the header that comes,
LEMMA HeaderComes ==
    ASSUME Sound, Main, NEW r, Comes(r), Archive[r].magic # "BLKH"
    PROVE  /\ ~DequeueFails("HEADER")
           /\ HeadReady => queue[1].info = Archive[r]
           /\ TakeHeader => /\ queue[1].info = Archive[r] /\ LastPos' = r /\ got' # <<>>
                            /\ Len(got') > 0 /\ r \in Nat
<1>1. ~DequeueFails("HEADER") BY DEF Comes, DequeueFails
<1>2. ASSUME HeadReady PROVE queue[1].info = Archive[r]
  <2>1. PICK g \in DOMAIN sent : g = Len(got) + 1 /\ origin[g] = r BY <1>2 DEF Comes
  <2>2. PICK x : x = queue[1].info OBVIOUS
  <2>3. x \in Unpacked(sent[g]) BY <1>2, <2>1, <2>2 DEF Comes
  <2>4. Alike(x, Archive[r]) /\ (x.magic # "BLKH" => x = Archive[r]) BY <2>1, <2>3, TakenIsAlike
  <2> QED BY <2>2, <2>4 DEF Alike
<1>3. ASSUME TakeHeader
      PROVE queue[1].info = Archive[r] /\ LastPos' = r /\ got' # <<>> /\ Len(got') > 0 /\ r \in Nat
  <2>1. HeadReady /\ got' = Append(got, queue[1].info)
    BY <1>3 DEF TakeHeader, queue_dequeue_header, Taken
  <2> QED BY <1>2, <2>1, LastMoves
<1> QED BY <1>1, <1>2, <1>3

\* and queue_dequeue_block() the block, as it was saved if it was not damaged.
LEMMA BlockComes ==
    ASSUME SoundArchive, Sound, Main, ClearInv, NEW r, Comes(r), Archive[r].magic = "BLKH"
    PROVE  /\ ~DequeueFails("BLOCK")
           /\ TakeBlock => /\ LastPos' = r /\ got' # <<>> /\ Len(got') > 0 /\ r \in Nat
                           /\ queue[1].info \in Info
                           /\ Alike(queue[1].info, Archive[r])
                           /\ r \notin damaged =>
                                 /\ queue[1].info = Block(Archive[r].fsid, Archive[r].obj, Archive[r].off)
                                 /\ queue[1].info.form = "clear"
                                 /\ Archive[r] = [queue[1].info EXCEPT !.form = "packed"]
<1>1. ~DequeueFails("BLOCK") BY DEF Comes, DequeueFails
<1> SUFFICES ASSUME TakeBlock
             PROVE  /\ LastPos' = r /\ got' # <<>> /\ Len(got') > 0 /\ r \in Nat
                    /\ queue[1].info \in Info
                    /\ Alike(queue[1].info, Archive[r])
                    /\ r \notin damaged =>
                          /\ queue[1].info = Block(Archive[r].fsid, Archive[r].obj, Archive[r].off)
                          /\ queue[1].info.form = "clear"
                          /\ Archive[r] = [queue[1].info EXCEPT !.form = "packed"]
  BY <1>1
<1>2. HeadReady /\ got' = Append(got, queue[1].info) BY DEF TakeBlock, queue_dequeue_block, Taken
<1>3. LastPos' = r /\ got' # <<>> /\ Len(got') > 0 /\ r \in Nat BY <1>2, LastMoves
<1>4. PICK g \in DOMAIN sent : g = Len(got) + 1 /\ origin[g] = r BY <1>2 DEF Comes
<1>5. PICK x : x = queue[1].info OBVIOUS
<1>6. x \in Unpacked(sent[g]) BY <1>2, <1>4, <1>5 DEF Comes
<1>7. Alike(x, Archive[r]) BY <1>4, <1>6, TakenIsAlike
<1>8. /\ 1 \in DOMAIN queue /\ queue[1].itemnum = Len(sent) - Len(queue) + 1 /\ x \in Info
      /\ Len(queue) \in Nat /\ Len(sent) \in Nat
  BY <1>2, <1>5, SoundFacts, ItemNumbers DEF HeadReady
<1>9. queue[1].itemnum = g
  <2>1. ~Stopped
    <3>1. MainKind BY SoundFacts, MainStep
    <3>2. got' # got
      <4>1. got \in Seq(Info) BY SoundFacts DEF RestoreTypeOK
      <4>2. Len(got') = Len(got) + 1 BY <1>2, <1>5, <1>8, <4>1, AppendShape
      <4> QED BY <4>2, Lengths
    <3> QED BY <3>1, <3>2 DEF MainKind, Takes, Drops, Keeps
  <2>2. Len(got) + Len(queue) = Len(sent) BY <2>1, SoundFacts DEF GotIsSent
  <2> QED BY <1>4, <1>8, <2>2, Lengths
<1>10. ASSUME r \notin damaged
       PROVE  /\ x = Block(Archive[r].fsid, Archive[r].obj, Archive[r].off)
              /\ x.form = "clear" /\ Archive[r] = [x EXCEPT !.form = "packed"]
  <2>1. x.form = "clear" BY <1>2, <1>4, <1>5, <1>8, <1>9, <1>10 DEF ClearInv, TakeBlock, queue_dequeue_block, HeadReady
  <2>2. sent[g] = Archive[r]
    <3>1. g \in DOMAIN origin BY <1>4, Lengths
    <3>2. ComesFrom(sent[g], origin[g]) BY <3>1, SoundFacts DEF OriginInv
    <3> QED BY <1>4, <1>10, <3>2 DEF ComesFrom
  <2>3. r \in DOMAIN Archive BY DEF Comes
  <2> QED BY <1>6, <2>1, <2>2, <2>3, PackedBlock
<1> QED BY <1>3, <1>5, <1>7, <1>8, <1>10

-----------------------------------------------------------------------------
(* What comes next in the archive *)

\* Volumes aside, nothing is between an item and the one that follows it.
LEMMA FollowsIsNext ==
    ASSUME NEW p, NEW r \in DOMAIN Archive, Follows(p, r), queued(Archive[r])
    PROVE  NextQueued(p, r)
BY DEF Follows, NextQueued, queued

\* After an object, there is another one or the end of the data.
LEMMA AfterObject ==
    ASSUME SoundArchive, oper # "ARCHINFO", NEW p \in DOMAIN Archive, Complete(p),
           oper = "RESTFS" => Archive[p].fsid \in fsbitmap
    PROVE  \E r : /\ NextQueued(p, r)
                  /\ Archive[r].magic \in {"OBJT", "DATF"}
                  /\ Archive[r].magic = "OBJT" /\ Archive[r].form = "multi" => Archive[r].off = 0
                  /\ oper = "RESTFS" => Archive[r].fsid = Archive[p].fsid
                  /\ oper = "RESTDIR" /\ Archive[r].magic = "OBJT" => Archive[r].fsid = 1
<1>1. PICK r \in DOMAIN Archive :
         /\ Follows(p, r)
         /\ Archive[r].magic \in {"OBJT", "DATF"}
         /\ Archive[r].magic = "OBJT" /\ Archive[r].form = "multi" => Archive[r].off = 0
         /\ IF archtype = "FILESYSTEMS" THEN Archive[r].fsid = Archive[p].fsid
            ELSE Archive[r].fsid \in {0, 1}
  BY DEF SoundArchive
<1>2. /\ oper \in {"RESTFS", "RESTDIR"}
      /\ oper = "RESTFS" => archtype = "FILESYSTEMS"
      /\ oper = "RESTDIR" => archtype = "DIRECTORIES" /\ fsbitmap = {1}
  BY RestoreAssumption
<1>3. oper = "RESTDIR" /\ Archive[r].magic = "OBJT" => Archive[r].fsid = 1
  <2>1. WholeArchive BY DEF SoundArchive
  <2> QED BY <1>2, <2>1 DEF WholeArchive
<1>4. queued(Archive[r]) BY <1>1, <1>2 DEF queued, wanted
<1> QED BY <1>1, <1>2, <1>3, <1>4, FollowsIsNext

\* After the header of a small file, there is the next one of the group, or its
\* block.
LEMMA AfterSmallFile ==
    ASSUME SoundArchive, oper # "ARCHINFO", NEW p \in DOMAIN Archive,
           Archive[p].magic = "OBJT", Archive[p].form = "multi",
           oper = "RESTFS" => Archive[p].fsid \in fsbitmap
    PROVE  /\ Archive[p].off < Archive[p].cnt
           /\ \E r : /\ NextQueued(p, r) /\ Follows(p, r) /\ Archive[r].fsid = Archive[p].fsid
                     /\ IF Archive[p].off + 1 < Archive[p].cnt
                        THEN Archive[r] = [Archive[p] EXCEPT !.obj = Archive[r].obj, !.off = @ + 1]
                        ELSE Archive[r].magic = "BLKH"
<1>1. PICK r \in DOMAIN Archive :
         /\ Follows(p, r) /\ Archive[r].fsid = Archive[p].fsid
         /\ Archive[p].off < Archive[p].cnt
         /\ IF Archive[p].off + 1 < Archive[p].cnt
            THEN Archive[r] = [Archive[p] EXCEPT !.obj = Archive[r].obj, !.off = @ + 1]
            ELSE Archive[r].magic = "BLKH"
  BY DEF SoundArchive
<1>2. /\ oper \in {"RESTFS", "RESTDIR"}
      /\ oper = "RESTDIR" => archtype = "DIRECTORIES" /\ fsbitmap = {1}
  BY RestoreAssumption
<1>3. oper = "RESTDIR" => Archive[p].fsid = 1
  <2>1. WholeArchive BY DEF SoundArchive
  <2> QED BY <1>2, <2>1 DEF WholeArchive
<1>4. queued(Archive[r]) BY <1>1, <1>2, <1>3 DEF queued, wanted, Follows
<1> QED BY <1>1, <1>4, FollowsIsNext

\* The block of a group is none of a large file.
LEMMA BlockOfGroup ==
    ASSUME NEW p \in DOMAIN Archive, NEW r \in DOMAIN Archive, Follows(p, r),
           Archive[p].magic = "OBJT", Archive[p].form = "multi", Archive[r].magic = "BLKH"
    PROVE  Complete(r)
<1>1. PICK q \in 1 .. r - 1 :
         /\ Archive[q].magic = "OBJT" /\ Archive[q].obj = Archive[r].obj
         /\ Archive[q].form = "unique" => \A x \in q + 1 .. r - 1 : Archive[x].magic # "OBJT"
  BY ArchiveAssumption
<1>2. /\ p \in Nat /\ r \in Nat /\ q \in Nat /\ q < r /\ q >= 1 /\ p < r /\ q \in DOMAIN Archive
      /\ \A x \in p + 1 .. r - 1 : Archive[x].magic = "VOLF"
  BY ArchiveItems DEF Follows
<1>3. Archive[q].form # "unique"
  <2>1. SUFFICES ASSUME Archive[q].form = "unique" PROVE FALSE OBVIOUS
  <2>2. ~(q < p)
    <3>1. SUFFICES ASSUME q < p PROVE FALSE OBVIOUS
    <3>2. p \in q + 1 .. r - 1 BY <1>2, <3>1
    <3> QED BY <1>1, <2>1, <3>2
  <2>3. ~(p < q)
    <3>1. SUFFICES ASSUME p < q PROVE FALSE OBVIOUS
    <3>2. q \in p + 1 .. r - 1 BY <1>2, <3>1
    <3> QED BY <1>1, <1>2, <3>2
  <2>4. p = q BY <1>2, <2>2, <2>3
  <2> QED BY <2>1, <2>4
<1>4. \A x \in DOMAIN Archive : Archive[x].magic = "OBJT" /\ Archive[x].obj = Archive[r].obj => x = q
  BY <1>1, <1>2, ArchiveAssumption
<1> QED BY <1>3, <1>4 DEF Complete

\* A file system that was asked for begins with its FSYB: what comes before it,
\* after what has been taken, was not asked for.
LEMMA FirstOfFs ==
    ASSUME SoundArchive, Sound, CameInv, PathInv, ~aborted, mainpc = "fsyb", oper = "RESTFS"
    PROVE  \E r : NextQueued(LastPos, r) /\ Archive[r].magic = "FSYB" /\ Archive[r].fsid = fsi
<1>0. /\ fsi \in fsbitmap /\ fsi <= fscount /\ archtype = "FILESYSTEMS" /\ Heads = fscount
      /\ fsi \in Nat /\ fsi # 0 /\ fscount \in Nat
  <2>1. fsi \in fsbitmap /\ fsi <= fscount BY DEF PathInv
  <2> QED BY <2>1, RestoreAssumption DEF Heads
<1>n. \A p \in DOMAIN Archive : p \in Nat /\ Archive[p].fsid \in Nat
  <2>1. \A p \in DOMAIN Archive : Archive[p].fsid \in Nat BY ArchiveItems, ArchiveAssumption
  <2> QED BY <2>1, ArchiveItems
<1>1. PICK l \in DOMAIN Archive : l = LastPos BY LastItem DEF PathInv
<1>2. Archive[l].fsid < fsi /\ (Archive[l].fsid = 0 => l = Heads + 1) BY <1>1 DEF PathInv
<1>3. PICK r \in DOMAIN Archive :
         /\ Archive[r].magic = "FSYB" /\ Archive[r].fsid = fsi
         /\ \A q \in DOMAIN Archive : Archive[q].fsid = fsi => r <= q
  <2>1. fsi \in 1 .. fscount BY <1>0
  <2>2. \A f \in 1 .. fscount : \E p \in DOMAIN Archive :
           /\ Archive[p].magic = "FSYB" /\ Archive[p].fsid = f
           /\ \A q \in DOMAIN Archive : Archive[q].fsid = f => p <= q
    BY <1>0 DEF SoundArchive
  <2> QED BY <2>1, <2>2
<1>4. \A p, q \in DOMAIN Archive : p < q /\ Archive[q].fsid # 0 => Archive[p].fsid <= Archive[q].fsid
  BY <1>0 DEF SoundArchive
<1>5. \A p \in DOMAIN Archive : Archive[p].fsid = 0 /\ Archive[p].magic # "VOLF" => p <= Heads + 1
  BY <1>0 DEF SoundArchive
<1>6. l < r
  <2>1. CASE Archive[l].fsid = 0
    <3>1. ~(r <= Heads + 1) BY <1>0, <1>3, HeadsFirst
    <3> QED BY <1>0, <1>2, <1>3, <1>n, <2>1, <3>1
  <2>2. CASE Archive[l].fsid # 0
    <3>1. ~(r < l) BY <1>2, <1>3, <1>4, <1>n, <2>2
    <3>2. l # r BY <1>2, <1>3, <1>n
    <3> QED BY <1>n, <3>1, <3>2
  <2> QED BY <2>1, <2>2
<1>7. ASSUME NEW x \in l + 1 .. r - 1 PROVE ~queued(Archive[x])
  <2>1. x \in DOMAIN Archive /\ l < x /\ x < r BY <1>n, ArchiveItems
  <2>2. Archive[x].fsid <= fsi /\ Archive[x].fsid # fsi BY <1>0, <1>3, <1>4, <1>n, <2>1
  <2>3. CASE Archive[x].fsid = 0
    <3>1. CASE Archive[x].magic = "VOLF" BY <3>1 DEF queued
    <3>2. CASE Archive[x].magic # "VOLF"
      <4>1. x <= Heads + 1 BY <1>5, <2>1, <2>3, <3>2
      <4>2. Archive[l].fsid # 0 BY <1>0, <1>2, <1>n, <2>1, <4>1
      <4>3. ~(l <= Heads + 1) BY <4>2, HeadsFirst
      <4> QED BY <1>0, <1>n, <2>1, <4>1, <4>3
    <3> QED BY <3>1, <3>2
  <2>4. CASE Archive[x].fsid # 0
    <3>1. ~wanted(Archive[x])
      <4>1. SUFFICES ASSUME wanted(Archive[x]) PROVE FALSE OBVIOUS
      <4>2. Archive[x].fsid < fsi BY <1>0, <1>n, <2>1, <2>2
      <4>3. PICK n \in DOMAIN got : x <= origin[n] BY <2>1, <4>1, <4>2 DEF CameInv
      <4>4. origin[n] <= l /\ origin[n] \in Nat BY <1>1, LastItem
      <4> QED BY <1>n, <2>1, <4>3, <4>4
    <3> QED BY <2>4, <3>1 DEF queued
  <2> QED BY <2>3, <2>4
<1>8. queued(Archive[r]) BY <1>0, <1>3 DEF queued, wanted
<1> QED BY <1>1, <1>3, <1>6, <1>7, <1>8 DEF NextQueued

-----------------------------------------------------------------------------
(* The steps, if only data are damaged *)

\* What OnlyDataInv says of where the main thread is
PlainInv == ret = 0 /\ errors = 0 /\ PathInv /\ ContentsInv /\ GroupInv

\* What the steps rest on
OnlyOK == SoundArchive /\ Sound /\ WholeInv /\ OnlyData /\ OnlyDataInv

\* What OnlyOK says
LEMMA OnlyFacts ==
    ASSUME OnlyOK
    PROVE  /\ SoundArchive /\ WholeArchive /\ Sound /\ ReaderEndInv /\ FlowInv /\ PlaceInv /\ DatfInv
           /\ CameInv /\ OnlyData /\ NoneLost /\ ret = 0 /\ errors = 0 /\ ~aborted
           /\ ClearInv /\ PathInv /\ ContentsInv /\ GroupInv
           /\ \A o \in TakenObjs \ Excluded : o \in counted \/ AtWork(o) \/ Hurt(o)
BY NoOtherFault DEF OnlyOK, SoundArchive, WholeInv, OnlyDataInv

\* A step that takes nothing
LEMMA LastStays ==
    ASSUME Sound, Main, got' = got
    PROVE  LastPos' = LastPos
<1>1. origin' = origin BY MainTakes
<1> QED BY <1>1 DEF LastPos

\* Up to the headers of the archive
LEMMA BeginSteps ==
    ASSUME OnlyOK, Main,
           main_create_decomp \/ main_create_reader \/ main_mainhead \/ main_fsinfo \/ main_begin
    PROVE  PlainInv'
<1>0. /\ SoundArchive /\ Sound /\ ReaderEndInv /\ OnlyData /\ PathInv /\ ret = 0 /\ errors = 0
      /\ Heads = IF archtype = "FILESYSTEMS" THEN fscount ELSE 1
      /\ fsi \in Nat /\ Heads \in Nat
  BY OnlyFacts, SoundFacts, HeadsFirst DEF Heads, RestoreTypeOK
<1>1. CASE main_create_decomp \/ main_create_reader
  <2>1. /\ mainpc = "create" /\ mainpc' \in {"create", "mainhead"} /\ got' = got /\ fsi' = fsi
        /\ ret' = ret /\ errors' = errors
    BY <1>1, NoOtherFault, OnlyFacts DEF main_create_decomp, main_create_reader, Goto, Error, Local, workvars
  <2> QED BY <1>0, <2>1 DEF PlainInv, PathInv, ContentsInv, GroupInv, InObjects, InFile
<1>2. CASE main_mainhead
  <2>1. mainpc = "mainhead" /\ got = <<>> /\ fsi = 1 /\ LastPos = 0 /\ ~Stopped
    BY <1>0, <1>2 DEF main_mainhead, PathInv, LastPos, Stopped
  <2>2. NextQueued(0, 1) /\ Archive[1].magic = "MAIN"
    <3>1. queued(Archive[1]) BY HeadsFirst, <1>0 DEF queued
    <3>2. \A x : x \notin 0 + 1 .. 1 - 1 OBVIOUS
    <3> QED BY <1>0, <3>1, <3>2, HeadsFirst, ArchiveItems DEF NextQueued
  <2>3. Comes(1) BY <1>0, <2>1, <2>2, NextComes
  <2>4. /\ ~DequeueFails("HEADER")
        /\ TakeHeader => queue[1].info = Archive[1] /\ LastPos' = 1 /\ got' # <<>>
    BY <1>0, <2>2, <2>3, HeaderComes
  <2>5. /\ mainpc' = "fsinfo" /\ ret' = ret /\ LastPos' = 1 /\ got' # <<>>
        /\ fsi' = fsi /\ errors' = errors
    BY <1>0, <1>2, <2>2, <2>4, NoOtherFault DEF main_mainhead, Goto, workvars
  <2> QED BY <1>0, <2>1, <2>5 DEF PlainInv, PathInv, ContentsInv, GroupInv, InObjects, InFile
<1>3. CASE main_fsinfo
  <2>1. /\ mainpc = "fsinfo" /\ got # <<>> /\ LastPos = fsi /\ ~Stopped /\ fsi <= Heads
    BY <1>0, <1>3 DEF main_fsinfo, PathInv, Stopped
  <2>2. fsi + 1 \in 2 .. Heads + 1
    <3>1. fsi >= 1 BY <1>0, <2>1, LastItem, ArchiveItems
    <3> QED BY <1>0, <2>1, <3>1
  <2>3. /\ fsi + 1 \in DOMAIN Archive /\ queued(Archive[fsi + 1])
        /\ Archive[fsi + 1].magic = IF archtype = "FILESYSTEMS" THEN "FSIN" ELSE "DIRS"
    BY <1>0, <2>2, HeadsFirst
  <2>4. NextQueued(fsi, fsi + 1)
    <3>1. \A x : x \notin fsi + 1 .. (fsi + 1) - 1 BY <1>0
    <3> QED BY <1>0, <2>3, <3>1 DEF NextQueued
  <2>5. Comes(fsi + 1) BY <1>0, <2>1, <2>4, NextComes
  <2>6. PICK r : r = fsi + 1 OBVIOUS
  <2>7. /\ ~DequeueFails("HEADER")
        /\ TakeHeader => queue[1].info = Archive[r] /\ LastPos' = r /\ got' # <<>>
    BY <1>0, <2>3, <2>5, <2>6, HeaderComes
  <2>8. /\ mainpc' = "fsinfo" /\ ret' = ret /\ LastPos' = r /\ got' # <<>>
        /\ fsi' = r /\ errors' = errors
    BY <1>0, <1>3, <2>1, <2>3, <2>6, <2>7 DEF main_fsinfo, Goto
  <2> QED BY <1>0, <2>1, <2>2, <2>6, <2>8 DEF PlainInv, PathInv, ContentsInv, GroupInv, InObjects, InFile
<1>4. CASE main_begin
  <2>1. mainpc = "fsinfo" /\ got # <<>> /\ LastPos = Heads + 1
    BY <1>0, <1>4 DEF main_begin, PathInv
  <2>2. /\ mainpc' = IF oper = "ARCHINFO" THEN "check" ELSE IF oper = "RESTFS" THEN "fs" ELSE "peek"
        /\ fsi' = 1 /\ got' = got /\ ret' = ret /\ errors' = errors
    BY <1>4, <1>0, NoOtherFault DEF main_begin, Goto, Local
  <2>3. PICK l \in DOMAIN Archive : l = LastPos BY <1>0, <2>1, LastItem
  <2>4. LastPos' = l BY <1>0, <2>2, <2>3, LastStays
  <2>5. Archive[l].fsid = 0
    <3>1. l <= Heads + 1 BY <1>0, <2>1, <2>3
    <3> QED BY <1>0, <2>3, <3>1, HeadsFirst
  <2>6. oper = "RESTDIR" => Complete(l)
    <3>1. SUFFICES ASSUME oper = "RESTDIR" PROVE Complete(l) OBVIOUS
    <3>2. archtype = "DIRECTORIES" BY <3>1, RestoreAssumption
    <3>3. l \in 2 .. Heads + 1 BY <1>0, <2>1, <2>3, <3>2
    <3>4. Archive[l].magic = "DIRS" BY <1>0, <3>2, <3>3, HeadsFirst
    <3> QED BY <3>4 DEF Complete
  <2>7. oper \in {"RESTFS", "RESTDIR", "ARCHINFO"} BY RestoreAssumption
  <2> QED BY <1>0, <2>1, <2>2, <2>3, <2>4, <2>5, <2>6, <2>7
          DEF PlainInv, PathInv, ContentsInv, GroupInv, InObjects, InFile
<1> QED BY <1>1, <1>2, <1>3, <1>4

\* From one file system to the next
LEMMA FsSteps ==
    ASSUME OnlyOK, Main, main_fs \/ main_fsyb \/ main_objend
    PROVE  PlainInv'
<1>0. /\ SoundArchive /\ Sound /\ ReaderEndInv /\ OnlyData /\ PathInv /\ ret = 0 /\ errors = 0
      /\ ~aborted /\ CameInv /\ PlaceInv /\ fsi \in Nat
      /\ \A p \in DOMAIN Archive : Archive[p].fsid \in Nat
  <2>1. \A p \in DOMAIN Archive : Archive[p].fsid \in Nat BY ArchiveItems, ArchiveAssumption
  <2> QED BY <2>1, OnlyFacts, SoundFacts DEF RestoreTypeOK
<1>1. CASE main_fs
  <2>1. mainpc = "fs" /\ got # <<>> /\ got' = got /\ ret' = ret /\ errors' = errors
    BY <1>0, <1>1 DEF main_fs, PathInv, Local
  <2>2. PICK l \in DOMAIN Archive : l = LastPos BY <1>0, <2>1, LastItem
  <2>3. LastPos' = l BY <1>0, <2>1, <2>2, LastStays
  <2>4. Archive[l].fsid < fsi /\ (Archive[l].fsid = 0 => l = Heads + 1) BY <1>0, <2>1, <2>2 DEF PathInv
  <2>5. \/ mainpc' = "fsyb" /\ fsi' = fsi /\ fsi \in fsbitmap /\ fsi <= fscount
        \/ mainpc' = "fs" /\ fsi' = fsi + 1
        \/ mainpc' = "check"
    BY <1>0, <1>1 DEF main_fs, Goto
  <2>6. Archive[l].fsid < fsi + 1 BY <1>0, <2>4
  <2> QED BY <1>0, <2>1, <2>3, <2>4, <2>5, <2>6
          DEF PlainInv, PathInv, ContentsInv, GroupInv, InObjects, InFile
<1>2. CASE main_fsyb
  <2>1. mainpc = "fsyb" /\ oper = "RESTFS" /\ ~Stopped /\ fsi \in fsbitmap
    BY <1>0, <1>2 DEF main_fsyb, PlaceInv, Stopped, PathInv
  <2>2. PICK r : NextQueued(LastPos, r) /\ Archive[r].magic = "FSYB" /\ Archive[r].fsid = fsi
    BY <1>0, <2>1, FirstOfFs
  <2>3. Comes(r) BY <1>0, <2>1, <2>2, NextComes
  <2>4. /\ ~DequeueFails("HEADER")
        /\ TakeHeader => queue[1].info = Archive[r] /\ LastPos' = r /\ got' # <<>>
    BY <1>0, <2>2, <2>3, HeaderComes
  <2>5. /\ mainpc' = "peek" /\ ret' = ret /\ LastPos' = r /\ got' # <<>>
        /\ fsi' = fsi /\ errors' = 0
    BY <1>0, <1>2, <2>2, <2>4, NoOtherFault DEF main_fsyb, Goto
  <2>6. Complete(r) BY <2>2 DEF Complete
  <2> QED BY <1>0, <2>1, <2>2, <2>5, <2>6 DEF PlainInv, PathInv, ContentsInv, GroupInv, InObjects, InFile
<1>3. CASE main_objend
  <2>1. mainpc = "objend" /\ InObjects /\ got # <<>> /\ Complete(LastPos) /\ ~Stopped /\ oper # "ARCHINFO"
    BY <1>0, <1>3 DEF main_objend, InObjects, PathInv, PlaceInv, Stopped
  <2>2. CASE archtype = "DIRECTORIES"
    <3>1. mainpc' = "check" /\ ret' = ret /\ errors' = errors BY <1>3, <2>2 DEF main_objend, Goto
    <3> QED BY <1>0, <3>1 DEF PlainInv, PathInv, ContentsInv, GroupInv, InObjects, InFile
  <2>3. CASE archtype # "DIRECTORIES"
    <3>1. oper = "RESTFS" BY <2>1, <2>3, RestoreAssumption
    <3>2. PICK l \in DOMAIN Archive : l = LastPos BY <1>0, <2>1, LastItem
    <3>3. Archive[l].fsid = fsi /\ fsi \in fsbitmap /\ fsi # 0
      BY <1>0, <2>1, <3>1, <3>2, RestoreAssumption DEF PathInv
    <3>4. PICK r : NextQueued(l, r) /\ Archive[r].magic \in {"OBJT", "DATF"} /\ Archive[r].fsid = fsi
      BY <1>0, <2>1, <3>1, <3>2, <3>3, AfterObject
    <3>5. Comes(r) BY <1>0, <2>1, <3>2, <3>4, NextComes
    <3>6. /\ ~DequeueFails("HEADER")
          /\ TakeHeader => queue[1].info = Archive[r] /\ LastPos' = r /\ got' # <<>>
      BY <1>0, <3>4, <3>5, HeaderComes
    <3>7. /\ mainpc' = "fs" /\ ret' = ret /\ LastPos' = r /\ got' # <<>>
          /\ fsi' = fsi + 1 /\ errors' = errors
      BY <1>0, <1>3, <2>3, <3>6, NoOtherFault DEF main_objend, Goto
    <3>8. Archive[r].fsid < fsi + 1 /\ Archive[r].fsid # 0 BY <1>0, <3>3, <3>4
    <3> QED BY <1>0, <3>7, <3>8 DEF PlainInv, PathInv, ContentsInv, GroupInv, InObjects, InFile
  <2> QED BY <2>2, <2>3
<1> QED BY <1>1, <1>2, <1>3
\* From one object to the next
LEMMA ObjectSteps ==
    ASSUME OnlyOK, Main, main_peek \/ main_node \/ main_next
    PROVE  PlainInv'
<1>0. /\ SoundArchive /\ Sound /\ ReaderEndInv /\ OnlyData /\ PathInv /\ ret = 0 /\ errors = 0
      /\ ~aborted /\ PlaceInv
  BY OnlyFacts
<1>1. CASE main_peek
  <2>1. /\ mainpc = "peek" /\ got # <<>> /\ Complete(LastPos) /\ ~Stopped /\ oper # "ARCHINFO"
        /\ oper = "RESTFS" => Archive[LastPos].fsid = fsi /\ fsi \in fsbitmap
        /\ oper = "RESTDIR" => fsi = 1
    BY <1>0, <1>1 DEF main_peek, InObjects, PathInv, PlaceInv, Stopped
  <2>2. PICK l \in DOMAIN Archive : l = LastPos BY <1>0, <2>1, LastItem
  <2>3. PICK r : /\ NextQueued(l, r) /\ Archive[r].magic \in {"OBJT", "DATF"}
                 /\ Archive[r].magic = "OBJT" /\ Archive[r].form = "multi" => Archive[r].off = 0
                 /\ oper = "RESTFS" => Archive[r].fsid = fsi
                 /\ oper = "RESTDIR" /\ Archive[r].magic = "OBJT" => Archive[r].fsid = 1
    <3>1. PICK r : /\ NextQueued(l, r) /\ Archive[r].magic \in {"OBJT", "DATF"}
                   /\ Archive[r].magic = "OBJT" /\ Archive[r].form = "multi" => Archive[r].off = 0
                   /\ oper = "RESTFS" => Archive[r].fsid = Archive[l].fsid
                   /\ oper = "RESTDIR" /\ Archive[r].magic = "OBJT" => Archive[r].fsid = 1
      BY <1>0, <2>1, <2>2, AfterObject
    <3> QED BY <2>1, <2>2, <3>1
  <2>4. Comes(r) BY <1>0, <2>1, <2>2, <2>3, NextComes
  <2>5. PICK x : x = Archive[r] OBVIOUS
  <2>6. /\ ~queue_get_end_of_queue
        /\ HeadReady => queue[1].info = x
        /\ TakeHeader => queue[1].info = x /\ LastPos' = r /\ got' # <<>>
    BY <1>0, <2>3, <2>4, <2>5, HeaderComes DEF Comes
  <2>7. r \in DOMAIN Archive /\ r \in Nat BY <2>3, ArchiveItems DEF NextQueued
  <2>8. x.magic = "OBJT" => x.fsid = fsi
    BY <2>1, <2>3, <2>5, RestoreAssumption
  <2>9. \/ /\ mainpc' = "objend" /\ got' = got /\ fsi' = fsi /\ ret' = ret /\ errors' = errors
        \/ /\ x.magic = "OBJT" /\ mainpc' = x.form /\ LastPos' = r /\ got' # <<>>
           /\ file' = NewFile(x) /\ group' = <<x>>
           /\ fsi' = fsi /\ ret' = ret /\ errors' = errors
    BY <1>1, <2>3, <2>5, <2>6, <2>8 DEF main_peek, Goto, Local
  <2>10. CASE mainpc' = "objend" /\ got' = got /\ fsi' = fsi /\ ret' = ret /\ errors' = errors
    <3>1. LastPos' = l BY <1>0, <2>2, <2>10, LastStays
    <3> QED BY <1>0, <2>1, <2>2, <2>10, <3>1 DEF PlainInv, PathInv, ContentsInv, GroupInv, InObjects, InFile
  <2>11. CASE /\ x.magic = "OBJT" /\ mainpc' = x.form /\ LastPos' = r /\ got' # <<>>
              /\ file' = NewFile(x) /\ group' = <<x>>
              /\ fsi' = fsi /\ ret' = ret /\ errors' = errors
    <3>1. x \in Info /\ x.form \in {"node", "unique", "multi"}
      BY <2>5, <2>7, <2>11, ArchiveItems, ArchiveAssumption
    <3>2. x.form = "node" => Complete(r) BY <2>5, <2>11 DEF Complete
    <3>3. PathInv' BY <2>1, <2>3, <2>5, <2>11, <3>1, <3>2 DEF PathInv, InObjects, InFile
    <3>4. ContentsInv'
      <4>1. /\ file'.head = x /\ file'.data = <<>> /\ ~file'.minorerr /\ ~file'.fatalerr
            /\ \A n : n \notin DOMAIN file'.data
        BY <2>11 DEF NewFile
      <4> QED BY <2>8, <2>11, <3>1, <4>1 DEF ContentsInv, InFile
    <3>5. ASSUME x.form = "multi" PROVE x.off = 0 /\ x.cnt \in Nat /\ x.cnt >= 1
      <4>1. Archive[r].off < Archive[r].cnt
        BY <1>0, <2>1, <2>3, <2>5, <2>7, <2>11, <3>5, AfterSmallFile
      <4>2. x.off = 0 /\ x.cnt \in Nat BY <2>3, <2>5, <2>11, <3>1, <3>5, ArchiveAssumption
      <4> QED BY <2>5, <4>1, <4>2
    <3>6. GroupInv'
      <4>1. /\ Len(group') = 1 /\ DOMAIN group' = {1} /\ group'[1] = x /\ file'.head = x
        BY <2>11 DEF NewFile
      <4>2. \A y \in r .. r : y = r BY <2>7
      <4>3. r <= r BY <2>7
      <4>4. \A y \in r .. LastPos' : Archive[y].magic # "BLKH" BY <2>5, <2>11, <4>2
      <4>5. \E p \in DOMAIN Archive :
               /\ Archive[p] = x /\ p <= LastPos'
               /\ \A y \in p .. LastPos' : Archive[y].magic # "BLKH"
        BY <2>5, <2>7, <2>11, <4>3, <4>4
      <4>6. Archive[LastPos'] = x BY <2>5, <2>11
      <4>7. SUFFICES ASSUME x.form = "multi"
                     PROVE  /\ Len(group') > 0 /\ Archive[LastPos'] = group'[Len(group')]
                            /\ Len(group') <= file'.head.cnt
                            /\ \A k \in DOMAIN group' :
                                  /\ group'[k].form = "multi" /\ group'[k].off = k - 1
                                  /\ group'[k].cnt = file'.head.cnt
                                  /\ \E p \in DOMAIN Archive :
                                        /\ Archive[p] = group'[k] /\ p <= LastPos'
                                        /\ \A y \in p .. LastPos' : Archive[y].magic # "BLKH"
        BY <2>11 DEF GroupInv
      <4> QED BY <3>5, <4>1, <4>5, <4>6, <4>7
    <3> QED BY <1>0, <2>11, <3>3, <3>4, <3>6 DEF PlainInv
  <2> QED BY <2>9, <2>10, <2>11
<1>2. CASE main_node
  <2>1. /\ mainpc = "node" /\ mainpc' = "next" /\ got' = got /\ fsi' = fsi
        /\ ret' = ret /\ errors' = errors
    BY <1>2 DEF main_node, Goto, Local
  <2>2. PICK l : l = LastPos OBVIOUS
  <2>3. LastPos' = l BY <1>0, <2>1, <2>2, LastStays
  <2> QED BY <1>0, <2>1, <2>2, <2>3 DEF PlainInv, PathInv, ContentsInv, GroupInv, InObjects, InFile
<1>3. CASE main_next
  <2>1. /\ mainpc = "next" /\ mainpc' = "peek" /\ got' = got /\ fsi' = fsi
        /\ ret' = ret /\ errors' = errors
    BY <1>0, <1>3 DEF main_next, Goto, Local, workvars
  <2>2. PICK l : l = LastPos OBVIOUS
  <2>3. LastPos' = l BY <1>0, <2>1, <2>2, LastStays
  <2> QED BY <1>0, <2>1, <2>2, <2>3 DEF PlainInv, PathInv, ContentsInv, GroupInv, InObjects, InFile
<1> QED BY <1>1, <1>2, <1>3
\* A large file is opened, and its blocks come to the last one.
LEMMA LoopSteps ==
    ASSUME OnlyOK, Main, main_file_open \/ main_file_loop
    PROVE  PlainInv'
<1>0. /\ Sound /\ FlowInv /\ OnlyData /\ PathInv /\ ContentsInv /\ ret = 0 /\ errors = 0
      /\ ~aborted /\ NoneLost
  BY OnlyFacts
<1>1. /\ InFile /\ InFile' /\ file \in FileType /\ file' \in FileType /\ file'.head = file.head
      /\ (excluded' <=> excluded) /\ ~stopfillqueue
      /\ UNCHANGED <<origin, damaged, errors, ret, fsi>>
      /\ filepos \in Nat /\ file.head.cnt \in Nat /\ filepos <= file.head.cnt
  BY <1>0, FileStepFacts DEF FileStep
<1>2. /\ got' = got /\ mainpc \in {"unique", "blocks"} /\ mainpc' \in {"blocks", "block", "footer"}
      /\ mainpc' = "footer" => ~(filepos < file.head.cnt)
      /\ file' = file \/ \E res \in {0} : file' = [file EXCEPT !.minorerr = (res # 0)]
  <2>1. CASE main_file_open BY <1>0, <2>1, NoOtherFault DEF main_file_open, Local, Goto
  <2>2. CASE main_file_loop
    <3>1. \A res : res \in (IF excluded THEN {0} ELSE restore_attr) => res \in {0}
      BY <1>0, NoOtherFault DEF restore_attr
    <3>2. ~get_interrupted BY <1>0, <1>1 DEF get_interrupted
    <3> QED BY <2>2, <3>1, <3>2 DEF main_file_loop, Local, Goto
  <2> QED BY <2>1, <2>2
<1>3. /\ file'.data = file.data /\ ~file'.fatalerr
      /\ file'.minorerr => file.minorerr
  <2>1. ~file.fatalerr BY <1>0, <1>1 DEF ContentsInv
  <2>2. CASE file' = file BY <2>1, <2>2
  <2>3. CASE \E res \in {0} : file' = [file EXCEPT !.minorerr = (res # 0)]
    <3>1. PICK res \in {0} : file' = [file EXCEPT !.minorerr = (res # 0)] BY <2>3
    <3>2. file'.data = file.data /\ file'.fatalerr = file.fatalerr /\ file'.minorerr = (res # 0)
      BY <1>1, <3>1 DEF FileType
    <3> QED BY <2>1, <3>1, <3>2
  <2> QED BY <1>2, <2>2, <2>3
<1>4. filepos' = filepos /\ OnTrack
  BY <1>0, <1>2, <1>3 DEF filepos, FlowInv
<1>5. OnTrack' BY <1>1, <1>2, <1>4 DEF OnTrack
<1>6. PICK l : l = LastPos OBVIOUS
<1>7. LastPos' = l BY <1>0, <1>2, <1>6, LastStays
<1>8. PathInv' BY <1>0, <1>1, <1>2, <1>6, <1>7 DEF PathInv, InObjects, InFile
<1>9. mainpc' = "footer" => filepos' = file'.head.cnt BY <1>1, <1>2, <1>4
<1>10. ASSUME NEW o, o = file.head.obj, ~Hurt(o)'
       PROVE  /\ ~excluded => ~file'.minorerr
              /\ \A n \in DOMAIN file'.data : file'.data[n] = Block(file.head.fsid, o, n - 1)
  <2>1. ~Hurt(o) BY <1>1, <1>10 DEF Hurt
  <2>2. /\ ~excluded => ~file.minorerr
        /\ \A n \in DOMAIN file.data : file.data[n] = Block(file.head.fsid, o, n - 1)
    BY <1>0, <1>1, <1>10, <2>1 DEF ContentsInv
  <2> QED BY <1>3, <2>2
<1>11. ContentsInv'
  <2>1. file'.head.fsid = fsi' BY <1>0, <1>1 DEF ContentsInv
  <2> QED BY <1>1, <1>3, <1>5, <1>9, <1>10, <2>1 DEF ContentsInv
<1>12. GroupInv' BY <1>2 DEF GroupInv
<1> QED BY <1>0, <1>1, <1>8, <1>11, <1>12 DEF PlainInv
\* What comes next is of the file.
LEMMA FileComes ==
    ASSUME OnlyOK, InFile, mainpc \in {"block", "footer"}, file.head.cnt # 0, Len(got) > 0
    PROVE  \E r : /\ Comes(r) /\ r \in DOMAIN Archive
                  /\ Archive[r].obj = file.head.obj /\ Archive[r].fsid = file.head.fsid
                  /\ IF filepos < file.head.cnt THEN Archive[r].magic = "BLKH" /\ Archive[r].off = filepos
                     ELSE Archive[r].magic = "FILF"
<1>0. /\ SoundArchive /\ WholeArchive /\ Sound /\ ReaderEndInv /\ FlowInv /\ OnlyData /\ ContentsInv
      /\ NoneLost
  BY OnlyFacts
<1>1. OnTrack /\ KnownHead /\ ~Stopped
  BY <1>0 DEF FlowInv, ContentsInv, KnownHead, Stopped
<1>2. PICK r \in DOMAIN Archive :
         /\ Follows(origin[Len(got)], r) /\ queued(Archive[r])
         /\ Archive[r].obj = file.head.obj /\ Archive[r].fsid = file.head.fsid
         /\ IF filepos < file.head.cnt THEN Archive[r].magic = "BLKH" /\ Archive[r].off = filepos
            ELSE Archive[r].magic = "FILF"
  BY <1>0, <1>1, FollowerOfFile
<1>3. got # <<>> OBVIOUS
<1>4. LastPos = origin[Len(got)] BY <1>3 DEF LastPos
<1>5. NextQueued(LastPos, r) BY <1>2, <1>4, FollowsIsNext
<1>6. Comes(r) BY <1>0, <1>1, <1>5, NextComes
<1> QED BY <1>2, <1>6

\* Each block of the file comes at its offset.
LEMMA BlockStep ==
    ASSUME OnlyOK, Main, main_file_block
    PROVE  PlainInv'
<1>0. /\ SoundArchive /\ Sound /\ FlowInv /\ OnlyData /\ PathInv /\ ContentsInv /\ ClearInv
      /\ ret = 0 /\ errors = 0
  BY OnlyFacts
<1>1. /\ InFile /\ InFile' /\ file \in FileType /\ file' \in FileType /\ file'.head = file.head
      /\ (excluded' <=> excluded)
      /\ UNCHANGED <<origin, damaged, errors, ret, fsi>>
      /\ mainpc = "block" /\ Len(got) > 0 /\ filepos \in Nat
  BY <1>0, FileStepFacts DEF FileStep, main_file_block
<1>2. filepos < file.head.cnt BY <1>1, SoundFacts, <1>0 DEF FileInv
<1>3. file.head.cnt # 0
  <2>1. file.head.cnt \in Nat BY <1>0, <1>1, FileStepFacts DEF FileStep
  <2> QED BY <1>1, <1>2, <2>1
<1>4. PICK r \in DOMAIN Archive :
         /\ Comes(r) /\ Archive[r].obj = file.head.obj /\ Archive[r].fsid = file.head.fsid
         /\ Archive[r].magic = "BLKH" /\ Archive[r].off = filepos
  BY <1>1, <1>2, <1>3, FileComes
<1>5. PICK x : x = queue[1].info OBVIOUS
<1>6. /\ ~DequeueFails("BLOCK")
      /\ TakeBlock => /\ LastPos' = r /\ got' # <<>> /\ x \in Info
                      /\ Alike(x, Archive[r])
                      /\ r \notin damaged => x = Block(Archive[r].fsid, Archive[r].obj, Archive[r].off)
  BY <1>0, <1>4, <1>5, BlockComes
<1>7. /\ mainpc' = "blocks" /\ LastPos' = r /\ got' # <<>> /\ x \in Info
      /\ file' = [file EXCEPT !.data = Append(@, x)]
      /\ r \notin damaged => x = Block(Archive[r].fsid, Archive[r].obj, Archive[r].off)
  <2>1. TakeBlock BY <1>6 DEF main_file_block
  <2>2. x.off = filepos BY <1>4, <1>6, <2>1 DEF Alike
  <2> QED BY <1>0, <1>5, <1>6, <2>1, <2>2, NoOtherFault DEF main_file_block, Goto
<1>8. PathInv' BY <1>0, <1>1, <1>4, <1>7 DEF PathInv, ContentsInv, InObjects, InFile
<1>9. /\ file.data \in Seq(Info) /\ file'.data = Append(file.data, x)
      /\ file'.minorerr = file.minorerr /\ file'.fatalerr = file.fatalerr
  BY <1>1, <1>7 DEF FileType
<1>10. ASSUME NEW o, o = file.head.obj, ~Hurt(o)'
       PROVE  /\ ~excluded => ~file'.minorerr
              /\ \A n \in DOMAIN file'.data : file'.data[n] = Block(file.head.fsid, o, n - 1)
  <2>1. ~Hurt(o) BY <1>1, <1>10 DEF Hurt
  <2>2. /\ ~excluded => ~file.minorerr
        /\ \A n \in DOMAIN file.data : file.data[n] = Block(file.head.fsid, o, n - 1)
    BY <1>0, <1>1, <1>10, <2>1 DEF ContentsInv
  <2>3. r \notin damaged BY <1>4, <1>10, <2>1 DEF Hurt, ItemsOf
  <2>4. x = Block(file.head.fsid, o, filepos)
    <3>1. PICK a, b, c : a = Archive[r].fsid /\ b = Archive[r].obj /\ c = Archive[r].off OBVIOUS
    <3>2. x = Block(a, b, c) BY <1>7, <2>3, <3>1
    <3>3. a = file.head.fsid /\ b = o /\ c = filepos BY <1>4, <1>10, <3>1
    <3> QED BY <3>2, <3>3
  <2>5. /\ DOMAIN file.data = 1 .. filepos /\ DOMAIN file'.data = 1 .. filepos + 1
        /\ \A n \in 1 .. filepos : file'.data[n] = file.data[n]
        /\ file'.data[filepos + 1] = x
    <3>1. filepos = Len(file.data) BY DEF filepos
    <3> QED BY <1>7, <1>9, <3>1, AppendShape
  <2>6. ASSUME NEW n \in DOMAIN file'.data PROVE file'.data[n] = Block(file.head.fsid, o, n - 1)
    <3>1. CASE n \in 1 .. filepos BY <2>2, <2>5, <3>1
    <3>2. CASE n = filepos + 1
      <4>1. n - 1 = filepos BY <1>1, <3>2
      <4> QED BY <2>4, <2>5, <3>2, <4>1
    <3> QED BY <1>1, <2>5, <2>6, <3>1, <3>2
  <2> QED BY <1>9, <2>2, <2>6
<1>11. ContentsInv'
  <2>1. file'.head.fsid = fsi' /\ ~file'.fatalerr BY <1>0, <1>1, <1>9 DEF ContentsInv
  <2> QED BY <1>1, <1>7, <1>10, <2>1 DEF ContentsInv
<1>12. GroupInv' BY <1>7 DEF GroupInv
<1> QED BY <1>0, <1>1, <1>8, <1>11, <1>12 DEF PlainInv
\* The data of a file none of whose blocks is damaged are those of its footer.
LEMMA SoundFile ==
    ASSUME OnlyOK, InFile, KnownHead, file \in FileType, filepos = file.head.cnt,
           ~Hurt(file.head.obj), NEW foot, foot.obj = file.head.obj
    PROVE  SameMd5(file.data, foot)
<1>1. ContentsInv /\ Sound BY OnlyFacts
<1>2. Pending(file.head) /\ file.head.cnt \in Nat BY <1>1, SoundFacts, HeadFacts
<1>3. PICK q \in DOMAIN Archive : Archive[q] = file.head BY DEF KnownHead
<1>4. \A n \in DOMAIN file.data : file.data[n] = Block(file.head.fsid, file.head.obj, n - 1)
  BY <1>1 DEF ContentsInv
<1>5. file.data \in Seq(Info) /\ DOMAIN file.data = 1 .. file.head.cnt
  <2>1. file.data \in Seq(Info) BY DEF FileType
  <2> QED BY <2>1 DEF filepos
<1>6. file.data = [n \in 1 .. file.head.cnt |-> file.data[n]]
  <2>1. PICK d, c : d = file.data /\ c = file.head.cnt OBVIOUS
  <2>2. d \in Seq(Info) /\ DOMAIN d = 1 .. c BY <1>5, <2>1
  <2>3. d \in [1 .. Len(d) -> Info] /\ Len(d) \in Nat BY <2>2
  <2>4. d = [n \in DOMAIN d |-> d[n]] BY <2>3
  <2> QED BY <2>1, <2>2, <2>4
<1>7. file.data = Blocks(file.head) BY <1>4, <1>5, <1>6 DEF Blocks
<1>8. Archive[q].magic = "OBJT" BY <1>2, <1>3 DEF Pending
<1> QED BY <1>3, <1>7, <1>8 DEF SameMd5

\* Its footer comes after the last block, and it matches.
LEMMA FooterStep ==
    ASSUME OnlyOK, Main, main_file_footer
    PROVE  PlainInv'
<1>0. /\ SoundArchive /\ Sound /\ FlowInv /\ OnlyData /\ PathInv /\ ContentsInv
      /\ ret = 0 /\ errors = 0
  BY OnlyFacts
<1>1. /\ InFile /\ InFile' /\ file \in FileType /\ file' \in FileType /\ file'.head = file.head
      /\ (excluded' <=> excluded) /\ KnownHead
      /\ UNCHANGED <<origin, damaged, errors, ret, fsi>>
      /\ mainpc = "footer" /\ mainpc' = "fileend" /\ filepos \in Nat /\ file.head.cnt \in Nat
  BY <1>0, FileStepFacts DEF FileStep, main_file_footer, Goto
<1>2. /\ filepos = file.head.cnt /\ OnTrack /\ file.head.fsid = fsi /\ ~file.fatalerr
      /\ ~(filepos < file.head.cnt)
  BY <1>0, <1>1 DEF ContentsInv
<1>3. got # <<>> /\ (oper = "RESTFS" => Archive[LastPos].fsid = fsi /\ fsi \in fsbitmap)
  BY <1>0, <1>1 DEF PathInv, InObjects
<1>4. LastPos = origin[Len(got)] /\ Len(got) > 0 BY <1>0, <1>3, LastItem
<1>5. PICK o : o = file.head.obj OBVIOUS
<1>6. /\ got' # <<>> /\ Complete(LastPos)'
      /\ oper = "RESTFS" => Archive[LastPos'].fsid = fsi
      /\ file'.data = file.data /\ ~file'.fatalerr
      /\ ~Hurt(o) /\ ~excluded => ~file'.minorerr
  <2>0. ~Hurt(o) /\ ~excluded => ~file.minorerr BY <1>0, <1>1, <1>5 DEF ContentsInv
  <2>1. CASE file.head.cnt = 0
    <3>1. got' = got /\ file' = file BY <1>2, <2>1 DEF main_file_footer, Local
    <3>2. PICK l : l = LastPos OBVIOUS
    <3>3. LastPos' = l BY <1>0, <3>1, <3>2, LastStays
    <3>4. Archive[l] = file.head BY <1>2, <1>4, <2>1, <3>2 DEF OnTrack
    <3>5. file.head.magic = "OBJT" BY <1>0, <1>1, SoundFacts, HeadFacts DEF Pending
    <3>6. Complete(l) BY <1>1, <2>1, <3>4, <3>5 DEF Complete, KnownHead
    <3>7. Complete(LastPos)' BY <3>3, <3>6 DEF Complete
    <3> QED BY <1>2, <1>3, <2>0, <3>1, <3>2, <3>3, <3>7
  <2>2. CASE file.head.cnt # 0
    <3>1. PICK r \in DOMAIN Archive :
             /\ Comes(r) /\ Archive[r].obj = file.head.obj /\ Archive[r].fsid = file.head.fsid
             /\ Archive[r].magic = "FILF"
      BY <1>1, <1>2, <1>4, <2>2, FileComes
    <3>2. PICK x : x = Archive[r] OBVIOUS
    <3>3. /\ ~DequeueFails("HEADER")
          /\ TakeHeader => queue[1].info = x /\ LastPos' = r /\ got' # <<>>
      BY <1>0, <3>1, <3>2, HeaderComes
    <3>4. /\ TakeHeader /\ queue[1].info = x /\ LastPos' = r /\ got' # <<>>
          /\ file' = IF excluded \/ (x.magic = "FILF" /\ SameMd5(file.data, x))
                     THEN file
                     ELSE IF x.magic # "FILF" THEN [file EXCEPT !.minorerr = TRUE]
                     ELSE [file EXCEPT !.minorerr = TRUE, !.delfile = TRUE]
      BY <1>2, <2>2, <3>3 DEF main_file_footer
    <3>5. ~Hurt(o) => SameMd5(file.data, x) BY <1>0, <1>1, <1>2, <1>5, <3>1, <3>2, SoundFile
    <3>6. file'.data = file.data /\ file'.fatalerr = file.fatalerr BY <1>1, <3>4 DEF FileType
    <3>7. ~Hurt(o) => file' = file BY <3>1, <3>2, <3>4, <3>5
    <3>8. Complete(r) BY <3>1 DEF Complete
    <3>9. Complete(LastPos)' BY <3>4, <3>8 DEF Complete
    <3> QED BY <1>2, <2>0, <3>1, <3>4, <3>6, <3>7, <3>9
  <2> QED BY <2>1, <2>2
<1>7. PathInv' BY <1>1, <1>3, <1>6 DEF PathInv, InObjects, InFile
<1>8. ASSUME ~Hurt(o)'
      PROVE  /\ ~excluded => ~file'.minorerr
             /\ \A n \in DOMAIN file'.data : file'.data[n] = Block(file.head.fsid, o, n - 1)
  <2>1. ~Hurt(o) BY <1>1, <1>8 DEF Hurt
  <2> QED BY <1>0, <1>1, <1>5, <1>6, <2>1 DEF ContentsInv
<1>9. ContentsInv' BY <1>1, <1>2, <1>5, <1>6, <1>8 DEF ContentsInv
<1>10. GroupInv' BY <1>1 DEF GroupInv
<1> QED BY <1>0, <1>1, <1>7, <1>9, <1>10 DEF PlainInv

\* The next object comes after the file.
LEMMA ClosedStep ==
    ASSUME OnlyOK, Main, main_file_end
    PROVE  PlainInv'
<1>0. /\ Sound /\ PathInv /\ ContentsInv /\ ret = 0 /\ errors = 0
  BY OnlyFacts
<1>1. mainpc = "fileend" /\ ~file.fatalerr
  BY <1>0 DEF main_file_end, ContentsInv, InFile
<1>2. /\ mainpc' = "next" /\ got' = got /\ fsi' = fsi /\ ret' = ret /\ errors' = errors
  BY <1>1 DEF main_file_end, Goto, Local
<1>3. PICK l : l = LastPos OBVIOUS
<1>4. LastPos' = l BY <1>0, <1>2, <1>3, LastStays
<1>5. /\ InObjects /\ got # <<>> /\ Complete(l)
      /\ oper = "RESTFS" => Archive[l].fsid = fsi /\ fsi \in fsbitmap
  BY <1>0, <1>1, <1>3 DEF PathInv, InObjects, InFile
<1>6. PathInv' BY <1>2, <1>4, <1>5 DEF PathInv, InObjects, InFile
<1>7. ContentsInv' /\ GroupInv' BY <1>2 DEF ContentsInv, GroupInv, InFile
<1> QED BY <1>0, <1>2, <1>6, <1>7 DEF PlainInv
\* The last header of the group
LEMMA LastOfGroup ==
    ASSUME OnlyOK, mainpc = "multi"
    PROVE  /\ Len(group) \in Nat /\ group \in Seq(Info) /\ DOMAIN group = 1 .. Len(group)
           /\ file.head.cnt \in Nat /\ Len(group) <= file.head.cnt /\ ~Stopped
           /\ oper # "ARCHINFO"
           /\ \E l \in DOMAIN Archive :
                 /\ l = LastPos /\ Archive[l] = group[Len(group)] /\ Archive[l] \in Info
                 /\ Archive[l].magic = "OBJT" /\ Archive[l].form = "multi"
                 /\ Archive[l].off + 1 = Len(group) /\ Archive[l].cnt = file.head.cnt
                 /\ oper = "RESTFS" => Archive[l].fsid = fsi /\ fsi \in fsbitmap
<1>0. Sound /\ PathInv /\ GroupInv /\ PlaceInv BY OnlyFacts
<1>1. /\ group \in Seq(Info) /\ Len(group) \in Nat /\ DOMAIN group = 1 .. Len(group)
  BY <1>0, SoundFacts DEF RestoreTypeOK
<1>2. /\ Len(group) > 0 /\ Archive[LastPos] = group[Len(group)] /\ Len(group) <= file.head.cnt
      /\ \A k \in DOMAIN group :
            group[k].form = "multi" /\ group[k].off = k - 1 /\ group[k].cnt = file.head.cnt
  BY <1>0 DEF GroupInv
<1>3. Len(group) \in DOMAIN group BY <1>1, <1>2
<1>4. PICK x : x = group[Len(group)] OBVIOUS
<1>5. x \in Info /\ x.magic = "OBJT" BY <1>0, <1>3, <1>4, SoundFacts DEF WorkInv, Pending
<1>6. x.form = "multi" /\ x.off = Len(group) - 1 /\ x.cnt = file.head.cnt /\ x.cnt \in Nat
  BY <1>2, <1>3, <1>4, <1>5, ArchiveAssumption
<1>7. x.off + 1 = Len(group) BY <1>1, <1>6
<1>8. InObjects BY DEF InObjects
<1>9. /\ got # <<>> /\ oper # "ARCHINFO"
      /\ oper = "RESTFS" => Archive[LastPos].fsid = fsi /\ fsi \in fsbitmap
  BY <1>0, <1>8 DEF PathInv, PlaceInv
<1>10. PICK l \in DOMAIN Archive : l = LastPos BY <1>0, <1>9, LastItem
<1>11. ~Stopped BY DEF Stopped
<1>12. Archive[l] = x /\ (oper = "RESTFS" => Archive[l].fsid = fsi /\ fsi \in fsbitmap)
  BY <1>2, <1>4, <1>9, <1>10
<1> QED BY <1>1, <1>2, <1>4, <1>5, <1>6, <1>7, <1>9, <1>10, <1>11, <1>12

\* The headers of a group come one after the other.
LEMMA GroupGrows ==
    ASSUME OnlyOK, Main, main_group_header
    PROVE  PlainInv'
<1>0. /\ SoundArchive /\ Sound /\ ReaderEndInv /\ OnlyData /\ GroupInv /\ ret = 0 /\ errors = 0
  BY OnlyFacts
<1>1. /\ mainpc = "multi" /\ Len(group) < file.head.cnt BY DEF main_group_header
<1>2. /\ Len(group) \in Nat /\ group \in Seq(Info) /\ DOMAIN group = 1 .. Len(group)
      /\ file.head.cnt \in Nat /\ ~Stopped /\ oper # "ARCHINFO"
  BY <1>1, LastOfGroup
<1>3. PICK l \in DOMAIN Archive :
         /\ l = LastPos /\ Archive[l] = group[Len(group)] /\ Archive[l] \in Info
         /\ Archive[l].magic = "OBJT" /\ Archive[l].form = "multi"
         /\ Archive[l].off + 1 = Len(group) /\ Archive[l].cnt = file.head.cnt
         /\ oper = "RESTFS" => Archive[l].fsid = fsi /\ fsi \in fsbitmap
  BY <1>1, LastOfGroup
<1>4. PICK r : /\ NextQueued(l, r) /\ Follows(l, r) /\ Archive[r].fsid = Archive[l].fsid
               /\ Archive[r] = [Archive[l] EXCEPT !.obj = Archive[r].obj, !.off = @ + 1]
  <2>1. PICK r : /\ NextQueued(l, r) /\ Follows(l, r) /\ Archive[r].fsid = Archive[l].fsid
                 /\ IF Archive[l].off + 1 < Archive[l].cnt
                    THEN Archive[r] = [Archive[l] EXCEPT !.obj = Archive[r].obj, !.off = @ + 1]
                    ELSE Archive[r].magic = "BLKH"
    BY <1>0, <1>2, <1>3, AfterSmallFile
  <2>2. Archive[l].off + 1 < Archive[l].cnt BY <1>1, <1>3
  <2> QED BY <2>1, <2>2
<1>5. PICK x : x = Archive[r] OBVIOUS
<1>6. /\ r \in DOMAIN Archive /\ r \in Nat /\ l \in Nat /\ x \in Info
  <2>1. r \in DOMAIN Archive BY <1>4 DEF NextQueued
  <2>2. \A p \in DOMAIN Archive : p \in Nat BY ArchiveItems
  <2>3. Archive[r] \in Info BY <2>1, ArchiveItems
  <2> QED BY <1>5, <2>1, <2>2, <2>3
<1>7. /\ x.magic = "OBJT" /\ x.form = "multi" /\ x.off = Len(group) /\ x.cnt = file.head.cnt
  <2>1. PICK y : y = Archive[l] OBVIOUS
  <2>2. y \in [magic: STRING, fsid: Nat, obj: Nat, off: Nat, cnt: Nat, form: STRING]
    BY <1>3, <2>1, ArchiveAssumption
  <2>3. x = [y EXCEPT !.obj = x.obj, !.off = @ + 1] BY <1>4, <1>5, <2>1
  <2>4. x.magic = y.magic /\ x.form = y.form /\ x.off = y.off + 1 /\ x.cnt = y.cnt BY <2>2, <2>3
  <2> QED BY <1>3, <2>1, <2>4
<1>8. Comes(r) BY <1>0, <1>2, <1>3, <1>4, NextComes
<1>9. /\ ~DequeueFails("HEADER")
      /\ TakeHeader => queue[1].info = x /\ LastPos' = r /\ got' # <<>>
  BY <1>0, <1>5, <1>7, <1>8, HeaderComes
<1>10. /\ mainpc' = "multi" /\ ret' = ret /\ LastPos' = r /\ got' # <<>>
       /\ group' = Append(group, x) /\ file' = file /\ fsi' = fsi /\ errors' = errors
  BY <1>1, <1>7, <1>9 DEF main_group_header
<1>11. PathInv'
  <2>1. oper = "RESTFS" => Archive[r].fsid = fsi /\ fsi \in fsbitmap BY <1>3, <1>4
  <2> QED BY <1>10, <2>1 DEF PathInv, InObjects, InFile
<1>12. /\ Len(group') = Len(group) + 1 /\ DOMAIN group' = 1 .. Len(group) + 1
       /\ \A k \in 1 .. Len(group) : group'[k] = group[k]
       /\ group'[Len(group) + 1] = x
  BY <1>2, <1>6, <1>10, AppendShape
<1>13. ASSUME NEW p \in DOMAIN Archive, p <= l, \A y \in p .. l : Archive[y].magic # "BLKH"
       PROVE  p <= r /\ \A y \in p .. r : Archive[y].magic # "BLKH"
  <2>1. p \in Nat /\ l < r BY <1>4, <1>13, ArchiveItems DEF Follows
  <2>2. ASSUME NEW y \in p .. r PROVE Archive[y].magic # "BLKH"
    <3>1. y \in p .. l \/ y \in l + 1 .. r - 1 \/ y = r BY <1>6, <2>1
    <3>2. y \in l + 1 .. r - 1 => Archive[y].magic = "VOLF" BY <1>4 DEF Follows
    <3> QED BY <1>5, <1>7, <1>13, <3>1, <3>2
  <2> QED BY <1>6, <1>13, <2>1, <2>2
<1>14. ASSUME NEW k \in DOMAIN group'
       PROVE  /\ group'[k].form = "multi" /\ group'[k].off = k - 1
              /\ group'[k].cnt = file.head.cnt
              /\ \E p \in DOMAIN Archive :
                    /\ Archive[p] = group'[k] /\ p <= r
                    /\ \A y \in p .. r : Archive[y].magic # "BLKH"
  <2>1. CASE k \in 1 .. Len(group)
    <3>1. /\ group[k].form = "multi" /\ group[k].off = k - 1 /\ group[k].cnt = file.head.cnt
          /\ \E p \in DOMAIN Archive :
                /\ Archive[p] = group[k] /\ p <= l
                /\ \A y \in p .. l : Archive[y].magic # "BLKH"
      BY <1>0, <1>1, <1>2, <1>3, <2>1 DEF GroupInv
    <3>2. group'[k] = group[k] BY <1>12, <2>1
    <3> QED BY <1>13, <3>1, <3>2
  <2>2. CASE k = Len(group) + 1
    <3>1. k - 1 = Len(group) BY <1>2, <2>2
    <3>2. \A y \in r .. r : y = r BY <1>6
    <3>3. r <= r BY <1>6
    <3>4. \A y \in r .. r : Archive[y].magic # "BLKH" BY <1>5, <1>7, <3>2
    <3> QED BY <1>5, <1>6, <1>7, <1>12, <2>2, <3>1, <3>3, <3>4
  <2> QED BY <1>2, <1>12, <1>14, <2>1, <2>2
<1>15. GroupInv'
  <2>1. Len(group') > 0 /\ Len(group') <= file.head.cnt BY <1>1, <1>2, <1>12
  <2>2. Archive[LastPos'] = group'[Len(group')] BY <1>5, <1>10, <1>12
  <2> QED BY <1>10, <1>14, <2>1, <2>2 DEF GroupInv
<1>16. ContentsInv' BY <1>10 DEF ContentsInv, InFile
<1> QED BY <1>0, <1>10, <1>11, <1>15, <1>16 DEF PlainInv
\* Their block comes after the last one, and it is the first block after each.
LEMMA GroupBlockComes ==
    ASSUME OnlyOK, Main, main_group_block
    PROVE  \E r \in DOMAIN Archive :
              /\ LastPos' = r /\ got' # <<>> /\ Complete(r)
              /\ oper = "RESTFS" => Archive[r].fsid = fsi /\ fsi \in fsbitmap
              /\ restore_files(Len(group), queue[1].info)
              /\ r \notin damaged => /\ queue[1].info.form = "clear"
                                     /\ Archive[r] = [queue[1].info EXCEPT !.form = "packed"]
              /\ \A k \in DOMAIN group : \E p \in DOMAIN Archive : Archive[p] = group[k] /\ BlockAfter(p, r)
<1>0. /\ SoundArchive /\ Sound /\ ReaderEndInv /\ OnlyData /\ GroupInv /\ ClearInv
  BY OnlyFacts
<1>1. /\ mainpc = "multi" /\ Len(group) >= file.head.cnt BY DEF main_group_block
<1>2. /\ Len(group) \in Nat /\ Len(group) <= file.head.cnt
      /\ file.head.cnt \in Nat /\ ~Stopped /\ oper # "ARCHINFO"
  BY <1>1, LastOfGroup
<1>3. PICK l \in DOMAIN Archive :
         /\ l = LastPos /\ Archive[l].magic = "OBJT" /\ Archive[l].form = "multi"
         /\ Archive[l].off + 1 = Len(group) /\ Archive[l].cnt = file.head.cnt
         /\ oper = "RESTFS" => Archive[l].fsid = fsi /\ fsi \in fsbitmap
  BY <1>1, LastOfGroup
<1>4. PICK r : /\ NextQueued(l, r) /\ Follows(l, r) /\ Archive[r].fsid = Archive[l].fsid
               /\ Archive[r].magic = "BLKH"
  <2>1. PICK r : /\ NextQueued(l, r) /\ Follows(l, r) /\ Archive[r].fsid = Archive[l].fsid
                 /\ IF Archive[l].off + 1 < Archive[l].cnt
                    THEN Archive[r] = [Archive[l] EXCEPT !.obj = Archive[r].obj, !.off = @ + 1]
                    ELSE Archive[r].magic = "BLKH"
    BY <1>0, <1>2, <1>3, AfterSmallFile
  <2>2. ~(Archive[l].off + 1 < Archive[l].cnt) BY <1>1, <1>2, <1>3
  <2> QED BY <2>1, <2>2
<1>5. r \in DOMAIN Archive BY <1>4 DEF NextQueued
<1>6. Comes(r) BY <1>0, <1>2, <1>3, <1>4, NextComes
<1>7. PICK x : x = queue[1].info OBVIOUS
<1>8. /\ ~DequeueFails("BLOCK")
      /\ TakeBlock => /\ LastPos' = r /\ got' # <<>>
                      /\ r \notin damaged => x.form = "clear" /\ Archive[r] = [x EXCEPT !.form = "packed"]
  BY <1>0, <1>4, <1>6, <1>7, BlockComes
<1>9. TakeBlock /\ restore_files(Len(group), x)
  BY <1>0, <1>7, <1>8, NoOtherFault DEF main_group_block
<1>10. Complete(r) BY <1>3, <1>4, <1>5, BlockOfGroup
<1>11. ASSUME NEW k \in DOMAIN group
       PROVE  \E p \in DOMAIN Archive : Archive[p] = group[k] /\ BlockAfter(p, r)
  <2>1. PICK p \in DOMAIN Archive :
           /\ Archive[p] = group[k] /\ p <= l
           /\ \A y \in p .. l : Archive[y].magic # "BLKH"
    BY <1>0, <1>1, <1>3, <1>11 DEF GroupInv
  <2>2. p \in Nat /\ l \in Nat /\ r \in Nat
    <3>1. \A y \in DOMAIN Archive : y \in Nat BY ArchiveItems
    <3> QED BY <1>5, <3>1
  <2>3. l < r /\ \A y \in l + 1 .. r - 1 : Archive[y].magic = "VOLF" BY <1>4 DEF Follows
  <2>4. ASSUME NEW y \in p + 1 .. r - 1 PROVE Archive[y].magic # "BLKH"
    <3>1. y \in p .. l \/ y \in l + 1 .. r - 1 BY <2>1, <2>2, <2>3
    <3> QED BY <2>1, <2>3, <3>1
  <2>5. BlockAfter(p, r) BY <1>4, <2>1, <2>2, <2>3, <2>4 DEF BlockAfter
  <2> QED BY <2>1, <2>5
<1>12. oper = "RESTFS" => Archive[r].fsid = fsi /\ fsi \in fsbitmap BY <1>3, <1>4
<1> QED BY <1>5, <1>7, <1>8, <1>9, <1>10, <1>11, <1>12

\* The group is restored.
LEMMA GroupEnds ==
    ASSUME OnlyOK, Main, main_group_block
    PROVE  PlainInv'
<1>0. ret = 0 /\ errors = 0 BY OnlyFacts
<1>1. PICK r \in DOMAIN Archive :
         /\ LastPos' = r /\ got' # <<>> /\ Complete(r)
         /\ oper = "RESTFS" => Archive[r].fsid = fsi /\ fsi \in fsbitmap
         /\ restore_files(Len(group), queue[1].info)
  BY GroupBlockComes
<1>2. /\ mainpc' = "next" /\ ret' = ret /\ fsi' = fsi /\ errors' = errors
  <2>1. SmallFiles({Len(group) + 1} \cap DOMAIN group) = {}
    <3>1. Len(group) \in Nat /\ DOMAIN group = 1 .. Len(group) BY LastOfGroup DEF main_group_block
    <3>2. {Len(group) + 1} \cap DOMAIN group = {} BY <3>1
    <3>3. \A S : S = {} => SmallFiles(S) = {} BY DEF SmallFiles
    <3> QED BY <3>2, <3>3
  <2>2. mainpc' = "next" /\ ret' = ret BY <1>1, <2>1 DEF restore_files, Goto
  <2> QED BY <2>2 DEF main_group_block
<1>3. Complete(LastPos)' BY <1>1 DEF Complete
<1>4. PathInv' BY <1>1, <1>2, <1>3 DEF PathInv, InObjects, InFile
<1>5. ContentsInv' /\ GroupInv' BY <1>2 DEF ContentsInv, GroupInv, InFile
<1> QED BY <1>0, <1>2, <1>4, <1>5 DEF PlainInv

\* The end
LEMMA EndSteps ==
    ASSUME OnlyOK, Main,
           \/ main_check \/ main_stop \/ main_wait \/ main_drain \/ main_destroy
           \/ main_join_decomp \/ main_join_reader
    PROVE  PlainInv'
<1>0. ret = 0 /\ errors = 0 /\ ~aborted /\ Sound BY OnlyFacts
<1>1. /\ mainpc' \in {"stop", "wait", "drain", "destroy", "joindecomp", "joinreader", "done"}
      /\ ret' = ret /\ errors' = errors
  <2>1. mainpc = "check" => ~get_interrupted BY <1>0, SoundFacts DEF EndsInv, Stopped, get_interrupted
  <2> QED BY <2>1 DEF main_check, main_stop, main_wait, main_drain, main_destroy, main_join_decomp,
         main_join_reader, Goto, Error, workvars
<1> QED BY <1>0, <1>1 DEF PlainInv, PathInv, ContentsInv, GroupInv, InObjects, InFile

\* A step of another thread
LEMMA OthersStep ==
    ASSUME OnlyOK, Sound', [Next]_vars, ~Main
    PROVE  PlainInv'
<1>0. /\ Sound /\ ret = 0 /\ errors = 0 /\ PathInv /\ ContentsInv /\ GroupInv /\ FlowInv /\ NoneLost
  BY OnlyFacts
<1>1. UNCHANGED <<job, mainpc, fsi, file, group, errors, ret, got>> BY OtherStep
<1>2. damaged \subseteq damaged' /\ \A n \in 1 .. Len(sent) : origin'[n] = origin[n] BY <1>0, AnyStep
<1>3. PICK l : l = LastPos OBVIOUS
<1>4. LastPos' = l
  <2>1. CASE got = <<>> BY <1>1, <1>3, <2>1 DEF LastPos
  <2>2. CASE got # <<>>
    <3>1. PICK g : g = Len(got) OBVIOUS
    <3>2. g \in 1 .. Len(sent) BY <1>0, <2>2, <3>1, LastItem, Lengths
    <3>3. origin'[g] = origin[g] BY <1>2, <3>2
    <3> QED BY <1>1, <1>3, <2>2, <3>1, <3>3 DEF LastPos
  <2> QED BY <2>1, <2>2
<1>5. PathInv' BY <1>0, <1>1, <1>3, <1>4 DEF PathInv, InObjects, InFile, Complete
<1>6. GroupInv' BY <1>0, <1>1, <1>3, <1>4 DEF GroupInv
<1>7. ASSUME InFile', mainpc' = "footer" PROVE filepos' = file'.head.cnt /\ OnTrack'
  <2>1. filepos = file.head.cnt /\ OnTrack /\ got # <<>>
    BY <1>0, <1>1, <1>7 DEF ContentsInv, InFile, PathInv, InObjects
  <2>2. filepos' = filepos BY <1>1 DEF filepos
  <2>3. PICK g : g = Len(got) OBVIOUS
  <2>4. g \in 1 .. Len(sent) BY <1>0, <2>1, <2>3, LastItem, Lengths
  <2>5. origin'[g] = origin[g] /\ Len(got') = g BY <1>1, <1>2, <2>3, <2>4
  <2>6. OnTrack' BY <1>1, <2>1, <2>2, <2>3, <2>5 DEF OnTrack
  <2> QED BY <1>1, <2>1, <2>2, <2>6
<1>8. ASSUME InFile', NEW o, o = file.head.obj, ~Hurt(o)'
      PROVE  /\ ~excluded => ~file.minorerr
             /\ \A n \in DOMAIN file.data : file.data[n] = Block(file.head.fsid, o, n - 1)
  <2>1. ~Hurt(o) BY <1>2, <1>8 DEF Hurt
  <2> QED BY <1>0, <1>1, <1>8, <2>1 DEF ContentsInv, InFile
<1>9. ContentsInv'
  <2>1. SUFFICES ASSUME InFile'
                 PROVE  /\ file.head.fsid = fsi /\ ~file.fatalerr
                        /\ excluded' <=> excluded
    BY <1>1, <1>7, <1>8, <2>1 DEF ContentsInv
  <2>2. InFile BY <1>1, <2>1 DEF InFile
  <2> QED BY <1>0, <1>1, <2>2 DEF ContentsInv, excluded, Excluded
<1> QED BY <1>0, <1>1, <1>5, <1>6, <1>9 DEF PlainInv

\* Where the main thread is, if only data are damaged
LEMMA PlainStep ==
    ASSUME OnlyOK, Sound', [Next]_vars
    PROVE  PlainInv'
<1>1. CASE Main
  BY <1>1, BeginSteps, FsSteps, ObjectSteps, LoopSteps, BlockStep, FooterStep, ClosedStep,
     GroupGrows, GroupEnds, EndSteps DEF Main
<1>2. CASE ~Main BY <1>2, OthersStep
<1> QED BY <1>1, <1>2
\* What the last conjunct of OnlyDataInv says of one object
Kept(o) == o \in counted \/ AtWork(o) \/ Hurt(o)

\* A group is restored, but for the files of a damaged block.
LEMMA GroupKept ==
    ASSUME OnlyOK, Main, main_group_block, NEW k \in DOMAIN group, NEW o, o = group[k].obj, o \notin Excluded
    PROVE  o \in counted' \/ Hurt(o)
<1>0. OnlyData /\ GroupInv BY OnlyFacts
<1>1. PICK b : b = queue[1].info OBVIOUS
<1>2. PICK r \in DOMAIN Archive :
         /\ restore_files(Len(group), b)
         /\ r \notin damaged => b.form = "clear" /\ Archive[r] = [b EXCEPT !.form = "packed"]
         /\ \A j \in DOMAIN group : \E p \in DOMAIN Archive : Archive[p] = group[j] /\ BlockAfter(p, r)
  BY <1>1, GroupBlockComes
<1>3. PICK p \in DOMAIN Archive : Archive[p] = group[k] /\ BlockAfter(p, r) BY <1>2
<1>4. group[k].form = "multi" BY <1>0 DEF GroupInv, main_group_block
<1>5. r \in damaged => Hurt(o)
  <2>1. Archive[p].obj = o /\ Archive[p].form = "multi" BY <1>3, <1>4
  <2>2. r \in ItemsOf(o) BY <1>3, <2>1 DEF ItemsOf
  <2> QED BY <2>2 DEF Hurt
<1>6. ASSUME r \notin damaged PROVE o \in counted'
  <2>1. InBlock(group[k], b) BY <1>2, <1>3, <1>6 DEF InBlock
  <2>2. k \in 1 .. Len(group) BY LastOfGroup DEF main_group_block
  <2> DEFINE ks == {j \in 1 .. Len(group) : InBlock(group[j], b)}
  <2>3. k \in ks BY <2>1, <2>2
  <2> HIDE DEF ks
  <2>4. o \in SmallFiles(ks) BY <1>4, <2>3 DEF SmallFiles
  <2> DEFINE sound == SmallFiles(ks)
  <2>5. PICK unopened \in {{}}, noattr \in {{}} : counted' = counted \cup (sound \ (unopened \cup noattr))
    BY <1>0, <1>2, NoOtherFault DEF restore_files, Failing, ks
  <2> QED BY <2>4, <2>5
<1> QED BY <1>5, <1>6

\* What has come has been restored, or something of it was damaged.
LEMMA KeptStep ==
    ASSUME OnlyOK, Sound', [Next]_vars, NEW o \in TakenObjs', o \notin Excluded
    PROVE  Kept(o)'
<1>0. /\ SoundArchive /\ WholeArchive /\ Sound /\ FlowInv /\ DatfInv /\ OnlyData /\ NoneLost
      /\ ~aborted /\ ContentsInv /\ errors = 0
      /\ o \in TakenObjs => Kept(o)
  BY OnlyFacts DEF Kept
<1>1. ret' = 0 /\ errors' = 0 BY PlainStep DEF PlainInv
<1>2. Hurt(o) => Hurt(o)'
  <2>1. damaged \subseteq damaged' BY <1>0, AnyStep
  <2> QED BY <2>1 DEF Hurt
<1>3. CASE ~Main
  <2>1. UNCHANGED <<mainpc, file, group, counted, got>> BY <1>3, OtherStep
  <2>2. o \in TakenObjs BY <2>1 DEF TakenObjs
  <2> QED BY <1>0, <1>2, <2>1, <2>2 DEF Kept, AtWork, InFile
<1>4. ASSUME Main, o \notin TakenObjs
      PROVE  /\ Takes /\ queue[1].info.magic = "OBJT" /\ o = queue[1].info.obj /\ queue # <<>>
             /\ queue[1].type # "BLOCK" /\ sent[Len(got) + 1].magic = "OBJT" /\ got' # got
  <2>1. got' # got BY <1>4 DEF TakenObjs
  <2> QED BY <1>0, <1>4, <2>1, NewObject
<1>5. CASE main_peek /\ Main
  <2>1. mainpc = "peek" /\ counted' = counted BY <1>5 DEF main_peek
  <2>2. CASE o \in TakenObjs
    <3>1. ~AtWork(o) BY <2>1 DEF AtWork, InFile
    <3> QED BY <1>0, <1>2, <2>1, <2>2, <3>1 DEF Kept
  <2>3. CASE o \notin TakenObjs
    <3>1. queue[1].info.magic = "OBJT" /\ o = queue[1].info.obj /\ got' # got /\ queue # <<>>
      BY <1>4, <1>5, <2>3
    <3>2. /\ mainpc' = queue[1].info.form /\ file' = NewFile(queue[1].info)
          /\ group' = <<queue[1].info>>
      BY <1>0, <1>1, <1>5, <3>1 DEF main_peek, Goto, Local
    <3>3. mainpc' \in {"node", "unique", "multi"}
      BY <1>0, <3>1, <3>2, KindOfObject, SoundFacts DEF QueueInv
    <3>4. file'.head.obj = o BY <3>1, <3>2 DEF NewFile
    <3>5. 1 \in DOMAIN group' /\ group'[1].obj = o BY <3>1, <3>2
    <3>6. AtWork(o)' BY <3>3, <3>4, <3>5 DEF AtWork, InFile
    <3> QED BY <3>6 DEF Kept
  <2> QED BY <2>2, <2>3
<1>6. CASE main_node /\ Main
  <2>1. mainpc = "node" /\ got' = got BY <1>6 DEF main_node, Local
  <2>2. o \in TakenObjs BY <2>1 DEF TakenObjs
  <2>3. counted \subseteq counted' BY <1>6 DEF main_node
  <2>4. o = file.head.obj => o \in counted'
    BY <1>0, <1>6, NoOtherFault DEF main_node, excluded, restore_attr
  <2>5. AtWork(o) => o = file.head.obj BY <2>1 DEF AtWork
  <2> QED BY <1>0, <1>2, <2>2, <2>3, <2>4, <2>5 DEF Kept
<1>7. CASE FileStep /\ Main
  <2>1. InFile /\ InFile' /\ file'.head = file.head /\ counted' = counted
    BY <1>0, <1>7, FileStepFacts
  <2>2. o \in TakenObjs
    <3>1. CASE main_file_block
      <4>1. SUFFICES ASSUME o \notin TakenObjs PROVE FALSE OBVIOUS
      <4>2. queue[1].type # "BLOCK" /\ got' # got BY <1>4, <1>7, <4>1
      <4> QED BY <3>1, <4>2 DEF main_file_block, TakeBlock, queue_dequeue_block, DequeueFails, Local
    <3>2. CASE main_file_footer BY <1>0, <1>7, <3>2, FooterIsNoObject
    <3>3. CASE main_file_open \/ main_file_loop
      BY <3>3 DEF main_file_open, main_file_loop, Local, TakenObjs
    <3> QED BY <1>7, <3>1, <3>2, <3>3 DEF FileStep
  <2>3. AtWork(o) => AtWork(o)'
    <3>1. AtWork(o) => o = file.head.obj BY <2>1 DEF AtWork, InFile
    <3> QED BY <2>1, <3>1 DEF AtWork
  <2> QED BY <1>0, <1>2, <2>1, <2>2, <2>3 DEF Kept
<1>8. CASE main_file_end /\ Main
  <2>1. mainpc = "fileend" /\ got' = got BY <1>8 DEF main_file_end, Local
  <2>2. o \in TakenObjs BY <2>1 DEF TakenObjs
  <2>3. counted \subseteq counted' BY <1>8 DEF main_file_end
  <2>4. AtWork(o) => o = file.head.obj BY <2>1 DEF AtWork
  <2>5. o = file.head.obj /\ ~Hurt(o) => o \in counted'
    BY <1>0, <1>8, <2>1 DEF ContentsInv, InFile, main_file_end, excluded
  <2> QED BY <1>0, <1>2, <2>2, <2>3, <2>4, <2>5 DEF Kept
<1>9. CASE main_group_header /\ Main
  <2>1. /\ mainpc = "multi" /\ mainpc' = mainpc /\ UNCHANGED <<file, counted>>
        /\ TakeHeader /\ queue[1].info.magic = "OBJT" /\ group' = Append(group, queue[1].info)
    BY <1>1, <1>9 DEF main_group_header, Error
  <2>2. group \in Seq(Info) /\ queue[1].info \in Info
    <3>1. \A i \in DOMAIN queue : queue[i].info \in Info BY <1>0, SoundFacts, ItemNumbers
    <3>2. 1 \in DOMAIN queue BY <1>0, <2>1, SoundFacts, ItemNumbers DEF TakeHeader, queue_dequeue_header, HeadReady
    <3> QED BY <1>0, <3>1, <3>2, SoundFacts DEF RestoreTypeOK
  <2>3. /\ DOMAIN group' = 1 .. Len(group) + 1 /\ group'[Len(group) + 1] = queue[1].info
        /\ \A k \in 1 .. Len(group) : group'[k] = group[k]
        /\ Len(group) \in Nat /\ DOMAIN group = 1 .. Len(group)
    BY <2>1, <2>2, AppendShape
  <2>4. \A k \in DOMAIN group : k \in DOMAIN group' /\ group'[k] = group[k] BY <2>3
  <2>5. AtWork(o) => AtWork(o)' BY <2>1, <2>4 DEF AtWork, InFile
  <2>6. CASE o \in TakenObjs BY <1>0, <1>2, <2>1, <2>5, <2>6 DEF Kept
  <2>7. CASE o \notin TakenObjs
    <3>1. o = queue[1].info.obj BY <1>4, <1>9, <2>7
    <3>2. Len(group) + 1 \in DOMAIN group' BY <2>3
    <3>3. AtWork(o)' BY <2>1, <2>3, <3>1, <3>2 DEF AtWork
    <3> QED BY <3>3 DEF Kept
  <2> QED BY <2>6, <2>7
<1>10. CASE main_group_block /\ Main
  <2>1. mainpc = "multi" BY <1>10 DEF main_group_block
  <2>2. o \in TakenObjs
    <3>1. SUFFICES ASSUME o \notin TakenObjs PROVE FALSE OBVIOUS
    <3>2. queue[1].type # "BLOCK" /\ got' # got BY <1>4, <1>10, <3>1
    <3> QED BY <1>10, <3>2 DEF main_group_block, TakeBlock, queue_dequeue_block, DequeueFails, Local
  <2>3. counted \subseteq counted' BY <1>10 DEF main_group_block, restore_files
  <2>4. AtWork(o) => \E k \in DOMAIN group : o = group[k].obj BY <2>1 DEF AtWork, InFile
  <2>5. AtWork(o) => o \in counted' \/ Hurt(o) BY <1>10, <2>4, GroupKept
  <2> QED BY <1>0, <1>2, <2>2, <2>3, <2>5 DEF Kept
<1>11. CASE /\ ~main_peek /\ ~main_node /\ ~FileStep /\ ~main_file_end /\ ~main_group_header
            /\ ~main_group_block /\ Main
  <2>1. /\ mainpc \notin {"node", "multi"} /\ ~InFile /\ counted' = counted
        /\ got' = got \/ ret' = -1 \/ queue[1].info.magic # "OBJT" \/ mainpc = "objend"
    BY <1>11 DEF Main, FileStep, InFile, Goto, Error, Local, DequeueFails, workvars,
       main_create_decomp, main_create_reader, main_mainhead, main_fsinfo, main_begin, main_fs,
       main_fsyb, main_next, main_objend, main_check, main_stop, main_wait, main_drain, main_destroy,
       main_join_decomp, main_join_reader
  <2>2. ~AtWork(o) BY <2>1 DEF AtWork
  <2>3. o \in TakenObjs
    <3>1. SUFFICES ASSUME o \notin TakenObjs PROVE FALSE OBVIOUS
    <3>2. mainpc = "objend" /\ sent[Len(got) + 1].magic = "OBJT" BY <1>1, <1>4, <1>11, <2>1, <3>1
    <3> QED BY <1>0, <3>2 DEF DatfInv
  <2> QED BY <1>0, <1>2, <2>1, <2>2, <2>3 DEF Kept
<1> QED BY <1>3, <1>5, <1>6, <1>7, <1>8, <1>9, <1>10, <1>11
\* Before the first step
LEMMA OnlyInit == ASSUME Init PROVE OnlyDataInv
<1> USE DEF Init
<1>0. got = <<>> /\ queue = <<>> BY DEF ThreadsInit, queue_init
<1>1. \A n : n \notin DOMAIN got /\ n \notin DOMAIN queue BY ONLY <1>0
<1>2. TakenObjs = {} BY <1>1 DEF TakenObjs
<1>3. ClearInv BY <1>1 DEF ClearInv
<1>4. PathInv /\ ContentsInv /\ GroupInv BY DEF PathInv, ContentsInv, GroupInv, InObjects, InFile
<1>5. ~aborted BY DEF ThreadsInit
<1> QED BY <1>2, <1>3, <1>4, <1>5 DEF OnlyDataInv

\* One step
LEMMA OnlyStep ==
    ASSUME SoundArchive, Sound, Sound', WholeInv, OnlyDataInv, [Next]_vars
    PROVE  OnlyDataInv'
<1>1. job' = job BY AnyStep
<1> SUFFICES ASSUME OnlyData
             PROVE  /\ ret' = 0 /\ errors' = 0 /\ ~aborted'
                    /\ ClearInv' /\ PathInv' /\ ContentsInv' /\ GroupInv'
                    /\ \A o \in TakenObjs' \ Excluded : Kept(o)'
  BY <1>1 DEF OnlyDataInv, OnlyData, Excluded, Kept
<1>2. OnlyOK BY DEF OnlyOK
<1>3. PlainInv' BY <1>2, PlainStep
<1>4. ClearInv' BY <1>2, OnlyFacts, ClearStep
<1>5. ~aborted'
  <2>1. aborted' = aborted BY NoOtherFault, AnyStep
  <2> QED BY <1>2, <2>1, OnlyFacts
<1>6. \A o \in TakenObjs' \ Excluded : Kept(o)' BY <1>2, KeptStep
<1> QED BY <1>3, <1>4, <1>5, <1>6 DEF PlainInv

\* The state at the end, if only data are damaged
LEMMA EndIsKept ==
    ASSUME SoundArchive, Sound, WholeInv, OnlyDataInv PROVE OnlyDamagedIsLost
<1> SUFFICES ASSUME mainpc = "done", OnlyData, oper # "ARCHINFO", NEW o \in Requested, ~Hurt(o)
             PROVE  disk[o] = "good"
  BY DEF OnlyDamagedIsLost
<1>1. OnlyOK BY DEF OnlyOK
<1>2. ret = 0 /\ NoneLost /\ Stopped BY <1>1, OnlyFacts DEF Stopped
<1>3. PICK p \in DOMAIN Archive : /\ Archive[p].magic = "OBJT" /\ wanted(Archive[p])
                                  /\ o = Archive[p].obj /\ o \notin Excluded
  BY DEF Requested
<1>4. PICK n \in DOMAIN got : origin[n] = p BY <1>2, <1>3 DEF WholeInv, CameInv, AllCame
<1>5. n \in DOMAIN sent /\ got[n] \in Unpacked(sent[n]) BY Lengths, SoundFacts DEF GotIsSent
<1>6. Alike(got[n], Archive[p]) BY <1>4, <1>5, TakenIsAlike
<1>7. o \in TakenObjs BY <1>3, <1>6 DEF TakenObjs, Alike
<1>8. ~AtWork(o) BY DEF AtWork, InFile
<1>9. o \in counted BY <1>1, <1>3, <1>7, <1>8, OnlyFacts
<1>10. disk[o] = "good" \/ Usurped(o) BY <1>9, SoundFacts DEF WorkOK, CountedGood
<1>11. \A q \in damaged : Archive[q].magic = "BLKH" BY <1>1, OnlyFacts DEF ClearInv
<1> QED BY <1>10, <1>11 DEF Usurped

\* Damage to the data of the archive costs the files that were damaged, and no
\* other: for every archive that follows the grammar of a save, every exclusion,
\* every choice of file systems and any number of damaged blocks.
THEOREM OnlyTheDamagedIsLost == SoundArchive => (Spec => []OnlyDamagedIsLost)
<1> SUFFICES ASSUME SoundArchive PROVE Spec => []OnlyDamagedIsLost OBVIOUS
<1>0. WholeArchive BY DEF SoundArchive
<1>1. Init => OnlyDataInv BY OnlyInit
<1>2. Sound /\ Sound' /\ WholeInv /\ OnlyDataInv /\ [Next]_vars => OnlyDataInv' BY OnlyStep
<1>3. Sound /\ WholeInv /\ OnlyDataInv => OnlyDamagedIsLost BY EndIsKept
<1>4. Spec => [](Sound /\ WholeInv) BY <1>0, RestoreFollowsArchive
<1> HIDE DEF Init, Next, WholeInv, Sound, OnlyDataInv
<1> QED BY <1>1, <1>2, <1>3, <1>4, PTL DEF Spec
=============================================================================
