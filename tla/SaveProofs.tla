----------------------------- MODULE SaveProofs -----------------------------
(***************************************************************************)
(* savefs and savedir, for every list of trees, every number of threads,    *)
(* every limit of the queue and every set of faults: the pipeline uses the  *)
(* queue as QueueProtocol allows, transfers the items in order, and its     *)
(* archive is what its footer, its exit status and its flags say.           *)
(***************************************************************************)
EXTENDS SavePipeline, QueueProofs

-----------------------------------------------------------------------------
(* What the main thread builds *)

\* The number that save.fsid has while tree f is walked
FsidOf(f) == IF archtype = "FILESYSTEMS" THEN f ELSE 1

\* The headers that do not belong to an object
LEMMA PlainHeaders ==
    /\ Header("MAIN", 0, 0, 0, Len(Trees), "head") \in Info
    /\ Header("DIRS", 0, 0, 0, 0, "head") \in Info
    /\ Header("DATF", 0, 0, 0, 0, "head") \in Info
    /\ \A f \in DOMAIN Trees :
          /\ Header("FSIN", 0, 0, f, 0, "head") \in Info
          /\ Header("FSYB", f, 0, 0, 0, "head") \in Info
          /\ Header("DATF", f, 0, 0, 0, "head") \in Info
<1>1. \A x \in SaveInfo : x \in Info BY SaveInfoAssumption
<1>2. /\ Header("MAIN", 0, 0, 0, Len(Trees), "head") \in SaveInfo
      /\ Header("DIRS", 0, 0, 0, 0, "head") \in SaveInfo
      /\ Header("DATF", 0, 0, 0, 0, "head") \in SaveInfo
  BY DEF SaveInfo
<1>3. ASSUME NEW f \in DOMAIN Trees
      PROVE  /\ Header("FSIN", 0, 0, f, 0, "head") \in SaveInfo
             /\ Header("FSYB", f, 0, 0, 0, "head") \in SaveInfo
             /\ Header("DATF", f, 0, 0, 0, "head") \in SaveInfo
  BY DEF SaveInfo
<1> QED BY <1>1, <1>2, <1>3

\* The headers and blocks of an object
LEMMA ObjectHeaders ==
    ASSUME NEW f \in DOMAIN Trees, NEW i \in DOMAIN Trees[f], NEW o, o = Trees[f][i]
    PROVE  /\ o \in Objects
           /\ o.kind # "multi" => Header("OBJT", FsidOf(f), o.id, 0, o.blks, o.kind) \in Info
           /\ o.kind = "multi" => \A k \in 0 .. MaxSmallFiles - 1 : \A n \in 1 .. MaxSmallFiles :
                 Header("OBJT", FsidOf(f), o.id, k, n, "multi") \in Info
           /\ o.kind = "multi" => Block(FsidOf(f), o.id, 0) \in Info
           /\ o.kind # "multi" => \A b \in 0 .. o.blks - 1 : Block(FsidOf(f), o.id, b) \in Info
           /\ Header("FILF", FsidOf(f), o.id, 0, 0, "head") \in Info
<1>1. Trees \in Seq(Seq(Objects)) BY SaveAssumption
<1>2. Trees[f] \in Seq(Objects) BY <1>1
<1>3. o \in Objects BY <1>2
<1> DEFINE g == FsidOf(f)
<1>4. \A x \in ObjectInfo(g, o) : x \in Info
  BY SaveInfoAssumption DEF SaveInfo, FsidOf
<1> HIDE DEF g
<1>5. o.kind # "multi" => Header("OBJT", g, o.id, 0, o.blks, o.kind) \in ObjectInfo(g, o)
  BY DEF ObjectInfo
<1>6. ASSUME o.kind = "multi", NEW k \in 0 .. MaxSmallFiles - 1, NEW n \in 1 .. MaxSmallFiles
      PROVE  Header("OBJT", g, o.id, k, n, "multi") \in ObjectInfo(g, o)
  BY <1>6 DEF ObjectInfo
<1>7. ASSUME NEW b PROVE Block(g, o.id, b) = [Block(g, o.id, b) EXCEPT !.form = "clear"]
  BY DEF Block, Header
<1>8. o.kind = "multi" => Block(g, o.id, 0) \in ObjectInfo(g, o)
  BY <1>7 DEF ObjectInfo
<1>9. ASSUME o.kind # "multi", NEW b \in 0 .. o.blks - 1
      PROVE  Block(g, o.id, b) \in ObjectInfo(g, o)
  BY <1>7, <1>9 DEF ObjectInfo
<1>10. Header("FILF", g, o.id, 0, 0, "head") \in ObjectInfo(g, o)
  BY DEF ObjectInfo
<1> QED BY <1>3, <1>4, <1>5, <1>6, <1>8, <1>9, <1>10 DEF g

-----------------------------------------------------------------------------
(* What each step does to the queue *)

\* A header or a block is queued and remembered.
Adds(info) ==
    /\ info \in Info
    /\ sent' = Append(sent, info)
    /\ \/ info.magic # "BLKH" /\ queue_add_header(info)
       \/ info.magic = "BLKH" /\ queue_add_block(info, "TODO")

\* Every step of the main thread is one of four kinds.
MainKind ==
    /\ UNCHANGED <<stopfillqueue, aborted, secthreads, witem, archive>>
    /\ \/ (\E info : Adds(info)) /\ UNCHANGED <<compvars, writerpc, archfile>>
       \/ /\ mainpc = "finish" /\ queue_set_end_of_queue
          /\ UNCHANGED <<sent, compvars, writerpc, archfile>>
       \/ /\ \E t \in CompThreads : create_comp(t)
          /\ UNCHANGED <<sent, writerpc, archfile>>
       \/ UNCHANGED <<queuevars, sent, compvars>>

\* A header that AddHeader() queues is one step of the first kind ...
LEMMA AddsHeader ==
    ASSUME NEW magic, NEW f, NEW o, NEW off, NEW cnt, NEW form,
           Header(magic, f, o, off, cnt, form) \in Info, magic # "BLKH",
           AddHeader(Header(magic, f, o, off, cnt, form)),
           UNCHANGED <<syncvars, compvars, writervars>>
    PROVE  MainKind
<1>1. Header(magic, f, o, off, cnt, form).magic = magic BY DEF Header
<1>2. Adds(Header(magic, f, o, off, cnt, form)) BY <1>1 DEF Adds, AddHeader
<1> QED BY <1>2 DEF MainKind, syncvars, writervars

\* ... and so is a block.
LEMMA AddsBlock ==
    ASSUME NEW f, NEW o, NEW off, Block(f, o, off) \in Info,
           AddBlock(Block(f, o, off)),
           UNCHANGED <<syncvars, compvars, writervars>>
    PROVE  MainKind
<1>1. Block(f, o, off).magic = "BLKH" BY DEF Block, Header
<1>2. Adds(Block(f, o, off)) BY <1>1 DEF Adds, AddBlock
<1> QED BY <1>2 DEF MainKind, syncvars, writervars

\* A step that touches neither the queue nor the writer's items.
LEMMA LocalKind ==
    ASSUME Local, UNCHANGED <<syncvars, compvars, witem, archive>>
    PROVE  MainKind
BY DEF MainKind, Local, syncvars

\* The object that the main thread has in hand
LEMMA ObjectInHand ==
    ASSUME SaveTypeOK, WalkInv, mainpc \in {"save", "file", "block", "filf"}
    PROVE  /\ fsi \in DOMAIN Trees /\ obji \in DOMAIN Trees[fsi]
           /\ fsid = FsidOf(fsi)
           /\ Object = Trees[fsi][obji] /\ Object \in Objects
<1>1. fsi \in DOMAIN Trees BY SaveAssumption DEF WalkInv, InTree, SaveTypeOK
<1>2. Trees[fsi] \in Seq(Objects) BY <1>1, SaveAssumption
<1>3. obji \in DOMAIN Trees[fsi] BY <1>2 DEF WalkInv, SaveTypeOK
<1> QED BY <1>1, <1>2, <1>3 DEF fsid, FsidOf, Object

\* A small file of the group
LEMMA FileInGroup ==
    ASSUME SaveTypeOK, WalkInv, GroupInv, NEW k \in DOMAIN regmulti, InTree
    PROVE  /\ fsi \in DOMAIN Trees /\ fsid = FsidOf(fsi)
           /\ \A j \in 0 .. MaxSmallFiles - 1 : \A n \in 1 .. MaxSmallFiles :
                 Header("OBJT", fsid, regmulti[k], j, n, "multi") \in Info
           /\ Block(fsid, regmulti[k], 0) \in Info
<1>1. fsi \in DOMAIN Trees BY SaveAssumption DEF WalkInv, SaveTypeOK
<1>2. fsid = FsidOf(fsi) BY DEF fsid, FsidOf
<1>3. PICK i \in DOMAIN Trees[fsi] : /\ Trees[fsi][i].kind = "multi"
                                     /\ Trees[fsi][i].id = regmulti[k]
  BY DEF GroupInv
<1> QED BY <1>1, <1>2, <1>3, ObjectHeaders

\* The actions of oper_save(), one by one
LEMMA MainStep == ASSUME SaveTypeOK, WalkInv, GroupInv, Main PROVE MainKind
<1>1. CASE main_create_comp
  <2>1. CASE \E t \in CompThreads : comppc[t] = "none" /\ comppc' = [comppc EXCEPT ![t] = "created"]
    BY <1>1, <2>1 DEF main_create_comp, MainKind, create_comp, Local, writervars, syncvars
  <2>2. CASE UNCHANGED comppc
    BY <1>1, <2>2, LocalKind DEF main_create_comp, writervars, compvars
  <2> QED BY <1>1, <2>1, <2>2 DEF main_create_comp
<1>2. CASE main_create_writer BY <1>2, LocalKind DEF main_create_writer
<1>3. CASE main_mainhead BY <1>3, PlainHeaders, AddsHeader DEF main_mainhead
<1>4. CASE main_fsinfo
  <2>1. CASE archtype = "FILESYSTEMS" /\ fsi <= Len(Trees)
    <3>1. fsi \in DOMAIN Trees BY <2>1, SaveAssumption DEF SaveTypeOK, WalkInv
    <3>2. AddHeader(Header("FSIN", 0, 0, fsi, 0, "head")) BY <1>4, <2>1 DEF main_fsinfo
    <3> QED BY <1>4, <3>1, <3>2, PlainHeaders, AddsHeader DEF main_fsinfo
  <2>2. CASE archtype # "FILESYSTEMS"
    <3>1. AddHeader(Header("DIRS", 0, 0, 0, 0, "head")) BY <1>4, <2>2 DEF main_fsinfo
    <3> QED BY <1>4, <3>1, PlainHeaders, AddsHeader DEF main_fsinfo
  <2>3. CASE archtype = "FILESYSTEMS" /\ ~(fsi <= Len(Trees))
    BY <1>4, <2>3, LocalKind DEF main_fsinfo, writervars
  <2> QED BY <2>1, <2>2, <2>3
<1>5. CASE main_analyse_error BY <1>5, LocalKind DEF main_analyse_error, writervars
<1>6. CASE main_tree BY <1>6, LocalKind DEF main_tree, writervars
<1>7. CASE main_fsyb
  <2>1. fsi \in DOMAIN Trees /\ fsid \in DOMAIN Trees
    BY <1>7, SaveAssumption DEF SaveTypeOK, WalkInv, main_fsyb, fsid
  <2> QED BY <1>7, <2>1, PlainHeaders, AddsHeader DEF main_fsyb
<1>8. CASE main_object BY <1>8, LocalKind DEF main_object, writervars
<1>9. CASE main_save_node
  <2>1. Header("OBJT", fsid, Object.id, 0, Object.blks, Object.kind) \in Info
    BY <1>9, ObjectInHand, ObjectHeaders DEF main_save_node
  <2> QED BY <1>9, <2>1, AddsHeader DEF main_save_node
<1>10. CASE main_save_multi BY <1>10, LocalKind DEF main_save_multi, writervars
<1>11. CASE main_save_unique
  <2>1. Header("OBJT", fsid, Object.id, 0, Object.blks, Object.kind) \in Info
    BY <1>11, ObjectInHand, ObjectHeaders DEF main_save_unique
  <2> QED BY <1>11, <2>1, AddsHeader DEF main_save_unique
<1>12. CASE main_flush
  <2>1. InTree /\ regmulti \in Seq(Nat) /\ blki \in Nat BY <1>12 DEF main_flush, InTree, SaveTypeOK
  <2>2. CASE blki < Len(regmulti)
    <3>1. AddHeader(Header("OBJT", fsid, regmulti[blki + 1], blki, Len(regmulti), "multi"))
      BY <1>12, <2>2 DEF main_flush
    <3>2. blki + 1 \in DOMAIN regmulti /\ blki \in 0 .. MaxSmallFiles - 1
          /\ Len(regmulti) \in 1 .. MaxSmallFiles
      BY <2>1, <2>2, SaveAssumption DEF GroupInv
    <3>3. Header("OBJT", fsid, regmulti[blki + 1], blki, Len(regmulti), "multi") \in Info
      BY <2>1, <3>2, FileInGroup
    <3> QED BY <1>12, <3>1, <3>3, AddsHeader DEF main_flush
  <2>3. CASE ~(blki < Len(regmulti)) /\ regmulti # <<>>
    <3>1. AddBlock(Block(fsid, regmulti[1], 0)) BY <1>12, <2>1, <2>3 DEF main_flush, WalkInv
    <3>2. 1 \in DOMAIN regmulti BY <2>1, <2>3
    <3> QED BY <1>12, <2>1, <3>1, <3>2, FileInGroup, AddsBlock DEF main_flush
  <2>4. CASE ~(blki < Len(regmulti)) /\ regmulti = <<>>
    <3>1. Local BY <1>12, <2>1, <2>4 DEF main_flush, WalkInv
    <3> QED BY <1>12, <3>1, LocalKind DEF main_flush, writervars
  <2> QED BY <2>2, <2>3, <2>4
<1>13. CASE main_file BY <1>13, LocalKind DEF main_file, writervars
<1>14. CASE main_block
  <2>1. Object.kind = "unique" /\ blki \in 0 .. Object.blks - 1
    BY <1>14, ObjectInHand DEF main_block, WalkInv, SaveTypeOK, Objects
  <2>2. Block(fsid, Object.id, blki) \in Info
    BY <1>14, <2>1, ObjectInHand, ObjectHeaders DEF main_block
  <2> QED BY <1>14, <2>2, AddsBlock DEF main_block
<1>15. CASE main_filf
  <2>1. Header("FILF", fsid, Object.id, 0, 0, "head") \in Info
    BY <1>15, ObjectInHand, ObjectHeaders DEF main_filf
  <2> QED BY <1>15, <2>1, AddsHeader DEF main_filf
<1>16. CASE main_nexttree BY <1>16, LocalKind DEF main_nexttree, writervars
<1>17. CASE main_datf
  <2>1. archtype = "FILESYSTEMS" => fsi \in DOMAIN Trees /\ fsid \in DOMAIN Trees
    BY <1>17, SaveAssumption DEF SaveTypeOK, WalkInv, main_datf, fsid
  <2>2. Header("DATF", IF archtype = "FILESYSTEMS" THEN fsid ELSE 0, 0, 0, 0, "head") \in Info
    BY <2>1, PlainHeaders
  <2> QED BY <1>17, <2>2, AddsHeader DEF main_datf
<1>18. CASE main_check BY <1>18, LocalKind DEF main_check, writervars
<1>19. CASE main_finish BY <1>19 DEF main_finish, MainKind, syncvars, writervars
<1>20. CASE main_join_comp BY <1>20, LocalKind DEF main_join_comp, writervars
<1>21. CASE main_join_writer BY <1>21, LocalKind DEF main_join_writer
<1> QED
  BY <1>1, <1>2, <1>3, <1>4, <1>5, <1>6, <1>7, <1>8, <1>9, <1>10, <1>11, <1>12, <1>13, <1>14,
     <1>15, <1>16, <1>17, <1>18, <1>19, <1>20, <1>21 DEF Main

\* The block that a compression thread has in hand is the one that was queued,
\* and packing it gives a block the queue can hold.
LEMMA PackedBlock ==
    ASSUME QueueInv, SaveTypeOK, QueueHoldsSent, NEW t \in CompThreads, comppc[t] = "busy"
    PROVE  /\ blknum[t] \in DOMAIN sent
           /\ blkinfo[t] = sent[blknum[t]] /\ blkinfo[t].magic = "BLKH" /\ blkinfo[t] \in Info
           /\ [blkinfo[t] EXCEPT !.form = "packed"] \in Info
<1>1. blknum[t] # 0 BY DEF QueueInv, BusyHasBlock
<1>2. PICK i \in DOMAIN queue : queue[i].itemnum = blknum[t] /\ queue[i].type = "BLOCK"
  BY <1>1 DEF QueueInv, InProgressIsHeld, Holds
<1>3. blkinfo[t] = sent[blknum[t]] /\ sent[blknum[t]].magic = "BLKH"
  BY <1>1, <1>2 DEF QueueHoldsSent
<1>4. queue[i].itemnum \in 1 .. Len(sent)
  <2>1. /\ queue[i].itemnum = curitemnum - Len(queue) + i - 1
        /\ Len(queue) < curitemnum /\ curitemnum \in Nat /\ Len(queue) \in Nat
        /\ i \in 1 .. Len(queue)
    BY DEF QueueInv, QueueTypeOK, NumbersLeft, ItemsAreConsecutive
  <2>2. Len(sent) = curitemnum - 1 BY DEF QueueHoldsSent
  <2> QED BY <2>1, <2>2
<1>5. sent \in Seq(Info) BY DEF SaveTypeOK
<1>6. blknum[t] \in DOMAIN sent /\ sent[blknum[t]] \in Info BY <1>2, <1>4, <1>5
<1>7. compress_block_generic(sent[blknum[t]]) \subseteq Info BY <1>3, <1>6, SaveInfoAssumption
<1> QED BY <1>3, <1>6, <1>7 DEF compress_block_generic

\* Every step of the pipeline is a step of a client of the queue, or none.
LEMMA SaveQueueStep ==
    ASSUME QueueInv, SaveTypeOK, WalkInv, GroupInv, QueueHoldsSent, [Next]_vars
    PROVE  [QNext]_qvars
<1>1. CASE Main
  <2>1. MainKind BY <1>1, MainStep
  <2>2. CASE (\E info : Adds(info)) /\ UNCHANGED compvars
    BY <2>1, <2>2 DEF Adds, QNext, Fill, MainKind, syncvars
  <2>3. CASE queue_set_end_of_queue /\ UNCHANGED compvars
    BY <2>1, <2>3 DEF QNext, Fill, MainKind, syncvars
  <2>4. CASE \E t \in CompThreads : create_comp(t) BY <2>4 DEF QNext, Work
  <2>5. CASE UNCHANGED <<queuevars, compvars>> BY <2>5 DEF qvars
  <2> QED BY <2>1, <2>2, <2>3, <2>4, <2>5 DEF MainKind
<1>2. CASE Writer
  <2>1. CASE writer_take BY <2>1 DEF writer_take, QNext, Empty
  <2>2. CASE writer_drain BY <2>2 DEF writer_drain, QNext, Empty
  <2>3. CASE writer_start \/ writer_open \/ writer_write \/ writer_footer \/ writer_exit
    BY <2>3 DEF writer_start, writer_open, writer_write, writer_footer, writer_exit, qvars
  <2> QED BY <1>2, <2>1, <2>2, <2>3 DEF Writer
<1>3. ASSUME NEW t \in CompThreads, Comp(t) PROVE QNext
  <2>1. CASE thread_comp_put(t, compress_block_generic(blkinfo[t]))
    <3>1. [blkinfo[t] EXCEPT !.form = "packed"] \in Info
      BY <2>1, PackedBlock DEF thread_comp_put
    <3>2. thread_comp_put(t, {[blkinfo[t] EXCEPT !.form = "packed"]})
      BY <2>1 DEF compress_block_generic
    <3> QED BY <3>1, <3>2 DEF QNext, Work
  <2> QED BY <1>3, <2>1 DEF Comp, QNext, Work
<1>4. CASE User BY <1>4 DEF User, Signal, qvars
<1>5. CASE UNCHANGED vars BY <1>5 DEF vars, qvars
<1> QED BY <1>1, <1>2, <1>3, <1>4, <1>5 DEF Next, Terminated

-----------------------------------------------------------------------------
(* The walk *)

\* The types of the variables of the walk
WalkTypeOK ==
    /\ mainpc \in MainPc
    /\ fsi \in Nat /\ obji \in Nat /\ blki \in Nat
    /\ regmulti \in Seq(Nat)
    /\ last \in BOOLEAN /\ fatal \in BOOLEAN
    /\ ret \in {0, -1} /\ totalerr \in BOOLEAN

\* Where the main thread is in a tree, there are a tree and its objects.
LEMMA TreeInHand ==
    ASSUME SaveTypeOK, WalkInv
    PROVE  /\ Len(Trees) \in Nat
           /\ InTree => /\ fsi \in DOMAIN Trees /\ fsi \in 1 .. Len(Trees)
                        /\ Trees[fsi] \in Seq(Objects) /\ Len(Trees[fsi]) \in Nat
           /\ mainpc \in {"save", "file", "block", "filf"} =>
                 Object.blks \in Nat /\ Object.id \in Nat
<1>1. Trees \in Seq(Seq(Objects)) /\ Len(Trees) \in Nat BY SaveAssumption
<1>2. InTree => fsi \in DOMAIN Trees BY <1>1 DEF WalkInv, SaveTypeOK
<1>3. mainpc \in {"save", "file", "block", "filf"} => Object \in Objects BY ObjectInHand
<1> QED BY <1>1, <1>2, <1>3 DEF Objects

\* The main thread stays inside the trees and the objects it has.
LEMMA WalkStep ==
    ASSUME SaveTypeOK, WalkInv, Main
    PROVE  WalkTypeOK' /\ WalkInv'
<1>0. /\ Len(Trees) \in Nat
      /\ MaxSmallFiles \in Nat \ {0} /\ archtype \in {"FILESYSTEMS", "DIRECTORIES"}
      /\ InTree => /\ fsi \in 1 .. Len(Trees) /\ Len(Trees[fsi]) \in Nat
      /\ mainpc \in {"save", "file", "block", "filf"} => Object.blks \in Nat /\ Object.id \in Nat
  BY SaveAssumption, TreeInHand
<1>t. WalkTypeOK BY DEF SaveTypeOK, WalkTypeOK
<1>b. last' \in BOOLEAN /\ fatal' \in BOOLEAN /\ totalerr' \in BOOLEAN
  BY <1>t DEF Main, WalkTypeOK, walkvars, main_create_comp, main_create_writer, main_mainhead,
     main_fsinfo, main_analyse_error, main_tree, main_fsyb, main_object, main_save_node,
     main_save_multi, main_save_unique, main_flush, main_file, main_block, main_filf,
     main_nexttree, main_datf, main_check, main_finish, main_join_comp, main_join_writer,
     MaybeTruncated, attrerrors
<1> USE DEF WalkTypeOK, MainPc, WalkInv, InTree, Goto
<1>1. CASE main_create_comp BY <1>0, <1>t, <1>1 DEF main_create_comp, walkvars
<1>2. CASE main_create_writer BY <1>0, <1>t, <1>2 DEF main_create_writer, walkvars
<1>3. CASE main_mainhead BY <1>0, <1>t, <1>3 DEF main_mainhead, walkvars
<1>4. CASE main_fsinfo BY <1>0, <1>t, <1>4 DEF main_fsinfo, walkvars
<1>5. CASE main_analyse_error BY <1>0, <1>t, <1>5 DEF main_analyse_error, walkvars
<1>6. CASE main_tree BY <1>0, <1>t, <1>6 DEF main_tree, walkvars
<1>7. CASE main_fsyb BY <1>0, <1>t, <1>7 DEF main_fsyb, walkvars
<1>8. CASE main_object BY <1>0, <1>t, <1>b, <1>8 DEF main_object, NextObject, attrerrors
<1>9. CASE main_save_node BY <1>0, <1>t, <1>9 DEF main_save_node, NextObject
<1>10. CASE main_save_multi
  <2>1. CASE regmulti_save_addfile(Object.id) /\ NextObject
    <3>1. regmulti' \in Seq(Nat) BY <1>0, <1>t, <1>10, <2>1 DEF main_save_multi, regmulti_save_addfile
    <3> QED BY <1>0, <1>t, <1>b, <1>10, <2>1, <3>1 DEF main_save_multi, NextObject
  <2>2. CASE Goto("flush") /\ blki' = 0 /\ UNCHANGED <<regmulti, obji, totalerr>>
    BY <1>0, <1>t, <1>10, <2>2 DEF main_save_multi
  <2> QED BY <1>10, <2>1, <2>2 DEF main_save_multi
<1>11. CASE main_save_unique
  <2>1. Object' = Object BY <1>11 DEF main_save_unique, Object
  <2> QED BY <1>0, <1>t, <1>11, <2>1 DEF main_save_unique
<1>12. CASE main_flush
  <2>1. CASE blki < Len(regmulti) /\ blki' = blki + 1 /\ UNCHANGED <<regmulti, last, mainpc>>
    BY <1>0, <1>t, <1>12, <2>1 DEF main_flush
  <2>2. CASE ~(blki < Len(regmulti))
    <3>1. /\ regmulti' = <<>> /\ blki' = 0 /\ last' = FALSE
          /\ mainpc' = IF ~last THEN "save" ELSE IF archtype = "FILESYSTEMS" THEN "datf" ELSE "nexttree"
          /\ UNCHANGED <<fsi, obji, fatal, ret, totalerr>>
      BY <1>12, <2>2 DEF main_flush
    <3>2. regmulti' \in Seq(Nat) BY <3>1
    <3> QED BY <1>0, <1>t, <1>12, <3>1, <3>2 DEF main_flush
  <2> QED BY <1>12, <2>1, <2>2 DEF main_flush
<1>13. CASE main_file
  <2>1. CASE UNCHANGED obji
    <3>1. Object' = Object BY <1>13, <2>1 DEF main_file, Object
    <3> QED BY <1>0, <1>t, <1>13, <2>1, <3>1 DEF main_file, NextObject
  <2>2. CASE NextObject BY <1>0, <1>t, <1>b, <1>13, <2>2 DEF main_file, NextObject
  <2> QED BY <1>13, <2>1, <2>2 DEF main_file
<1>14. CASE main_block
  <2>1. Object' = Object BY <1>14 DEF main_block, Object
  <2> QED BY <1>0, <1>t, <1>14, <2>1 DEF main_block
<1>15. CASE main_filf BY <1>0, <1>t, <1>b, <1>15 DEF main_filf, NextObject
<1>16. CASE main_nexttree BY <1>0, <1>t, <1>16 DEF main_nexttree
<1>17. CASE main_datf BY <1>0, <1>t, <1>17 DEF main_datf
<1>18. CASE main_check BY <1>0, <1>t, <1>18 DEF main_check, walkvars
<1>19. CASE main_finish BY <1>0, <1>t, <1>19 DEF main_finish, walkvars
<1>20. CASE main_join_comp BY <1>0, <1>t, <1>20 DEF main_join_comp, walkvars
<1>21. CASE main_join_writer BY <1>0, <1>t, <1>21 DEF main_join_writer, walkvars
<1> QED
  BY <1>1, <1>2, <1>3, <1>4, <1>5, <1>6, <1>7, <1>8, <1>9, <1>10, <1>11, <1>12, <1>13, <1>14,
     <1>15, <1>16, <1>17, <1>18, <1>19, <1>20, <1>21 DEF Main

\* The group of small files is emptied before another tree is walked.
LEMMA GroupStep ==
    ASSUME SaveTypeOK, WalkInv, GroupInv, Main
    PROVE  GroupInv'
<1>0. regmulti \in Seq(Nat) /\ Len(regmulti) \in Nat /\ MaxSmallFiles \in Nat \ {0}
  BY SaveAssumption DEF SaveTypeOK
<1>1. ASSUME UNCHANGED <<regmulti, fsi>>, ~InTree' => regmulti = <<>> PROVE GroupInv'
  BY <1>1 DEF GroupInv
<1>2. ASSUME regmulti' = <<>> PROVE GroupInv'
  BY <1>0, <1>2 DEF GroupInv
<1>3. CASE main_save_multi
  <2>1. CASE regmulti_save_enough_space_for_new_file /\ regmulti_save_addfile(Object.id)
    <3>1. /\ Object = Trees[fsi][obji] /\ obji \in DOMAIN Trees[fsi] /\ Object.kind = "multi"
          /\ Object.id \in Nat
      BY <1>3, ObjectInHand, TreeInHand DEF main_save_multi
    <3>2. /\ regmulti' = Append(regmulti, Object.id) /\ Len(regmulti) < MaxSmallFiles /\ fsi' = fsi
          /\ InTree'
      BY <1>3, <2>1 DEF main_save_multi, regmulti_save_enough_space_for_new_file,
         regmulti_save_addfile, InTree, NextObject, Goto
    <3>3. /\ Len(regmulti') = Len(regmulti) + 1 /\ DOMAIN regmulti' = 1 .. Len(regmulti) + 1
          /\ \A i \in 1 .. Len(regmulti) : regmulti'[i] = regmulti[i]
          /\ regmulti'[Len(regmulti) + 1] = Object.id
      BY <1>0, <3>1, <3>2, AppendShape
    <3>4. \A k \in DOMAIN regmulti' : \E i \in DOMAIN Trees[fsi] :
             Trees[fsi][i].kind = "multi" /\ Trees[fsi][i].id = regmulti'[k]
      BY <1>0, <3>1, <3>3 DEF GroupInv
    <3> QED BY <1>0, <3>2, <3>3, <3>4 DEF GroupInv
  <2>2. CASE Goto("flush") /\ UNCHANGED regmulti
    BY <1>1, <1>3, <2>2 DEF main_save_multi, InTree, Goto
  <2> QED BY <1>3, <2>1, <2>2 DEF main_save_multi
<1>4. CASE main_flush
  <2>1. CASE UNCHANGED <<regmulti, mainpc>> BY <1>1, <1>4, <2>1 DEF main_flush, GroupInv, InTree
  <2>2. CASE regmulti' = <<>> BY <1>2, <2>2
  <2> QED BY <1>4, <2>1, <2>2 DEF main_flush
<1>5. CASE main_object \/ main_save_node \/ main_save_unique \/ main_file \/ main_block \/ main_filf
  BY <1>1, <1>5 DEF main_object, main_save_node, main_save_unique, main_file, main_block, main_filf,
     InTree, NextObject, Goto
<1>6. CASE ~InTree
  <2>1. regmulti = <<>> BY <1>6 DEF GroupInv
  <2>2. UNCHANGED regmulti
    BY <1>6 DEF Main, InTree, walkvars, main_create_comp, main_create_writer, main_mainhead, main_fsinfo,
       main_analyse_error, main_tree, main_fsyb, main_object, main_save_node, main_save_multi,
       main_save_unique, main_flush, main_file, main_block, main_filf, main_nexttree, main_datf,
       main_check, main_finish, main_join_comp, main_join_writer
  <2> QED BY <1>2, <2>1, <2>2
<1>7. InTree => main_object \/ main_save_node \/ main_save_multi \/ main_save_unique \/ main_flush
                \/ main_file \/ main_block \/ main_filf
  BY DEF Main, InTree, main_create_comp, main_create_writer, main_mainhead, main_fsinfo,
       main_analyse_error, main_tree, main_fsyb, main_nexttree, main_datf,
       main_check, main_finish, main_join_comp, main_join_writer
<1> QED BY <1>3, <1>4, <1>5, <1>6, <1>7

\* No other thread touches the walk.
LEMMA OthersKeepWalk ==
    ASSUME [Next]_vars
    PROVE  Main \/ UNCHANGED <<mainpc, fsi, obji, blki, regmulti, last, fatal, ret, totalerr, sent>>
BY DEF Next, Writer, Comp, User, Terminated, vars, mainvars, walkvars, writer_start, writer_open,
   writer_take, writer_write, writer_footer, writer_drain, writer_exit

\* Every step keeps the walk and its group right.
LEMMA WalkKept ==
    ASSUME SaveTypeOK, WalkInv, GroupInv, [Next]_vars
    PROVE  WalkTypeOK' /\ WalkInv' /\ GroupInv'
<1>1. CASE Main BY <1>1, WalkStep, GroupStep
<1>2. CASE UNCHANGED <<mainpc, fsi, obji, blki, regmulti, last, fatal, ret, totalerr, sent>>
  <2>1. WalkTypeOK' BY <1>2 DEF WalkTypeOK, SaveTypeOK
  <2>2. WalkInv'
    <3>1. Object' = Object BY <1>2 DEF Object
    <3> QED BY <1>2, <3>1 DEF WalkInv, InTree
  <2>3. GroupInv' BY <1>2 DEF GroupInv, InTree
  <2> QED BY <2>1, <2>2, <2>3
<1> QED BY <1>1, <1>2, OthersKeepWalk

-----------------------------------------------------------------------------
(* The items *)

\* Where the items of the queue are in the history
LEMMA ItemNumbers ==
    ASSUME QueueInv, SaveTypeOK, QueueHoldsSent
    PROVE  /\ queue \in Seq(Item) /\ Len(queue) \in Nat /\ DOMAIN queue = 1 .. Len(queue)
           /\ sent \in Seq(Info) /\ Len(sent) \in Nat /\ DOMAIN sent = 1 .. Len(sent)
           /\ curitemnum = Len(sent) + 1 /\ Len(queue) <= Len(sent)
           /\ \A i \in DOMAIN queue : /\ queue[i].itemnum = Len(sent) - Len(queue) + i
                                      /\ queue[i].itemnum \in DOMAIN sent
                                      /\ queue[i].info \in Info
           /\ blknum \in [CompThreads -> Nat]
           /\ \A t \in CompThreads : blknum[t] # 0 => blknum[t] \in DOMAIN sent
<1>1. queue \in Seq(Item) /\ Len(queue) \in Nat /\ DOMAIN queue = 1 .. Len(queue)
      /\ curitemnum \in Nat /\ blknum \in [CompThreads -> Nat]
  BY DEF QueueInv, QueueTypeOK
<1>2. sent \in Seq(Info) /\ Len(sent) \in Nat /\ DOMAIN sent = 1 .. Len(sent)
  BY DEF SaveTypeOK
<1>3. curitemnum = Len(sent) + 1 BY <1>1, <1>2 DEF QueueHoldsSent
<1>4. Len(queue) <= Len(sent) BY <1>1, <1>2, <1>3 DEF QueueInv, NumbersLeft
<1>5. ASSUME NEW i \in DOMAIN queue
      PROVE  /\ queue[i].itemnum = Len(sent) - Len(queue) + i /\ queue[i].itemnum \in DOMAIN sent
             /\ queue[i].info \in Info
  <2>1. queue[i].itemnum = curitemnum - Len(queue) + i - 1
    BY DEF QueueInv, ItemsAreConsecutive
  <2>2. queue[i] \in Item BY <1>1
  <2> QED BY <1>1, <1>2, <1>3, <1>4, <2>1, <2>2 DEF Item
<1>6. ASSUME NEW t \in CompThreads, blknum[t] # 0 PROVE blknum[t] \in DOMAIN sent
  BY <1>5, <1>6 DEF QueueInv, InProgressIsHeld, Holds
<1> QED BY <1>1, <1>2, <1>3, <1>4, <1>5, <1>6

\* queue_add_header() and queue_add_block()
LEMMA AddedIsSent ==
    ASSUME QueueInv, SaveTypeOK, QueueHoldsSent, NEW info, Adds(info), UNCHANGED compvars
    PROVE  /\ QueueHoldsSent'
           /\ Len(queue') = Len(queue) + 1
           /\ sent' \in Seq(Info) /\ Len(sent') = Len(sent) + 1
           /\ \A n \in DOMAIN sent : sent'[n] = sent[n]
<1>0. /\ queue \in Seq(Item) /\ Len(queue) \in Nat /\ DOMAIN queue = 1 .. Len(queue)
      /\ sent \in Seq(Info) /\ Len(sent) \in Nat /\ DOMAIN sent = 1 .. Len(sent)
      /\ curitemnum = Len(sent) + 1
      /\ \A i \in DOMAIN queue : queue[i].itemnum \in DOMAIN sent
      /\ \A t \in CompThreads : blknum[t] # 0 => blknum[t] \in DOMAIN sent
  BY ItemNumbers
<1>1. /\ info \in Info /\ sent' = Append(sent, info) /\ curitemnum' = curitemnum + 1
      /\ UNCHANGED <<blknum, blkinfo>>
  BY DEF Adds, compvars, queue_add_header, queue_add_block
<1>2. /\ sent' \in Seq(Info) /\ Len(sent') = Len(sent) + 1
      /\ \A n \in DOMAIN sent : sent'[n] = sent[n]
      /\ sent'[Len(sent) + 1] = info
  BY <1>0, <1>1, AppendShape
<1>3. PICK item \in Item : /\ queue' = Append(queue, item) /\ item.itemnum = curitemnum
                           /\ item.info = info
                           /\ item.type = "BLOCK" <=> info.magic = "BLKH"
                           /\ item.status = "DONE" => info.magic # "BLKH"
  <2>1. CASE info.magic # "BLKH" /\ queue_add_header(info)
    <3> DEFINE item == [type |-> "HEADER", status |-> "DONE", itemnum |-> curitemnum, info |-> info]
    <3>1. item \in Item BY <1>0, <1>1 DEF Item, Status
    <3>2. queue' = Append(queue, item) BY <2>1 DEF queue_add_header
    <3> QED BY <2>1, <3>1, <3>2
  <2>2. CASE info.magic = "BLKH" /\ queue_add_block(info, "TODO")
    <3> DEFINE item == [type |-> "BLOCK", status |-> "TODO", itemnum |-> curitemnum, info |-> info]
    <3>1. item \in Item BY <1>0, <1>1 DEF Item, Status
    <3>2. queue' = Append(queue, item) BY <2>2 DEF queue_add_block
    <3> QED BY <2>2, <3>1, <3>2
  <2> QED BY <2>1, <2>2 DEF Adds
<1>4. /\ Len(queue') = Len(queue) + 1 /\ DOMAIN queue' = 1 .. Len(queue) + 1
      /\ \A i \in 1 .. Len(queue) : queue'[i] = queue[i]
      /\ queue'[Len(queue) + 1] = item
  BY <1>0, <1>3, AppendShape
<1>5. ASSUME NEW i \in DOMAIN queue'
      PROVE  LET x == sent'[queue'[i].itemnum]
             IN  /\ queue'[i].type = "BLOCK" <=> x.magic = "BLKH"
                 /\ queue'[i].status = "DONE" => queue'[i].info \in Packed(x)
                 /\ queue'[i].status # "DONE" => queue'[i].info = x
  <2>1. CASE i \in DOMAIN queue
    <3>1. queue'[i] = queue[i] /\ sent'[queue[i].itemnum] = sent[queue[i].itemnum]
      BY <1>0, <1>2, <1>4, <2>1
    <3> QED BY <2>1, <3>1 DEF QueueHoldsSent
  <2>2. CASE i = Len(queue) + 1
    <3>1. queue'[i] = item /\ sent'[item.itemnum] = info BY <1>0, <1>2, <1>3, <1>4, <2>2
    <3> QED BY <1>3, <3>1 DEF Packed
  <2> QED BY <1>0, <1>4, <2>1, <2>2
<1>6. \A t \in CompThreads : blknum'[t] # 0 => blkinfo'[t] = sent'[blknum'[t]]
  BY <1>0, <1>1, <1>2 DEF QueueHoldsSent
<1>7. Len(sent') = curitemnum' - 1 BY <1>0, <1>1, <1>2
<1> QED BY <1>2, <1>4, <1>5, <1>6, <1>7 DEF QueueHoldsSent

\* The functions that empty the queue
LEMMA RemovedIsSent ==
    ASSUME QueueInv, SaveTypeOK, QueueHoldsSent, queue # <<>>, RemoveHead,
           UNCHANGED <<compvars, sent>>
    PROVE  /\ QueueHoldsSent'
           /\ Len(queue') = Len(queue) - 1
           /\ queue[1].info \in Info
           /\ queue[1].status = "DONE" =>
                 queue[1].info \in Packed(sent[Len(sent) - Len(queue) + 1])
<1>0. /\ queue \in Seq(Item) /\ Len(queue) \in Nat /\ DOMAIN queue = 1 .. Len(queue)
      /\ \A i \in DOMAIN queue : /\ queue[i].itemnum = Len(sent) - Len(queue) + i
                                 /\ queue[i].info \in Info
  BY ItemNumbers
<1>1. /\ Len(queue') = Len(queue) - 1 /\ DOMAIN queue' = 1 .. Len(queue) - 1
      /\ \A i \in 1 .. Len(queue) - 1 : queue'[i] = queue[i + 1]
      /\ UNCHANGED <<curitemnum, blknum, blkinfo, sent>>
  BY <1>0, TailShape DEF RemoveHead, compvars
<1>2. 1 \in DOMAIN queue BY <1>0
<1>3. ASSUME NEW i \in DOMAIN queue' PROVE i + 1 \in DOMAIN queue /\ queue'[i] = queue[i + 1]
  BY <1>0, <1>1
<1>4. QueueHoldsSent' BY <1>1, <1>3 DEF QueueHoldsSent
<1>5. queue[1].itemnum = Len(sent) - Len(queue) + 1 BY <1>0, <1>2
<1> QED BY <1>0, <1>1, <1>2, <1>4, <1>5 DEF QueueHoldsSent

\* queue_get_first_block_todo() in a compression thread
LEMMA TakenIsSent ==
    ASSUME QueueInv, SaveTypeOK, QueueHoldsSent, NEW t \in CompThreads, thread_comp_take(t),
           UNCHANGED sent
    PROVE  QueueHoldsSent' /\ Len(queue') = Len(queue)
<1>0. /\ queue \in Seq(Item) /\ DOMAIN queue = 1 .. Len(queue) /\ Len(queue) \in Nat
      /\ blknum \in [CompThreads -> Nat] /\ blkinfo \in [CompThreads -> Info \cup {NoInfo}]
  BY DEF QueueInv, QueueTypeOK
<1>1. PICK k \in DOMAIN queue :
          /\ queue_get_first_block_todo(k)
          /\ blknum' = [blknum EXCEPT ![t] = queue[k].itemnum]
          /\ blkinfo' = [blkinfo EXCEPT ![t] = queue[k].info]
  BY DEF thread_comp_take
<1>2. /\ queue[k].status = "TODO" /\ queue' = [queue EXCEPT ![k].status = "PROGRESS"]
      /\ UNCHANGED curitemnum
  BY <1>1 DEF queue_get_first_block_todo, IsFirstTodo, IsTodo
<1>3. DOMAIN queue' = DOMAIN queue /\ Len(queue') = Len(queue) BY <1>0, <1>2
<1>4. ASSUME NEW i \in DOMAIN queue
      PROVE  /\ queue'[i].itemnum = queue[i].itemnum /\ queue'[i].type = queue[i].type
             /\ queue'[i].info = queue[i].info
             /\ queue'[i].status = "DONE" <=> queue[i].status = "DONE"
  <2>1. queue[i] \in Item BY <1>0
  <2> QED BY <1>2, <2>1 DEF Item
<1>5. queue[k].info = sent[queue[k].itemnum] BY <1>2 DEF QueueHoldsSent
<1>6. \A u \in CompThreads : blknum'[u] # 0 => blkinfo'[u] = sent[blknum'[u]]
  BY <1>0, <1>1, <1>5 DEF QueueHoldsSent
<1> QED BY <1>2, <1>3, <1>4, <1>6 DEF QueueHoldsSent

\* queue_replace_block() in a compression thread
LEMMA PutIsSent ==
    ASSUME QueueInv, SaveTypeOK, QueueHoldsSent, NEW t \in CompThreads,
           thread_comp_put(t, compress_block_generic(blkinfo[t])), UNCHANGED sent
    PROVE  QueueHoldsSent' /\ Len(queue') = Len(queue)
<1>0. /\ queue \in Seq(Item) /\ DOMAIN queue = 1 .. Len(queue) /\ Len(queue) \in Nat
      /\ blknum \in [CompThreads -> Nat] /\ blkinfo \in [CompThreads -> Info \cup {NoInfo}]
  BY DEF QueueInv, QueueTypeOK
<1>1. PICK info \in compress_block_generic(blkinfo[t]) : queue_replace_block(blknum[t], info, "DONE")
  BY DEF thread_comp_put
<1>2. /\ queue' = [i \in DOMAIN queue |->
                      IF queue[i].itemnum = blknum[t]
                      THEN [queue[i] EXCEPT !.status = "DONE", !.info = info]
                      ELSE queue[i]]
      /\ blknum' = [blknum EXCEPT ![t] = 0] /\ blkinfo' = [blkinfo EXCEPT ![t] = NoInfo]
      /\ UNCHANGED curitemnum
  BY <1>1 DEF queue_replace_block, thread_comp_put
<1>3. /\ blkinfo[t] = sent[blknum[t]] /\ blkinfo[t].magic = "BLKH" /\ info \in Packed(sent[blknum[t]])
  BY <1>1, PackedBlock DEF thread_comp_put, Packed
<1>4. DOMAIN queue' = DOMAIN queue /\ Len(queue') = Len(queue)
  <2>1. info \in Info /\ thread_comp_put(t, {info}) BY <1>1, PackedBlock DEF thread_comp_put, compress_block_generic
  <2>2. queue' \in Seq(Item) BY <2>1, PutStep DEF QueueInv, QueueTypeOK
  <2>3. DOMAIN queue' = DOMAIN queue BY <1>2
  <2> QED BY <1>0, <2>2, <2>3
<1>5. ASSUME NEW i \in DOMAIN queue
      PROVE  /\ queue'[i].itemnum = queue[i].itemnum /\ queue'[i].type = queue[i].type
             /\ queue[i].itemnum = blknum[t] => queue'[i].status = "DONE" /\ queue'[i].info = info
             /\ queue[i].itemnum # blknum[t] => queue'[i] = queue[i]
  <2>1. queue[i] \in Item BY <1>0
  <2> QED BY <1>2, <2>1 DEF Item
<1>6. ASSUME NEW i \in DOMAIN queue'
      PROVE  LET x == sent[queue'[i].itemnum]
             IN  /\ queue'[i].type = "BLOCK" <=> x.magic = "BLKH"
                 /\ queue'[i].status = "DONE" => queue'[i].info \in Packed(x)
                 /\ queue'[i].status # "DONE" => queue'[i].info = x
  BY <1>3, <1>4, <1>5, <1>6 DEF QueueHoldsSent
<1>7. \A u \in CompThreads : blknum'[u] # 0 => blkinfo'[u] = sent[blknum'[u]]
  BY <1>0, <1>2 DEF QueueHoldsSent
<1>8. Len(sent') = curitemnum' - 1 /\ sent' = sent BY <1>2 DEF QueueHoldsSent
<1> QED BY <1>4, <1>6, <1>7, <1>8 DEF QueueHoldsSent

-----------------------------------------------------------------------------
(* The threads *)

\* A thread starts to run, or has ended: the number of running threads follows.
LEMMA RunningCount ==
    ASSUME comppc \in [CompThreads -> CompPc], IsFiniteSet({u \in CompThreads : Running(u)}),
           NEW t \in CompThreads, NEW pc \in CompPc, comppc' = [comppc EXCEPT ![t] = pc]
    PROVE  LET R == {u \in CompThreads : Running(u)}
               S == {u \in CompThreads : Running(u)'}
           IN  /\ IsFiniteSet(S) /\ Cardinality(R) \in Nat
               /\ ~Running(t) /\ pc \in {"loop", "busy"} => Cardinality(S) = Cardinality(R) + 1
               /\ Running(t) /\ pc \notin {"loop", "busy"} =>
                     Cardinality(S) = Cardinality(R) - 1 /\ Cardinality(R) > 0
               /\ (Running(t) <=> pc \in {"loop", "busy"}) => S = R
<1> DEFINE R == {u \in CompThreads : Running(u)}
           S == {u \in CompThreads : Running(u)'}
<1>1. \A u \in CompThreads : u \in S <=> IF u = t THEN pc \in {"loop", "busy"} ELSE u \in R
  BY DEF Running
<1>r. IsFiniteSet(R) /\ Cardinality(R) \in Nat /\ (t \in R <=> Running(t)) BY FS_CardinalityType
<1>s. \A u : u \in R \/ u \in S => u \in CompThreads OBVIOUS
<1> HIDE DEF R, S
<1>2. CASE ~Running(t) /\ pc \in {"loop", "busy"}
  <2>1. S = R \cup {t} /\ t \notin R BY <1>1, <1>2, <1>r, <1>s
  <2>2. IsFiniteSet(S) /\ Cardinality(S) = Cardinality(R) + 1 BY <1>r, <2>1, FS_AddElement
  <2> QED BY <1>2, <1>r, <2>2 DEF R, S
<1>3. CASE Running(t) /\ pc \notin {"loop", "busy"}
  <2>1. S = R \ {t} /\ t \in R BY <1>1, <1>3, <1>r, <1>s
  <2>2. Cardinality(R) # 0 BY <1>r, <2>1, FS_EmptySet
  <2>3. IsFiniteSet(S) /\ Cardinality(S) = Cardinality(R) - 1 BY <1>r, <2>1, FS_RemoveElement
  <2> QED BY <1>3, <1>r, <2>2, <2>3 DEF R, S
<1>4. CASE Running(t) <=> pc \in {"loop", "busy"}
  <2>1. S = R BY <1>1, <1>4, <1>r, <1>s
  <2> QED BY <1>4, <1>r, <2>1 DEF R, S
<1> QED BY <1>2, <1>3, <1>4

\* g_secthreads counts the threads that run.
LEMMA SecthreadsStep ==
    ASSUME QueueInv, SaveTypeOK, WalkInv, GroupInv, SecthreadsInv, EndsInv, [Next]_vars
    PROVE  SecthreadsInv' /\ secthreads' \in Nat
<1> DEFINE R == {t \in CompThreads : Running(t)}
           W == IF writerpc \in {"open", "loop", "write", "drain"} THEN 1 ELSE 0
<1>0. /\ comppc \in [CompThreads -> CompPc] /\ IsFiniteSet(R) /\ Cardinality(R) \in Nat
      /\ secthreads = Cardinality(R) + W /\ secthreads \in Nat
  BY FS_CardinalityType DEF SaveTypeOK, ThreadsTypeOK, QueueTypeOK, SecthreadsInv
<1>1. ASSUME UNCHANGED comppc, secthreads' = Cardinality(R) + W' PROVE SecthreadsInv' /\ secthreads' \in Nat
  <2>1. R' = R BY <1>1 DEF Running
  <2>2. W' \in {0, 1} OBVIOUS
  <2>3. SecthreadsInv' BY <1>0, <1>1, <2>1 DEF SecthreadsInv
  <2> HIDE DEF R, W
  <2> QED BY <1>0, <1>1, <2>2, <2>3
<1>2. CASE Main
  <2>1. MainKind BY <1>2, MainStep
  <2>2. W' = W
    BY <1>2 DEF Main, writervars, main_create_comp, main_create_writer, main_mainhead, main_fsinfo,
       main_analyse_error, main_tree, main_fsyb, main_object, main_save_node, main_save_multi,
       main_save_unique, main_flush, main_file, main_block, main_filf, main_nexttree, main_datf,
       main_check, main_finish, main_join_comp, main_join_writer, EndsInv
  <2>3. CASE UNCHANGED comppc BY <1>0, <1>1, <2>1, <2>2, <2>3 DEF MainKind
  <2>4. ASSUME NEW t \in CompThreads, create_comp(t) PROVE SecthreadsInv' /\ secthreads' \in Nat
    <3>1. comppc[t] = "none" /\ comppc' = [comppc EXCEPT ![t] = "created"] /\ secthreads' = secthreads
      BY <2>4 DEF create_comp, syncvars
    <3>2. R' = R /\ IsFiniteSet(R')
      BY <1>0, <3>1, RunningCount DEF CompPc, Running
    <3> QED BY <1>0, <2>2, <3>1, <3>2 DEF SecthreadsInv
  <2> QED BY <2>1, <2>3, <2>4 DEF MainKind, compvars
<1>3. CASE Writer
  BY <1>0, <1>1, <1>3 DEF Writer, writer_start, writer_open, writer_take, writer_write, writer_footer,
     writer_drain, writer_exit, WriterError, inc_secthreads, dec_secthreads, set_stopfillqueue,
     compvars, syncvars, writervars
<1>4. ASSUME NEW t \in CompThreads, Comp(t) PROVE SecthreadsInv' /\ secthreads' \in Nat
  <2>0. W' = W BY <1>4 DEF Comp, writervars
  <2>1. CASE thread_comp_start(t)
    <3>1. ~Running(t) /\ comppc' = [comppc EXCEPT ![t] = "loop"] /\ secthreads' = secthreads + 1
      BY <2>1 DEF thread_comp_start, inc_secthreads, Running
    <3>2. IsFiniteSet(R') /\ Cardinality(R') = Cardinality(R) + 1
      BY <1>0, <3>1, RunningCount DEF CompPc
    <3> QED BY <1>0, <2>0, <3>1, <3>2 DEF SecthreadsInv
  <2>2. CASE thread_comp_take(t) \/ thread_comp_put(t, compress_block_generic(blkinfo[t]))
    <3>1. PICK pc \in {"loop", "busy"} : comppc' = [comppc EXCEPT ![t] = pc]
      BY <2>2 DEF thread_comp_take, thread_comp_put
    <3>2. Running(t) /\ secthreads' = secthreads
      BY <2>2 DEF thread_comp_take, thread_comp_put, Running, syncvars
    <3>3. IsFiniteSet(R') /\ R' = R BY <1>0, <3>1, <3>2, RunningCount DEF CompPc
    <3> QED BY <1>0, <2>0, <3>2, <3>3 DEF SecthreadsInv
  <2>3. CASE thread_comp_exit(t) \/ thread_comp_error(t)
    <3>1. Running(t) /\ comppc' = [comppc EXCEPT ![t] = "exited"] /\ secthreads' = secthreads - 1
      BY <2>3 DEF thread_comp_exit, thread_comp_error, dec_secthreads, Running
    <3>2. IsFiniteSet(R') /\ Cardinality(R') = Cardinality(R) - 1 /\ Cardinality(R) > 0
      BY <1>0, <3>1, RunningCount DEF CompPc
    <3> QED BY <1>0, <2>0, <3>1, <3>2 DEF SecthreadsInv
  <2> QED BY <1>4, <2>1, <2>2, <2>3 DEF Comp
<1>5. CASE User BY <1>0, <1>1, <1>5 DEF User, Signal, compvars, writervars
<1>6. CASE UNCHANGED vars BY <1>0, <1>1, <1>6 DEF vars, compvars, syncvars, writervars
<1> QED BY <1>2, <1>3, <1>4, <1>5, <1>6 DEF Next, Terminated

-----------------------------------------------------------------------------
(* The ends of the pipeline *)

\* Steps of the main thread: only main_finish() closes the queue, a fatal error
\* is on its way to the exit status.
LEMMA MainEnds ==
    ASSUME SaveTypeOK, EndsInv, Main
    PROVE  EndsInv'
<1>0. /\ endofqueue \in BOOLEAN /\ fatal \in BOOLEAN /\ last \in BOOLEAN
      /\ archtype \in {"FILESYSTEMS", "DIRECTORIES"}
  BY SaveAssumption DEF SaveTypeOK, ThreadsTypeOK, QueueTypeOK
<1> USE DEF EndsInv, syncvars, writervars, walkvars, queuevars, Goto, AddHeader, AddBlock, Local,
            queue_add_header, queue_add_block
<1>1. CASE main_create_comp BY <1>1 DEF main_create_comp
<1>2. CASE main_create_writer BY <1>2 DEF main_create_writer
<1>3. CASE main_mainhead BY <1>3 DEF main_mainhead
<1>4. CASE main_fsinfo BY <1>4 DEF main_fsinfo
<1>5. CASE main_analyse_error BY <1>5 DEF main_analyse_error
<1>6. CASE main_tree BY <1>6 DEF main_tree
<1>7. CASE main_fsyb BY <1>7 DEF main_fsyb
<1>8. CASE main_object BY <1>0, <1>8 DEF main_object, NextObject
<1>9. CASE main_save_node BY <1>9 DEF main_save_node, NextObject
<1>10. CASE main_save_multi BY <1>10 DEF main_save_multi, NextObject
<1>11. CASE main_save_unique BY <1>11 DEF main_save_unique
<1>12. CASE main_flush BY <1>0, <1>12 DEF main_flush
<1>13. CASE main_file BY <1>13 DEF main_file, NextObject
<1>14. CASE main_block BY <1>14 DEF main_block
<1>15. CASE main_filf BY <1>15 DEF main_filf, NextObject
<1>16. CASE main_nexttree BY <1>16 DEF main_nexttree
<1>17. CASE main_datf BY <1>0, <1>17 DEF main_datf
<1>18. CASE main_check BY <1>18 DEF main_check
<1>19. CASE main_finish BY <1>0, <1>19 DEF main_finish, queue_set_end_of_queue
<1>20. CASE main_join_comp BY <1>20 DEF main_join_comp
<1>21. CASE main_join_writer BY <1>21 DEF main_join_writer, archwriter_remove
<1> QED
  BY <1>1, <1>2, <1>3, <1>4, <1>5, <1>6, <1>7, <1>8, <1>9, <1>10, <1>11, <1>12, <1>13, <1>14,
     <1>15, <1>16, <1>17, <1>18, <1>19, <1>20, <1>21 DEF Main

\* Steps of the other threads
LEMMA EndsStep ==
    ASSUME SaveTypeOK, EndsInv, [Next]_vars
    PROVE  EndsInv'
<1>1. CASE Main BY <1>1, MainEnds
<1>2. CASE Writer
  <2> USE DEF EndsInv, mainvars, walkvars, syncvars, queuevars, WriterError, set_stopfillqueue,
              inc_secthreads, dec_secthreads
  <2>1. CASE writer_start BY <2>1 DEF writer_start
  <2>2. CASE writer_open BY <2>2 DEF writer_open, SaveTypeOK
  <2>3. CASE writer_take BY <2>3 DEF writer_take, queue_dequeue_first, RemoveHead
  <2>4. CASE writer_write BY <2>4 DEF writer_write
  <2>5. CASE writer_footer BY <2>5 DEF writer_footer
  <2>6. CASE writer_drain BY <2>6 DEF writer_drain, queue_destroy_first_item, RemoveHead, writervars
  <2>7. CASE writer_exit BY <2>7 DEF writer_exit
  <2> QED BY <1>2, <2>1, <2>2, <2>3, <2>4, <2>5, <2>6, <2>7 DEF Writer
<1>3. ASSUME NEW t \in CompThreads, Comp(t) PROVE EndsInv'
  <2>1. UNCHANGED <<endofqueue, stopfillqueue, mainpc, last, fatal, ret, writerpc, archfile>>
    BY <1>3 DEF Comp, mainvars, walkvars, writervars, syncvars, queuevars, thread_comp_start,
       thread_comp_take, thread_comp_put, thread_comp_exit, thread_comp_error, inc_secthreads,
       dec_secthreads, queue_get_first_block_todo, queue_replace_block
  <2> QED BY <2>1 DEF EndsInv
<1>4. CASE User BY <1>4 DEF User, Signal, mainvars, walkvars, writervars, queuevars, EndsInv
<1>5. CASE UNCHANGED vars
  BY <1>5 DEF vars, mainvars, walkvars, writervars, queuevars, syncvars, EndsInv
<1> QED BY <1>1, <1>2, <1>3, <1>4, <1>5 DEF Next, Terminated

\* archwriter_remove() comes before the result, and after the writer has ended.
LEMMA FailureStep ==
    ASSUME SaveTypeOK, EndsInv, FailureLeavesNothing, [Next]_vars
    PROVE  FailureLeavesNothing'
<1>1. CASE mainpc = "done"
  <2>1. writerpc \in {"none", "exited"} BY <1>1 DEF EndsInv
  <2>2. ~Main
    BY <1>1 DEF Main, main_create_comp, main_create_writer, main_mainhead, main_fsinfo,
       main_analyse_error, main_tree, main_fsyb, main_object, main_save_node, main_save_multi,
       main_save_unique, main_flush, main_file, main_block, main_filf, main_nexttree, main_datf,
       main_check, main_finish, main_join_comp, main_join_writer
  <2>3. ~Writer
    BY <2>1 DEF Writer, writer_start, writer_open, writer_take, writer_write, writer_footer,
       writer_drain, writer_exit
  <2>4. UNCHANGED <<mainpc, ret, archfile>>
    BY <2>2, <2>3 DEF Next, Comp, User, Terminated, vars, mainvars, writervars
  <2> QED BY <2>4 DEF FailureLeavesNothing
<1>2. CASE mainpc' = "done" /\ mainpc # "done"
  <2>1. Main BY <1>2, OthersKeepWalk
  <2>2. main_join_writer
    BY <1>2, <2>1 DEF Main, main_create_comp, main_create_writer, main_mainhead, main_fsinfo,
       main_analyse_error, main_tree, main_fsyb, main_object, main_save_node, main_save_multi,
       main_save_unique, main_flush, main_file, main_block, main_filf, main_nexttree, main_datf,
       main_check, main_finish, main_join_comp, Goto, NextObject
  <2> QED BY <2>2 DEF main_join_writer, archwriter_remove, FailureLeavesNothing, SaveTypeOK
<1>3. CASE mainpc' # "done" BY <1>3 DEF FailureLeavesNothing
<1> QED BY <1>1, <1>2, <1>3

-----------------------------------------------------------------------------
(* The archive *)

\* What a step leaves behind of the items
ItemsOK ==
    /\ QueueHoldsSent
    /\ ArchiveHoldsSent
    /\ FooterMeansAll
    /\ sent \in Seq(Info) /\ archive \in Seq(Info) /\ witem \in Info \cup {NoInfo}

\* A step that moves no item
LEMMA NothingMoves ==
    ASSUME ItemsOK, UNCHANGED <<sent, archive, witem, curitemnum, endofqueue, blknum, blkinfo, queue>>,
           writerpc' = writerpc \/ writerpc' \in {"drain", "exited"}
              \/ (writerpc \in {"none", "created", "open"} /\ writerpc' \in {"created", "open", "loop"}),
           archfile' = "complete" => archfile = "complete"
    PROVE  ItemsOK'
<1>1. QueueHoldsSent' BY DEF ItemsOK, QueueHoldsSent
<1>2. ArchiveHoldsSent' BY DEF ItemsOK, ArchiveHoldsSent
<1>3. FooterMeansAll' BY DEF ItemsOK, FooterMeansAll
<1> QED BY <1>1, <1>2, <1>3 DEF ItemsOK

\* Steps of the main thread
LEMMA MainItems ==
    ASSUME QueueInv, SaveInv, Main
    PROVE  ItemsOK' /\ [T!Next]_(T!vars)
<1>0. /\ ItemsOK /\ SaveTypeOK /\ EndsInv /\ QueueHoldsSent
      /\ archive \in Seq(Info) /\ endofqueue \in BOOLEAN
  BY DEF SaveInv, ItemsOK, SaveTypeOK, QueueInv, QueueTypeOK
<1>n. /\ Len(archive) \in Nat /\ DOMAIN archive = 1 .. Len(archive)
      /\ Len(queue) \in Nat /\ Len(sent) \in Nat /\ DOMAIN sent = 1 .. Len(sent)
  BY DEF SaveInv, SaveTypeOK, QueueInv, QueueTypeOK
<1>1. MainKind BY MainStep DEF SaveInv
<1>2. /\ writerpc' = writerpc \/ (writerpc = "none" /\ writerpc' = "created")
      /\ archfile' = "complete" => archfile = "complete"
  BY <1>0 DEF Main, writervars, main_create_comp, main_create_writer, main_mainhead, main_fsinfo,
     main_analyse_error, main_tree, main_fsyb, main_object, main_save_node, main_save_multi,
     main_save_unique, main_flush, main_file, main_block, main_filf, main_nexttree, main_datf,
     main_check, main_finish, main_join_comp, main_join_writer, archwriter_remove, EndsInv
<1>3. CASE UNCHANGED <<queuevars, sent, compvars>>
  <2>1. ItemsOK' BY <1>0, <1>1, <1>2, <1>3, NothingMoves DEF MainKind, queuevars, compvars
  <2>2. UNCHANGED T!vars BY <1>1, <1>3 DEF MainKind, T!vars, queuevars
  <2> QED BY <2>1, <2>2
<1>4. CASE \E t \in CompThreads : create_comp(t) /\ UNCHANGED sent
  <2>1. UNCHANGED <<queuevars, blknum, blkinfo, sent>> BY <1>4 DEF create_comp
  <2>2. ItemsOK' BY <1>0, <1>1, <1>2, <2>1, NothingMoves DEF MainKind, queuevars
  <2>3. UNCHANGED T!vars BY <1>1, <2>1 DEF MainKind, T!vars, queuevars
  <2> QED BY <2>2, <2>3
<1>5. CASE mainpc = "finish" /\ queue_set_end_of_queue /\ UNCHANGED <<sent, compvars>>
  <2>1. endofqueue = FALSE /\ endofqueue' = TRUE /\ UNCHANGED <<sent, archive, stopfillqueue>>
    BY <1>0, <1>1, <1>5 DEF MainKind, EndsInv, queue_set_end_of_queue
  <2>2. T!Next BY <2>1 DEF T!Next, T!Close
  <2>3. QueueHoldsSent' BY <1>0, <1>5 DEF QueueHoldsSent, queue_set_end_of_queue, compvars
  <2>4. ArchiveHoldsSent'
    BY <1>0, <1>1, <1>2, <1>5 DEF ItemsOK, ArchiveHoldsSent, queue_set_end_of_queue, MainKind
  <2>5. FooterMeansAll' BY <1>0, <1>2, <2>1 DEF ItemsOK, FooterMeansAll
  <2> QED BY <1>0, <1>1, <2>1, <2>2, <2>3, <2>4, <2>5 DEF ItemsOK, MainKind
<1>6. ASSUME NEW info, Adds(info), UNCHANGED <<compvars, writerpc, archfile>>
      PROVE  ItemsOK' /\ [T!Next]_(T!vars)
  <2>1. /\ QueueHoldsSent' /\ Len(queue') = Len(queue) + 1
        /\ sent' \in Seq(Info) /\ Len(sent') = Len(sent) + 1
        /\ \A n \in DOMAIN sent : sent'[n] = sent[n]
    BY <1>0, <1>6, AddedIsSent
  <2>2. /\ endofqueue = FALSE /\ endofqueue' = FALSE /\ info \in Info /\ sent' = Append(sent, info)
        /\ UNCHANGED <<archive, stopfillqueue, witem>>
    BY <1>0, <1>1, <1>6 DEF Adds, MainKind, queue_add_block, queue_add_header
  <2>3. T!Next BY <2>2 DEF T!Next, T!Send
  <2>4. ArchiveHoldsSent'
    <3>0. archive' = archive /\ witem' = witem /\ writerpc' = writerpc BY <1>6, <2>2
    <3>1. /\ Len(archive) <= Len(sent)
          /\ \A n \in DOMAIN archive : archive[n] \in Packed(sent[n])
          /\ writerpc \in {"none", "created", "open", "loop"} => Len(archive) + Len(queue) = Len(sent)
          /\ writerpc = "write" => /\ Len(archive) + 1 + Len(queue) = Len(sent)
                                   /\ witem \in Packed(sent[Len(archive) + 1])
      BY <1>0 DEF ItemsOK, ArchiveHoldsSent
    <3>n. Len(sent') = Len(sent) + 1 /\ Len(queue') = Len(queue) + 1 BY <2>1
    <3>a. /\ Len(archive) <= Len(sent)
          /\ writerpc \in {"none", "created", "open", "loop"} => Len(archive) + Len(queue) = Len(sent)
          /\ writerpc = "write" => Len(archive) + 1 + Len(queue) = Len(sent)
      BY <3>1
    <3>y. Len(archive) \in Nat /\ Len(sent) \in Nat /\ Len(queue) \in Nat BY <1>n
    <3>2. Len(archive') <= Len(sent')
      <4>1. Len(archive) <= Len(sent') BY ONLY <3>n, <3>a, <3>y
      <4> QED BY <3>0, <4>1
    <3>3. \A n \in DOMAIN archive : n \in DOMAIN sent /\ sent'[n] = sent[n]
      <4>1. \A n \in 1 .. Len(archive) : n \in 1 .. Len(sent) BY ONLY <3>y, <3>a
      <4> QED BY <1>n, <2>1, <4>1
    <3>4. writerpc = "write" => Len(archive) + 1 \in DOMAIN sent BY <1>n, <3>1
    <3>5. writerpc = "write" => sent'[Len(archive) + 1] = sent[Len(archive) + 1] BY <2>1, <3>4
    <3>6. /\ writerpc \in {"none", "created", "open", "loop"} => Len(archive) + Len(queue') = Len(sent')
          /\ writerpc = "write" => Len(archive) + 1 + Len(queue') = Len(sent')
      BY ONLY <3>n, <3>y, <3>a
    <3> QED BY <3>0, <3>1, <3>2, <3>3, <3>5, <3>6 DEF ArchiveHoldsSent
  <2>5. FooterMeansAll' BY <1>0, <1>6, <2>2 DEF ItemsOK, FooterMeansAll
  <2> QED BY <1>0, <2>1, <2>2, <2>3, <2>4, <2>5 DEF ItemsOK
<1> QED BY <1>1, <1>3, <1>4, <1>5, <1>6 DEF MainKind

\* Steps of the writer thread
LEMMA WriterItems ==
    ASSUME QueueInv, SaveInv, Writer
    PROVE  ItemsOK' /\ [T!Next]_(T!vars)
<1>0. /\ ItemsOK /\ SaveTypeOK /\ EndsInv /\ QueueHoldsSent /\ ArchiveHoldsSent
      /\ archive \in Seq(Info) /\ sent \in Seq(Info) /\ endofqueue \in BOOLEAN
  BY DEF SaveInv, ItemsOK, SaveTypeOK, QueueInv, QueueTypeOK
<1>n. Len(archive) \in Nat /\ Len(queue) \in Nat /\ Len(sent) \in Nat
  BY <1>0 DEF QueueInv, QueueTypeOK
<1>1. ASSUME UNCHANGED <<sent, archive, witem, curitemnum, endofqueue, blknum, blkinfo, queue>>,
             writerpc' \in {"drain", "exited"}
                \/ (writerpc \in {"none", "created", "open"} /\ writerpc' \in {"created", "open", "loop"}),
             archfile' = "complete" => archfile = "complete",
             stopfillqueue' = stopfillqueue \/ (stopfillqueue = FALSE /\ stopfillqueue' = TRUE)
      PROVE  ItemsOK' /\ [T!Next]_(T!vars)
  <2>1. ItemsOK' BY <1>0, <1>1, NothingMoves
  <2>2. [T!Next]_(T!vars) BY <1>1 DEF T!Next, T!Fail, T!vars
  <2> QED BY <2>1, <2>2
<1>e. writerpc \in {"open", "loop", "write"} => stopfillqueue = FALSE
  BY <1>0 DEF EndsInv, SaveTypeOK, ThreadsTypeOK
<1>2. CASE writer_start
  BY <1>1, <1>2 DEF writer_start, inc_secthreads, queuevars, compvars, mainvars
<1>3. CASE writer_open
  BY <1>1, <1>3, <1>e DEF writer_open, queuevars, compvars, mainvars, syncvars, WriterError,
     set_stopfillqueue
<1>4. CASE writer_exit
  BY <1>1, <1>4 DEF writer_exit, dec_secthreads, queuevars, compvars, mainvars
<1>5. CASE writer_take
  <2>1. queue # <<>> /\ queue[1].status = "DONE" /\ RemoveHead /\ UNCHANGED <<compvars, sent>>
        /\ witem' = queue[1].info /\ writerpc = "loop" /\ writerpc' = "write"
        /\ UNCHANGED <<archfile, archive, stopfillqueue, endofqueue>>
    BY <1>5 DEF writer_take, queue_dequeue_first, HeadReady, mainvars, syncvars, RemoveHead
  <2>2. /\ QueueHoldsSent' /\ Len(queue') = Len(queue) - 1 /\ witem' \in Info
        /\ witem' \in Packed(sent[Len(sent) - Len(queue) + 1])
    BY <1>0, <2>1, RemovedIsSent
  <2>3. Len(archive) + Len(queue) = Len(sent) BY <1>0, <2>1 DEF ArchiveHoldsSent
  <2>4. Len(sent) - Len(queue) + 1 = Len(archive) + 1 /\ Len(archive) + 1 + Len(queue') = Len(sent)
    BY ONLY <1>n, <2>2, <2>3
  <2>5. ArchiveHoldsSent' BY <1>0, <2>1, <2>2, <2>4 DEF ArchiveHoldsSent
  <2>6. FooterMeansAll' BY <1>0, <2>1 DEF ItemsOK, FooterMeansAll
  <2>7. UNCHANGED T!vars BY <2>1 DEF T!vars
  <2> QED BY <1>0, <2>1, <2>2, <2>5, <2>6, <2>7 DEF ItemsOK
<1>6. CASE writer_drain
  <2>1. queue # <<>> /\ RemoveHead /\ UNCHANGED <<compvars, sent>> /\ writerpc = "drain"
        /\ UNCHANGED <<writerpc, witem, archfile, archive, stopfillqueue, endofqueue>>
    BY <1>6 DEF writer_drain, queue_destroy_first_item, mainvars, writervars, syncvars, RemoveHead
  <2>2. QueueHoldsSent' BY <1>0, <2>1, RemovedIsSent
  <2>3. ArchiveHoldsSent' BY <1>0, <2>1 DEF ArchiveHoldsSent
  <2>4. FooterMeansAll' BY <1>0, <2>1 DEF ItemsOK, FooterMeansAll
  <2>5. UNCHANGED T!vars BY <2>1 DEF T!vars
  <2> QED BY <1>0, <2>1, <2>2, <2>3, <2>4, <2>5 DEF ItemsOK
<1>7. CASE writer_footer
  <2>1. itemcount < 1 /\ endofqueue /\ writerpc = "loop"
        /\ UNCHANGED <<queue, curitemnum, endofqueue, blknum, blkinfo, sent, witem, archive>>
    BY <1>7 DEF writer_footer, queue_get_end_of_queue, queuevars, compvars, mainvars
  <2>2. Len(queue) < 1 BY <2>1 DEF QueueInv, CountersMatch
  <2>3. Len(archive) = Len(sent)
    <3>1. Len(archive) + Len(queue) = Len(sent) BY <1>0, <2>1 DEF ArchiveHoldsSent
    <3> QED BY ONLY <1>n, <2>2, <3>1
  <2>4. CASE archfile' = "complete" /\ writerpc' = "exited" /\ dec_secthreads
    <3>1. QueueHoldsSent' BY <1>0, <2>1 DEF QueueHoldsSent
    <3>2. ArchiveHoldsSent' BY <1>0, <2>1, <2>4 DEF ArchiveHoldsSent
    <3>3. FooterMeansAll' BY <2>1, <2>3 DEF FooterMeansAll
    <3>4. UNCHANGED T!vars BY <2>1, <2>4 DEF T!vars, dec_secthreads
    <3> QED BY <1>0, <2>1, <3>1, <3>2, <3>3, <3>4 DEF ItemsOK
  <2>5. CASE WriterError /\ UNCHANGED archfile
    BY <1>1, <1>e, <2>1, <2>5 DEF WriterError, set_stopfillqueue
  <2> QED BY <1>7, <2>4, <2>5 DEF writer_footer
<1>8. CASE writer_write
  <2>1. /\ writerpc = "write" /\ witem' = NoInfo
        /\ UNCHANGED <<queue, curitemnum, endofqueue, blknum, blkinfo, sent, archfile>>
    BY <1>8 DEF writer_write, queuevars, compvars, mainvars
  <2>2. /\ Len(archive) + 1 + Len(queue) = Len(sent) /\ witem \in Packed(sent[Len(archive) + 1])
    BY <1>0, <2>1 DEF ArchiveHoldsSent
  <2>3. archfile' = "partial" /\ FooterMeansAll' BY <1>0, <2>1 DEF EndsInv, FooterMeansAll
  <2>4. QueueHoldsSent' BY <1>0, <2>1 DEF QueueHoldsSent
  <2>5. CASE archive' = Append(archive, witem) /\ writerpc' = "loop" /\ UNCHANGED syncvars
    <3>1. Len(archive) < Len(sent) /\ Len(archive) + 1 <= Len(sent)
          /\ (Len(archive) + 1) + Len(queue) = Len(sent)
      BY ONLY <1>n, <2>2
    <3>2. T!Next BY <1>e, <2>1, <2>2, <2>5, <3>1 DEF T!Next, T!Deliver, syncvars
    <3>3. witem \in Info
      <4>1. Len(archive) + 1 \in 1 .. Len(sent) BY ONLY <1>n, <3>1
      <4>2. sent[Len(archive) + 1] \in Info BY <1>0, <4>1
      <4> QED BY <2>2, <4>2, SaveInfoAssumption DEF Packed
    <3>4. /\ archive' \in Seq(Info) /\ Len(archive') = Len(archive) + 1
          /\ DOMAIN archive' = 1 .. Len(archive) + 1
          /\ \A n \in 1 .. Len(archive) : archive'[n] = archive[n]
          /\ archive'[Len(archive) + 1] = witem
      BY <1>0, <2>5, <3>3, AppendShape
    <3>5. ASSUME NEW n \in DOMAIN archive' PROVE archive'[n] \in Packed(sent[n])
      <4>1. CASE n = Len(archive) + 1 BY <2>2, <3>4, <4>1
      <4>2. CASE n \in 1 .. Len(archive)
        <5>1. n \in DOMAIN archive BY <1>0, <4>2
        <5> QED BY <1>0, <3>4, <4>2, <5>1 DEF ArchiveHoldsSent
      <4>3. n \in 1 .. Len(archive) + 1 BY <3>4
      <4>4. n \in 1 .. Len(archive) \/ n = Len(archive) + 1 BY ONLY <1>n, <4>3
      <4> QED BY <4>1, <4>2, <4>4
    <3>6. ArchiveHoldsSent'
      <4>1. Len(archive') <= Len(sent') /\ Len(archive') + Len(queue') = Len(sent')
        BY <2>1, <3>1, <3>4
      <4> QED BY <2>1, <2>5, <3>5, <4>1 DEF ArchiveHoldsSent
    <3> QED BY <1>0, <2>1, <2>3, <2>4, <3>2, <3>4, <3>6 DEF ItemsOK
  <2>6. CASE WriterError /\ UNCHANGED archive
    <3>1. T!Next BY <1>e, <2>1, <2>6 DEF T!Next, T!Fail, WriterError, set_stopfillqueue
    <3>2. ArchiveHoldsSent' BY <1>0, <2>1, <2>6 DEF ArchiveHoldsSent, WriterError
    <3> QED BY <1>0, <2>1, <2>3, <2>4, <2>6, <3>1, <3>2 DEF ItemsOK
  <2> QED BY <1>8, <2>5, <2>6 DEF writer_write
<1> QED BY <1>2, <1>3, <1>4, <1>5, <1>6, <1>7, <1>8 DEF Writer

\* Steps of a compression thread
LEMMA CompItems ==
    ASSUME QueueInv, SaveInv, NEW t \in CompThreads, Comp(t)
    PROVE  ItemsOK' /\ [T!Next]_(T!vars)
<1>0. ItemsOK /\ SaveTypeOK /\ QueueHoldsSent /\ ArchiveHoldsSent
  BY DEF SaveInv, ItemsOK, SaveTypeOK
<1>1. /\ UNCHANGED <<sent, witem, archfile, archive, writerpc>>
      /\ UNCHANGED <<stopfillqueue, endofqueue, curitemnum>>
  BY DEF Comp, mainvars, writervars, syncvars, queuevars, thread_comp_start, thread_comp_take,
     thread_comp_put, thread_comp_exit, thread_comp_error, inc_secthreads, dec_secthreads,
     queue_get_first_block_todo, queue_replace_block
<1>2. UNCHANGED T!vars BY <1>1 DEF T!vars
<1>3. CASE thread_comp_start(t) \/ thread_comp_exit(t) \/ thread_comp_error(t)
  <2>1. UNCHANGED <<queue, blknum, blkinfo>>
    BY <1>3 DEF thread_comp_start, thread_comp_exit, thread_comp_error, queuevars
  <2> QED BY <1>0, <1>1, <1>2, <2>1, NothingMoves
<1>4. CASE thread_comp_take(t) \/ thread_comp_put(t, compress_block_generic(blkinfo[t]))
  <2>1. QueueHoldsSent' /\ Len(queue') = Len(queue)
    BY <1>0, <1>1, <1>4, TakenIsSent, PutIsSent
  <2>2. ArchiveHoldsSent' BY <1>0, <1>1, <2>1 DEF ArchiveHoldsSent
  <2>3. FooterMeansAll' BY <1>0, <1>1 DEF ItemsOK, FooterMeansAll
  <2> QED BY <1>0, <1>1, <1>2, <2>1, <2>2, <2>3 DEF ItemsOK
<1> QED BY <1>3, <1>4 DEF Comp

-----------------------------------------------------------------------------
(* The results *)

LEMMA SaveInitInv == Init => QInit /\ QueueInv /\ SaveInv /\ T!Init
<1> SUFFICES ASSUME Init PROVE QInit /\ QueueInv /\ SaveInv /\ T!Init OBVIOUS
<1> USE DEF Init
<1>1. QInit /\ QueueInv BY InitInv DEF QInit
<1>2. /\ queue = <<>> /\ curitemnum = 1 /\ endofqueue = FALSE /\ secthreads = 0
      /\ stopfillqueue = FALSE /\ aborted = FALSE
      /\ comppc = [t \in CompThreads |-> "none"] /\ blknum = [t \in CompThreads |-> 0]
  BY DEF ThreadsInit, queue_init
<1>3. T!Init BY <1>2 DEF T!Init
<1>4. archive \in Seq(Info) /\ sent \in Seq(Info) /\ regmulti \in Seq(Nat)
      /\ Len(archive) = 0 /\ Len(sent) = 0 /\ Len(regmulti) = 0 /\ Len(queue) = 0
  BY <1>2
<1>5. SaveTypeOK
  <2>1. ThreadsTypeOK BY <1>1, <1>2 DEF QueueInv, ThreadsTypeOK
  <2>2. last \in BOOLEAN /\ fatal \in BOOLEAN /\ totalerr \in BOOLEAN OBVIOUS
  <2>3. archfile \in {"none", "old", "partial", "complete"} OBVIOUS
  <2> QED BY <1>4, <2>1, <2>2, <2>3 DEF SaveTypeOK, MainPc
<1>6. WalkInv
  <2>1. Len(Trees) \in Nat BY SaveAssumption
  <2> QED BY <2>1 DEF WalkInv, InTree
<1>7. GroupInv BY <1>4, SaveAssumption DEF GroupInv
<1>8. SecthreadsInv
  <2>1. {t \in CompThreads : Running(t)} = {} BY <1>2 DEF Running
  <2> QED BY <1>2, <2>1, FS_EmptySet DEF SecthreadsInv
<1>9. EndsInv BY <1>2 DEF EndsInv
<1>10. QueueHoldsSent BY <1>2, <1>4 DEF QueueHoldsSent
<1>11. ArchiveHoldsSent BY <1>4 DEF ArchiveHoldsSent
<1>12. FooterMeansAll /\ FailureLeavesNothing BY DEF FooterMeansAll, FailureLeavesNothing
<1> QED BY <1>1, <1>3, <1>5, <1>6, <1>7, <1>8, <1>9, <1>10, <1>11, <1>12 DEF SaveInv

\* One step of the whole: it keeps the invariant, it is a step of a client of
\* the queue and it is a step of the transfer.
LEMMA SaveNextInv ==
    QueueInv /\ SaveInv /\ [Next]_vars =>
        QueueInv' /\ SaveInv' /\ [QNext]_qvars /\ [T!Next]_(T!vars)
<1> SUFFICES ASSUME QueueInv, SaveInv, [Next]_vars
             PROVE  QueueInv' /\ SaveInv' /\ [QNext]_qvars /\ [T!Next]_(T!vars)
  OBVIOUS
<1>0. /\ SaveTypeOK /\ WalkInv /\ GroupInv /\ SecthreadsInv /\ EndsInv /\ QueueHoldsSent
      /\ ArchiveHoldsSent /\ FooterMeansAll /\ FailureLeavesNothing
  BY DEF SaveInv
<1>1. [QNext]_qvars BY <1>0, SaveQueueStep
<1>2. QueueInv' BY <1>1, NextInv
<1>3. WalkTypeOK' /\ WalkInv' /\ GroupInv' BY <1>0, WalkKept
<1>4. SecthreadsInv' /\ secthreads' \in Nat BY <1>0, SecthreadsStep
<1>5. EndsInv' BY <1>0, EndsStep
<1>6. FailureLeavesNothing' BY <1>0, FailureStep
<1>7. ItemsOK' /\ [T!Next]_(T!vars)
  <2>1. CASE UNCHANGED <<queue, curitemnum, endofqueue, blknum, blkinfo, sent, stopfillqueue, writervars>>
    <3>1. ItemsOK' BY <1>0, <2>1, NothingMoves DEF ItemsOK, SaveTypeOK, writervars
    <3>2. UNCHANGED T!vars BY <2>1 DEF T!vars, writervars
    <3> QED BY <3>1, <3>2
  <2>2. CASE User \/ UNCHANGED vars
    BY <2>1, <2>2 DEF User, Signal, vars, queuevars, compvars, syncvars, mainvars
  <2> QED BY <2>2, MainItems, WriterItems, CompItems DEF Next, Terminated
<1>8. SaveTypeOK'
  <2>1. stopfillqueue' \in BOOLEAN /\ aborted' \in BOOLEAN
    <3>1. stopfillqueue \in BOOLEAN /\ aborted \in BOOLEAN BY <1>0 DEF SaveTypeOK, ThreadsTypeOK
    <3>2. CASE Main
      <4>1. MainKind BY <1>0, <3>2, MainStep
      <4> QED BY <3>1, <4>1 DEF MainKind
    <3>3. CASE ~Main
      BY <3>1, <3>3 DEF Next, Writer, Comp, User, Terminated, Signal, vars, syncvars, writer_start,
         writer_open, writer_take, writer_write, writer_footer, writer_drain, writer_exit,
         WriterError, set_stopfillqueue, inc_secthreads, dec_secthreads, thread_comp_start,
         thread_comp_take, thread_comp_put, thread_comp_exit, thread_comp_error
    <3> QED BY <3>2, <3>3
  <2>2. ThreadsTypeOK' BY <1>2, <1>4, <2>1 DEF QueueInv, ThreadsTypeOK
  <2>3. /\ writerpc' \in {"none", "created", "open", "loop", "write", "drain", "exited"}
        /\ archfile' \in {"none", "old", "partial", "complete"}
    <3>1. /\ writerpc \in {"none", "created", "open", "loop", "write", "drain", "exited"}
          /\ archfile \in {"none", "old", "partial", "complete"}
      BY <1>0 DEF SaveTypeOK
    <3>2. CASE Main
      BY <3>1, <3>2 DEF Main, writervars, main_create_comp, main_create_writer, main_mainhead, main_fsinfo,
         main_analyse_error, main_tree, main_fsyb, main_object, main_save_node, main_save_multi,
         main_save_unique, main_flush, main_file, main_block, main_filf, main_nexttree, main_datf,
         main_check, main_finish, main_join_comp, main_join_writer, archwriter_remove
    <3>3. CASE ~Main
      BY <3>1, <3>3 DEF Next, Writer, Comp, User, Terminated, vars, writervars, writer_start,
         writer_open, writer_take, writer_write, writer_footer, writer_drain, writer_exit, WriterError
    <3> QED BY <3>2, <3>3
  <2> QED BY <1>3, <1>7, <2>2, <2>3 DEF SaveTypeOK, WalkTypeOK, ItemsOK
<1> QED BY <1>1, <1>2, <1>3, <1>4, <1>5, <1>6, <1>7, <1>8 DEF SaveInv, ItemsOK

\* The invariant of the whole pipeline: of the queue, of the walk, of the
\* threads and of the archive, however they interleave.
THEOREM SaveCorrect == Spec => [](QueueInv /\ SaveInv)
<1>1. Init => QueueInv /\ SaveInv BY SaveInitInv
<1>2. QueueInv /\ SaveInv /\ [Next]_vars => (QueueInv /\ SaveInv)' BY SaveNextInv
<1> QED BY <1>1, <1>2, PTL DEF Spec

\* savefs and savedir call queue.c as QueueProtocol allows: what QueueProofs
\* shows of the queue, its bound and its owners included, holds in them.
THEOREM SaveImplementsQueue == Spec => QSpec
<1>1. Init => QInit /\ QueueInv /\ SaveInv BY SaveInitInv
<1>2. QueueInv /\ SaveInv /\ [Next]_vars => (QueueInv /\ SaveInv)' /\ [QNext]_qvars BY SaveNextInv
<1> QED BY <1>1, <1>2, PTL DEF Spec, QSpec

\* What the main thread queues reaches the archive in order, once, packed, as
\* long as the writer has not given up: the safety part of TransferSpec.
THEOREM SaveTransfersInOrder == Spec => T!Init /\ [][T!Next]_(T!vars)
<1>1. Init => T!Init /\ QueueInv /\ SaveInv BY SaveInitInv
<1>2. QueueInv /\ SaveInv /\ [Next]_vars => (QueueInv /\ SaveInv)' /\ [T!Next]_(T!vars) BY SaveNextInv
<1> QED BY <1>1, <1>2, PTL DEF Spec

\* A footer written by archwriter_write_volfooter() ends an archive that holds
\* everything that oper_save() has queued, and nothing will be queued any more.
THEOREM FooterIsTrue == Spec => []FooterMeansAll
BY SaveCorrect, PTL DEF SaveInv

\* oper_save() that fails as a whole has removed its archive before it
\* returns, and no thread of it writes one afterwards.
THEOREM FailureRemovesArchive == Spec => []FailureLeavesNothing
BY SaveCorrect, PTL DEF SaveInv

\* In savefs, an error that ends the walk over a file system always reaches
\* the exit status.  (In savedir it does not: createar_oper_savedir() ignores
\* what the walk returns.)
THEOREM FatalIsReported ==
    ASSUME archtype = "FILESYSTEMS" PROVE Spec => []FatalErrorIsReported
<1>1. SaveInv => FatalErrorIsReported
  BY DEF SaveInv, EndsInv, FatalErrorIsReported, exitstatus
<1> QED BY <1>1, SaveCorrect, PTL

\* The end of the queue that a thread of oper_save() has seen is final: no
\* item is left behind by a thread that ends.
THEOREM SaveEndIsFinal == Spec => EndOfQueueIsFinal
BY SaveImplementsQueue, EndIsFinal, PTL

=============================================================================
