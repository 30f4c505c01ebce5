--------------------------- MODULE RestoreProofs ---------------------------
(***************************************************************************)
(* restfs, restdir and archinfo, for every archive in which the blocks and *)
(* the footer of a file come after its header, every choice of what is     *)
(* excluded or present, every number of threads and every combination of   *)
(* the faults the code handles: the pipeline uses the queue as             *)
(* QueueProtocol allows, hands the items over in order, and counts or      *)
(* leaves behind no file with wrong contents unnoticed.                    *)
(***************************************************************************)
EXTENDS RestorePipeline, QueueProofs

-----------------------------------------------------------------------------
(* What each step does to the queue *)

\* The main thread takes the first item, before it stops.
Takes ==
    /\ queue # <<>> /\ queue[1].status = "DONE" /\ RemoveHead
    /\ got' = Append(got, queue[1].info)
    /\ ~Stopped /\ ~Stopped'
    /\ UNCHANGED <<syncvars, compvars>>

\* The main thread has stopped and throws the first item away.
Drops ==
    /\ Stopped /\ Stopped'
    /\ queue_destroy_first_item
    /\ UNCHANGED <<syncvars, compvars, got>>

\* The main thread leaves the queue and its items alone.
Keeps ==
    /\ UNCHANGED <<queuevars, compvars, got, aborted, secthreads>>
    /\ \/ UNCHANGED stopfillqueue /\ (Stopped <=> Stopped')
       \/ ~Stopped /\ Stopped' /\ stopfillqueue' = TRUE

\* Every step of the main thread is one of four kinds.
MainKind ==
    /\ UNCHANGED <<pos, ritem, damaged, sent, origin>>
    /\ \/ Takes \/ Drops \/ Keeps
       \/ /\ \E t \in CompThreads : create_comp(t)
          /\ UNCHANGED got /\ ~Stopped /\ ~Stopped'
    /\ UNCHANGED readerpc \/ (mainpc = "create" /\ readerpc' = "created" /\ Keeps)

\* A step that takes a header or a block
LEMMA TakesItem ==
    ASSUME TakeHeader \/ TakeBlock \/ (HeadReady /\ queue_destroy_first_item /\ Taken),
           ~Stopped, ~Stopped', UNCHANGED <<syncvars, compvars>>
    PROVE  Takes
BY DEF Takes, TakeHeader, TakeBlock, Taken, queue_dequeue_header, queue_dequeue_block,
   queue_destroy_first_item, HeadReady

\* A step that takes nothing
LEMMA KeepsItems ==
    ASSUME Local, UNCHANGED <<syncvars, compvars>>, Stopped <=> Stopped'
    PROVE  Keeps
BY DEF Keeps, Local, syncvars

\* A header that is taken to be one of an object names its kind.
LEMMA KindOfObject ==
    ASSUME QueueTypeOK, queue # <<>>, queue[1].info.magic = "OBJT"
    PROVE  queue[1].info \in Info /\ queue[1].info.form \in {"node", "unique", "multi"}
<1>1. queue[1] \in Item BY TailShape DEF QueueTypeOK
<1>2. queue[1].info \in Info BY <1>1 DEF Item
<1> QED BY <1>2, ArchiveAssumption

\* The actions of oper_restore(), one by one
LEMMA MainStep == ASSUME RestoreTypeOK, EndsInv, Main PROVE MainKind
<1>0. QueueTypeOK BY DEF RestoreTypeOK, ThreadsTypeOK
<1> USE DEF Stopped, Goto, Error
<1>1. CASE main_create_decomp
  <2>1. CASE \E t \in CompThreads : comppc[t] = "none" /\ comppc' = [comppc EXCEPT ![t] = "created"]
                                   /\ UNCHANGED mainpc
    <3>1. \E t \in CompThreads : create_comp(t)
      BY <1>1, <2>1 DEF main_create_decomp, create_comp, Local
    <3> QED BY <1>1, <2>1, <3>1 DEF main_create_decomp, MainKind, Local, readervars
  <2>2. CASE UNCHANGED comppc /\ Goto("stop")
    <3>1. Keeps BY <1>1, <2>2, KeepsItems DEF main_create_decomp, compvars
    <3> QED BY <1>1, <3>1 DEF main_create_decomp, MainKind, readervars
  <2> QED BY <1>1, <2>1, <2>2 DEF main_create_decomp
<1>2. CASE main_create_reader
  <2>1. Keeps BY <1>2, KeepsItems DEF main_create_reader
  <2> QED BY <1>2, <2>1 DEF main_create_reader, MainKind
<1>3. CASE main_mainhead
  <2>1. Takes \/ Keeps BY <1>3, TakesItem, KeepsItems DEF main_mainhead, DequeueFails
  <2> QED BY <1>3, <2>1 DEF main_mainhead, MainKind, readervars
<1>4. CASE main_fsinfo
  <2>1. Takes \/ Keeps BY <1>4, TakesItem, KeepsItems DEF main_fsinfo, DequeueFails
  <2> QED BY <1>4, <2>1 DEF main_fsinfo, MainKind, readervars
<1>5. CASE main_begin
  <2>1. Keeps BY <1>5, KeepsItems DEF main_begin
  <2> QED BY <1>5, <2>1 DEF main_begin, MainKind, readervars
<1>6. CASE main_fs
  <2>1. Keeps BY <1>6, KeepsItems DEF main_fs
  <2> QED BY <1>6, <2>1 DEF main_fs, MainKind, readervars
<1>7. CASE main_fsyb
  <2>1. Takes \/ Keeps BY <1>7, TakesItem, KeepsItems DEF main_fsyb, DequeueFails
  <2> QED BY <1>7, <2>1 DEF main_fsyb, MainKind, readervars
<1>8. CASE main_peek
  <2>0. UNCHANGED <<syncvars, compvars, readervars>> /\ ~Stopped BY <1>8 DEF main_peek
  <2>1. CASE TakeHeader /\ queue[1].info.magic = "OBJT"
             /\ (Goto(queue[1].info.form) \/ Goto("next"))
    <3>1. queue[1].info.form \in {"node", "unique", "multi"}
      BY <1>0, <2>1, KindOfObject DEF TakeHeader, queue_dequeue_header, HeadReady
    <3>2. ~Stopped' BY <2>1, <3>1
    <3>3. Takes BY <2>0, <2>1, <3>2, TakesItem
    <3> QED BY <2>0, <3>3 DEF MainKind, readervars
  <2>2. CASE (Error \/ Goto("objend")) /\ Local
    <3>1. Keeps BY <2>0, <2>2, KeepsItems
    <3> QED BY <2>0, <3>1 DEF MainKind, readervars
  <2>3. CASE HeadReady /\ queue_destroy_first_item /\ Taken /\ UNCHANGED mainpc
    <3>1. Takes BY <2>0, <2>3, TakesItem
    <3> QED BY <2>0, <3>1 DEF MainKind, readervars
  <2> QED BY <1>8, <2>1, <2>2, <2>3 DEF main_peek
<1>9. CASE main_node
  <2>1. Keeps BY <1>9, KeepsItems DEF main_node
  <2> QED BY <1>9, <2>1 DEF main_node, MainKind, readervars
<1>10. CASE main_next
  <2>1. Keeps BY <1>10, KeepsItems DEF main_next
  <2> QED BY <1>10, <2>1 DEF main_next, MainKind, readervars
<1>11. CASE main_objend
  <2>1. Takes \/ Keeps BY <1>11, TakesItem, KeepsItems DEF main_objend, DequeueFails
  <2> QED BY <1>11, <2>1 DEF main_objend, MainKind, readervars
<1>12. CASE main_file_open
  <2>1. Keeps BY <1>12, KeepsItems DEF main_file_open
  <2> QED BY <1>12, <2>1 DEF main_file_open, MainKind, readervars
<1>13. CASE main_file_loop
  <2>1. Keeps BY <1>13, KeepsItems DEF main_file_loop
  <2> QED BY <1>13, <2>1 DEF main_file_loop, MainKind, readervars
<1>14. CASE main_file_block
  <2>1. Takes \/ Keeps BY <1>14, TakesItem, KeepsItems DEF main_file_block, DequeueFails
  <2> QED BY <1>14, <2>1 DEF main_file_block, MainKind, readervars
<1>15. CASE main_file_footer
  <2>1. Takes \/ Keeps BY <1>15, TakesItem, KeepsItems DEF main_file_footer, DequeueFails
  <2> QED BY <1>15, <2>1 DEF main_file_footer, MainKind, readervars
<1>16. CASE main_file_end
  <2>1. Keeps BY <1>16, KeepsItems DEF main_file_end
  <2> QED BY <1>16, <2>1 DEF main_file_end, MainKind, readervars
<1>17. CASE main_group_header
  <2>1. Takes \/ Keeps BY <1>17, TakesItem, KeepsItems DEF main_group_header, DequeueFails
  <2> QED BY <1>17, <2>1 DEF main_group_header, MainKind, readervars
<1>18. CASE main_group_block
  <2>0. /\ mainpc = "multi" /\ (mainpc' = "next" \/ mainpc' = "stop")
        /\ TakeBlock \/ DequeueFails("BLOCK")
    BY <1>18 DEF main_group_block, restore_files
  <2>1. Takes \/ Keeps BY <1>18, <2>0, TakesItem, KeepsItems DEF main_group_block, DequeueFails, restore_files
  <2> QED BY <1>18, <2>1 DEF main_group_block, MainKind, readervars
<1>19. CASE main_check
  <2>1. Keeps BY <1>19, KeepsItems DEF main_check
  <2> QED BY <1>19, <2>1 DEF main_check, MainKind, readervars
<1>20. CASE main_stop
  <2>1. Keeps BY <1>20 DEF main_stop, set_stopfillqueue, Local, Keeps
  <2> QED BY <1>20, <2>1 DEF main_stop, MainKind, readervars
<1>21. CASE main_wait
  <2>1. Keeps BY <1>21, KeepsItems DEF main_wait
  <2> QED BY <1>21, <2>1 DEF main_wait, MainKind, readervars
<1>22. CASE main_drain
  <2>1. Keeps BY <1>22, KeepsItems DEF main_drain
  <2> QED BY <1>22, <2>1 DEF main_drain, MainKind, readervars
<1>23. CASE main_destroy
  <2>1. CASE queue_destroy_first_item
    BY <1>23, <2>1 DEF main_destroy, Drops, MainKind, readervars
  <2>2. CASE UNCHANGED queuevars
    <3>1. Keeps BY <1>23, <2>2 DEF main_destroy, Keeps, syncvars
    <3> QED BY <1>23, <3>1 DEF main_destroy, MainKind, readervars
  <2> QED BY <1>23, <2>1, <2>2 DEF main_destroy
<1>24. CASE main_join_decomp
  <2>1. Keeps BY <1>24, KeepsItems DEF main_join_decomp
  <2> QED BY <1>24, <2>1 DEF main_join_decomp, MainKind, readervars
<1>25. CASE main_join_reader
  <2>1. Keeps BY <1>25, KeepsItems DEF main_join_reader
  <2> QED BY <1>25, <2>1 DEF main_join_reader, MainKind, readervars
<1> QED
  BY <1>1, <1>2, <1>3, <1>4, <1>5, <1>6, <1>7, <1>8, <1>9, <1>10, <1>11, <1>12, <1>13, <1>14,
     <1>15, <1>16, <1>17, <1>18, <1>19, <1>20, <1>21, <1>22, <1>23, <1>24, <1>25 DEF Main

-----------------------------------------------------------------------------
(* The items *)

\* Where the items of the queue are in the history
LEMMA ItemNumbers ==
    ASSUME QueueInv, RestoreTypeOK, QueueHoldsSent
    PROVE  /\ queue \in Seq(Item) /\ Len(queue) \in Nat /\ DOMAIN queue = 1 .. Len(queue)
           /\ sent \in Seq(Info) /\ Len(sent) \in Nat /\ DOMAIN sent = 1 .. Len(sent)
           /\ curitemnum = Len(sent) + 1 /\ Len(queue) <= Len(sent)
           /\ \A i \in DOMAIN queue : /\ queue[i].itemnum = Len(sent) - Len(queue) + i
                                      /\ queue[i].itemnum \in DOMAIN sent
                                      /\ queue[i].info \in Info
           /\ blknum \in [CompThreads -> Nat]
           /\ \A t \in CompThreads : blknum[t] # 0 => blknum[t] \in DOMAIN sent
<1>1. queue \in Seq(Item) /\ Len(queue) \in Nat /\ DOMAIN queue = 1 .. Len(queue)
      /\ curitemnum \in Nat /\ blknum \in [CompThreads -> Nat]
  BY DEF QueueInv, QueueTypeOK
<1>2. sent \in Seq(Info) /\ Len(sent) \in Nat /\ DOMAIN sent = 1 .. Len(sent)
  BY DEF RestoreTypeOK
<1>3. curitemnum = Len(sent) + 1 BY <1>1, <1>2 DEF QueueHoldsSent
<1>4. Len(queue) <= Len(sent) BY <1>1, <1>2, <1>3 DEF QueueInv, NumbersLeft
<1>5. ASSUME NEW i \in DOMAIN queue
      PROVE  /\ queue[i].itemnum = Len(sent) - Len(queue) + i /\ queue[i].itemnum \in DOMAIN sent
             /\ queue[i].info \in Info
  <2>1. queue[i].itemnum = curitemnum - Len(queue) + i - 1
    BY DEF QueueInv, ItemsAreConsecutive
  <2>2. queue[i] \in Item BY <1>1
  <2> QED BY <1>1, <1>2, <1>3, <1>4, <2>1, <2>2 DEF Item
<1>6. ASSUME NEW t \in CompThreads, blknum[t] # 0 PROVE blknum[t] \in DOMAIN sent
  BY <1>5, <1>6 DEF QueueInv, InProgressIsHeld, Holds
<1> QED BY <1>1, <1>2, <1>3, <1>4, <1>5, <1>6

\* The block that a decompression thread has in hand is the one that was
\* queued, and whatever comes of it is something the queue can hold.
LEMMA UnpackedBlock ==
    ASSUME QueueInv, RestoreTypeOK, QueueHoldsSent, NEW t \in CompThreads, comppc[t] = "busy"
    PROVE  /\ blknum[t] \in DOMAIN sent
           /\ blkinfo[t] = sent[blknum[t]] /\ blkinfo[t].magic = "BLKH" /\ blkinfo[t].form = "packed"
           /\ decompress_block_generic(blkinfo[t]) \subseteq Info
<1>1. blknum[t] # 0 BY DEF QueueInv, BusyHasBlock
<1>2. PICK i \in DOMAIN queue : queue[i].itemnum = blknum[t] /\ queue[i].type = "BLOCK"
  BY <1>1 DEF QueueInv, InProgressIsHeld, Holds
<1>3. /\ blkinfo[t] = sent[blknum[t]] /\ sent[blknum[t]].magic = "BLKH"
      /\ blkinfo[t].form = "packed"
  BY <1>1, <1>2 DEF QueueHoldsSent
<1>4. blknum[t] \in DOMAIN sent /\ sent[blknum[t]] \in Info BY <1>1, ItemNumbers
<1>5. decompress_block_generic(sent[blknum[t]]) \subseteq Info BY <1>3, <1>4, ArchiveAssumption
<1> QED BY <1>3, <1>4, <1>5

\* Every step of the pipeline is a step of a client of the queue, or none.
LEMMA RestoreQueueStep ==
    ASSUME QueueInv, RestoreTypeOK, EndsInv, QueueHoldsSent, ObjectsComeOnce, [Next]_vars
    PROVE  [QNext]_qvars
<1>1. CASE Main
  <2>1. MainKind BY <1>1, MainStep
  <2>2. CASE Takes BY <2>2 DEF Takes, QNext, Empty, queue_dequeue_first, HeadReady
  <2>3. CASE Drops BY <2>3 DEF Drops, QNext, Empty
  <2>4. CASE Keeps BY <2>4 DEF Keeps, qvars
  <2>5. CASE \E t \in CompThreads : create_comp(t) BY <2>5 DEF QNext, Work
  <2> QED BY <2>1, <2>2, <2>3, <2>4, <2>5 DEF MainKind
<1>2. CASE Reader
  <2>1. CASE reader_add
    <3>1. ritem \in Info BY <2>1 DEF reader_add, ObjectsComeOnce
    <3>2. \/ \E status \in {"TODO", "DONE"} : queue_add_block(ritem, status)
          \/ queue_add_header(ritem)
      BY <2>1 DEF reader_add
    <3> QED BY <2>1, <3>1, <3>2 DEF reader_add, QNext, Fill
  <2>2. CASE reader_end BY <2>2 DEF reader_end, QNext, Fill
  <2>3. CASE UNCHANGED <<queuevars, compvars>> BY <2>3 DEF qvars
  <2> QED
    BY <1>2, <2>1, <2>2, <2>3 DEF Reader, reader_start, reader_open, reader_read, reader_skip_damaged,
       reader_zero_damaged, reader_give_up, reader_volume, reader_exit
<1>3. ASSUME NEW t \in CompThreads, Decomp(t) PROVE QNext
  <2> DEFINE R == {r \in decompress_block_generic(blkinfo[t]) : r.form = "clear" \/ Fault("unpack")}
  <2>1. CASE thread_comp_put(t, R)
    <3>1. \A r \in R : r \in Info BY <2>1, UnpackedBlock DEF thread_comp_put
    <3> HIDE DEF R
    <3>2. PICK r \in R : thread_comp_put(t, {r}) BY <2>1 DEF thread_comp_put
    <3> QED BY <3>1, <3>2 DEF QNext, Work
  <2> QED BY <1>3, <2>1 DEF Decomp, QNext, Work
<1>4. CASE User BY <1>4 DEF User, Signal, qvars
<1>5. CASE UNCHANGED vars BY <1>5 DEF vars, qvars
<1> QED BY <1>1, <1>2, <1>3, <1>4, <1>5 DEF Next, Terminated

\* queue_add_header() and queue_add_block() in the reader
LEMMA AddedIsSent ==
    ASSUME QueueInv, RestoreTypeOK, QueueHoldsSent, ritem \in Info, reader_add
    PROVE  /\ QueueHoldsSent'
           /\ Len(queue') = Len(queue) + 1
           /\ sent' \in Seq(Info) /\ Len(sent') = Len(sent) + 1
           /\ DOMAIN sent' = 1 .. Len(sent) + 1
           /\ \A n \in DOMAIN sent : sent'[n] = sent[n]
           /\ sent'[Len(sent) + 1] = ritem
<1>0. /\ queue \in Seq(Item) /\ Len(queue) \in Nat /\ DOMAIN queue = 1 .. Len(queue)
      /\ sent \in Seq(Info) /\ Len(sent) \in Nat /\ DOMAIN sent = 1 .. Len(sent)
      /\ curitemnum = Len(sent) + 1
      /\ \A i \in DOMAIN queue : queue[i].itemnum \in DOMAIN sent
      /\ \A t \in CompThreads : blknum[t] # 0 => blknum[t] \in DOMAIN sent
  BY ItemNumbers
<1>1. /\ sent' = Append(sent, ritem) /\ curitemnum' = curitemnum + 1
      /\ UNCHANGED <<blknum, blkinfo>>
  BY DEF reader_add, compvars, queue_add_header, queue_add_block
<1>2. /\ sent' \in Seq(Info) /\ Len(sent') = Len(sent) + 1
      /\ DOMAIN sent' = 1 .. Len(sent) + 1
      /\ \A n \in DOMAIN sent : sent'[n] = sent[n]
      /\ sent'[Len(sent) + 1] = ritem
  BY <1>0, <1>1, AppendShape
<1>3. PICK item \in Item : /\ queue' = Append(queue, item) /\ item.itemnum = curitemnum
                           /\ item.info = ritem
                           /\ item.type = "BLOCK" <=> ritem.magic = "BLKH"
                           /\ item.status = "DONE" <=> ritem.form # "packed"
  <2>1. CASE ritem.magic # "BLKH"
    <3> DEFINE item == [type |-> "HEADER", status |-> "DONE", itemnum |-> curitemnum, info |-> ritem]
    <3>1. item \in Item BY <1>0 DEF Item, Status
    <3>2. queue' = Append(queue, item) BY <2>1 DEF reader_add, queue_add_header
    <3>3. ritem.form # "packed" BY <2>1, ArchiveAssumption
    <3> QED BY <2>1, <3>1, <3>2, <3>3
  <2>2. CASE ritem.magic = "BLKH"
    <3> DEFINE status == IF ritem.form = "packed" THEN "TODO" ELSE "DONE"
               item == [type |-> "BLOCK", status |-> status, itemnum |-> curitemnum, info |-> ritem]
    <3>1. item \in Item BY <1>0 DEF Item, Status
    <3>2. queue' = Append(queue, item) BY <2>2 DEF reader_add, queue_add_block
    <3> QED BY <2>2, <3>1, <3>2
  <2> QED BY <2>1, <2>2
<1>4. /\ Len(queue') = Len(queue) + 1 /\ DOMAIN queue' = 1 .. Len(queue) + 1
      /\ \A i \in 1 .. Len(queue) : queue'[i] = queue[i]
      /\ queue'[Len(queue) + 1] = item
  BY <1>0, <1>3, AppendShape
<1>5. ASSUME NEW i \in DOMAIN queue'
      PROVE  LET x == sent'[queue'[i].itemnum]
             IN  /\ queue'[i].type = "BLOCK" <=> x.magic = "BLKH"
                 /\ queue'[i].status = "DONE" => queue'[i].info \in Unpacked(x)
                 /\ queue'[i].status # "DONE" => queue'[i].info = x /\ x.form = "packed"
  <2>1. CASE i \in DOMAIN queue
    <3>1. queue'[i] = queue[i] /\ sent'[queue[i].itemnum] = sent[queue[i].itemnum]
      BY <1>0, <1>2, <1>4, <2>1
    <3> QED BY <2>1, <3>1 DEF QueueHoldsSent
  <2>2. CASE i = Len(queue) + 1
    <3>1. queue'[i] = item /\ sent'[item.itemnum] = ritem BY <1>0, <1>2, <1>3, <1>4, <2>2
    <3> QED BY <1>3, <3>1 DEF Unpacked
  <2> QED BY <1>0, <1>4, <2>1, <2>2
<1>6. \A t \in CompThreads : blknum'[t] # 0 =>
          blkinfo'[t] = sent'[blknum'[t]] /\ blkinfo'[t].form = "packed"
  BY <1>0, <1>1, <1>2 DEF QueueHoldsSent
<1>7. Len(sent') = curitemnum' - 1 BY <1>0, <1>1, <1>2
<1> QED BY <1>2, <1>4, <1>5, <1>6, <1>7 DEF QueueHoldsSent

\* The functions that empty the queue
LEMMA RemovedIsSent ==
    ASSUME QueueInv, RestoreTypeOK, QueueHoldsSent, queue # <<>>, RemoveHead,
           UNCHANGED <<compvars, sent>>
    PROVE  /\ QueueHoldsSent'
           /\ Len(queue') = Len(queue) - 1
           /\ queue[1].info \in Info
           /\ queue[1].status = "DONE" =>
                 queue[1].info \in Unpacked(sent[Len(sent) - Len(queue) + 1])
<1>0. /\ queue \in Seq(Item) /\ Len(queue) \in Nat /\ DOMAIN queue = 1 .. Len(queue)
      /\ \A i \in DOMAIN queue : /\ queue[i].itemnum = Len(sent) - Len(queue) + i
                                 /\ queue[i].info \in Info
  BY ItemNumbers
<1>1. /\ Len(queue') = Len(queue) - 1 /\ DOMAIN queue' = 1 .. Len(queue) - 1
      /\ \A i \in 1 .. Len(queue) - 1 : queue'[i] = queue[i + 1]
      /\ UNCHANGED <<curitemnum, blknum, blkinfo, sent>>
  BY <1>0, TailShape DEF RemoveHead, compvars
<1>2. 1 \in DOMAIN queue BY <1>0
<1>3. ASSUME NEW i \in DOMAIN queue' PROVE i + 1 \in DOMAIN queue /\ queue'[i] = queue[i + 1]
  BY <1>0, <1>1
<1>4. QueueHoldsSent' BY <1>1, <1>3 DEF QueueHoldsSent
<1>5. queue[1].itemnum = Len(sent) - Len(queue) + 1 BY <1>0, <1>2
<1> QED BY <1>0, <1>1, <1>2, <1>4, <1>5 DEF QueueHoldsSent

\* queue_get_first_block_todo() in a decompression thread
LEMMA TakenIsSent ==
    ASSUME QueueInv, RestoreTypeOK, QueueHoldsSent, NEW t \in CompThreads, thread_comp_take(t),
           UNCHANGED sent
    PROVE  QueueHoldsSent' /\ Len(queue') = Len(queue)
<1>0. /\ queue \in Seq(Item) /\ DOMAIN queue = 1 .. Len(queue) /\ Len(queue) \in Nat
      /\ blknum \in [CompThreads -> Nat] /\ blkinfo \in [CompThreads -> Info \cup {NoInfo}]
  BY DEF QueueInv, QueueTypeOK
<1>1. PICK k \in DOMAIN queue :
          /\ queue_get_first_block_todo(k)
          /\ blknum' = [blknum EXCEPT ![t] = queue[k].itemnum]
          /\ blkinfo' = [blkinfo EXCEPT ![t] = queue[k].info]
  BY DEF thread_comp_take
<1>2. /\ queue[k].status = "TODO" /\ queue' = [queue EXCEPT ![k].status = "PROGRESS"]
      /\ UNCHANGED curitemnum
  BY <1>1 DEF queue_get_first_block_todo, IsFirstTodo, IsTodo
<1>3. DOMAIN queue' = DOMAIN queue /\ Len(queue') = Len(queue) BY <1>0, <1>2
<1>4. ASSUME NEW i \in DOMAIN queue
      PROVE  /\ queue'[i].itemnum = queue[i].itemnum /\ queue'[i].type = queue[i].type
             /\ queue'[i].info = queue[i].info
             /\ queue'[i].status = "DONE" <=> queue[i].status = "DONE"
  <2>1. queue[i] \in Item BY <1>0
  <2> QED BY <1>2, <2>1 DEF Item
<1>5. queue[k].info = sent[queue[k].itemnum] /\ queue[k].info.form = "packed"
  BY <1>2 DEF QueueHoldsSent
<1>6. \A u \in CompThreads : blknum'[u] # 0 =>
          blkinfo'[u] = sent[blknum'[u]] /\ blkinfo'[u].form = "packed"
  BY <1>0, <1>1, <1>5 DEF QueueHoldsSent
<1> QED BY <1>2, <1>3, <1>4, <1>6 DEF QueueHoldsSent

\* queue_replace_block() in a decompression thread
LEMMA PutIsSent ==
    ASSUME QueueInv, RestoreTypeOK, QueueHoldsSent, NEW t \in CompThreads,
           NEW info \in decompress_block_generic(blkinfo[t]), thread_comp_put(t, {info}), UNCHANGED sent
    PROVE  QueueHoldsSent' /\ Len(queue') = Len(queue)
<1>0. /\ queue \in Seq(Item) /\ DOMAIN queue = 1 .. Len(queue) /\ Len(queue) \in Nat
      /\ blknum \in [CompThreads -> Nat] /\ blkinfo \in [CompThreads -> Info \cup {NoInfo}]
  BY DEF QueueInv, QueueTypeOK
<1>2. /\ queue' = [i \in DOMAIN queue |->
                      IF queue[i].itemnum = blknum[t]
                      THEN [queue[i] EXCEPT !.status = "DONE", !.info = info]
                      ELSE queue[i]]
      /\ blknum' = [blknum EXCEPT ![t] = 0] /\ blkinfo' = [blkinfo EXCEPT ![t] = NoInfo]
      /\ UNCHANGED curitemnum
  BY DEF queue_replace_block, thread_comp_put
<1>3. info \in Unpacked(sent[blknum[t]])
  BY UnpackedBlock DEF thread_comp_put, Unpacked
<1>4. DOMAIN queue' = DOMAIN queue /\ Len(queue') = Len(queue)
  <2>1. info \in Info BY UnpackedBlock DEF thread_comp_put
  <2>2. queue' \in Seq(Item) BY <2>1, PutStep DEF QueueInv, QueueTypeOK
  <2>3. DOMAIN queue' = DOMAIN queue BY <1>2
  <2> QED BY <1>0, <2>2, <2>3
<1>5. ASSUME NEW i \in DOMAIN queue
      PROVE  /\ queue'[i].itemnum = queue[i].itemnum /\ queue'[i].type = queue[i].type
             /\ queue[i].itemnum = blknum[t] => queue'[i].status = "DONE" /\ queue'[i].info = info
             /\ queue[i].itemnum # blknum[t] => queue'[i] = queue[i]
  <2>1. queue[i] \in Item BY <1>0
  <2> QED BY <1>2, <2>1 DEF Item
<1>6. ASSUME NEW i \in DOMAIN queue'
      PROVE  LET x == sent[queue'[i].itemnum]
             IN  /\ queue'[i].type = "BLOCK" <=> x.magic = "BLKH"
                 /\ queue'[i].status = "DONE" => queue'[i].info \in Unpacked(x)
                 /\ queue'[i].status # "DONE" => queue'[i].info = x /\ x.form = "packed"
  BY <1>3, <1>4, <1>5, <1>6 DEF QueueHoldsSent
<1>7. \A u \in CompThreads : blknum'[u] # 0 =>
          blkinfo'[u] = sent[blknum'[u]] /\ blkinfo'[u].form = "packed"
  BY <1>0, <1>2 DEF QueueHoldsSent
<1>8. Len(sent') = curitemnum' - 1 /\ sent' = sent BY <1>2 DEF QueueHoldsSent
<1> QED BY <1>4, <1>6, <1>7, <1>8 DEF QueueHoldsSent

\* What a step leaves behind of the items
ItemsOK ==
    /\ QueueHoldsSent
    /\ GotIsSent
    /\ sent \in Seq(Info) /\ got \in Seq(Info)

\* A step that moves no item
LEMMA NothingMoves ==
    ASSUME ItemsOK, UNCHANGED <<sent, got, curitemnum, blknum, blkinfo, queue>>, Stopped => Stopped'
    PROVE  ItemsOK'
<1>1. QueueHoldsSent' BY DEF ItemsOK, QueueHoldsSent
<1>2. GotIsSent' BY DEF ItemsOK, GotIsSent
<1> QED BY <1>1, <1>2 DEF ItemsOK

\* The item that the main thread takes is the next one of the history.
LEMMA TakesNext ==
    ASSUME QueueInv, RestoreTypeOK, EndsInv, ItemsOK, Takes, UNCHANGED sent
    PROVE  /\ ItemsOK' /\ T!Next
           /\ Len(got) \in Nat /\ Len(got) + 1 \in DOMAIN sent
           /\ queue[1].info \in Info /\ queue[1].info \in Unpacked(sent[Len(got) + 1])
           /\ DOMAIN got = 1 .. Len(got) /\ DOMAIN got' = 1 .. Len(got) + 1
           /\ \A n \in 1 .. Len(got) : got'[n] = got[n]
           /\ got'[Len(got) + 1] = queue[1].info
<1>0. /\ QueueHoldsSent /\ GotIsSent /\ got \in Seq(Info) /\ sent \in Seq(Info)
      /\ queue # <<>> /\ queue[1].status = "DONE" /\ RemoveHead
      /\ got' = Append(got, queue[1].info) /\ ~Stopped /\ ~Stopped'
      /\ UNCHANGED <<syncvars, compvars>>
  BY DEF ItemsOK, Takes
<1>n. Len(got) \in Nat /\ Len(queue) \in Nat /\ Len(sent) \in Nat
  BY <1>0 DEF QueueInv, QueueTypeOK
<1>1. /\ QueueHoldsSent' /\ Len(queue') = Len(queue) - 1 /\ queue[1].info \in Info
      /\ queue[1].info \in Unpacked(sent[Len(sent) - Len(queue) + 1])
  BY <1>0, RemovedIsSent
<1>2. Len(got) + Len(queue) = Len(sent) BY <1>0 DEF GotIsSent
<1>q. Len(queue) > 0 BY <1>0, TailShape DEF QueueInv, QueueTypeOK
<1>3. /\ Len(sent) - Len(queue) + 1 = Len(got) + 1 /\ (Len(got) + 1) + Len(queue') = Len(sent)
      /\ Len(got) < Len(sent) /\ Len(got) + 1 <= Len(sent) /\ Len(got) + 1 \in 1 .. Len(sent)
  BY ONLY <1>n, <1>1, <1>2, <1>q
<1>4. /\ got' \in Seq(Info) /\ Len(got') = Len(got) + 1
      /\ DOMAIN got' = 1 .. Len(got) + 1
      /\ \A n \in 1 .. Len(got) : got'[n] = got[n]
      /\ got'[Len(got) + 1] = queue[1].info
  BY <1>0, <1>1, AppendShape
<1>5. queue[1].info \in Unpacked(sent[Len(got) + 1]) BY <1>1, <1>3
<1>6. ASSUME NEW n \in DOMAIN got' PROVE got'[n] \in Unpacked(sent[n])
  <2>1. CASE n = Len(got) + 1 BY <1>4, <1>5, <2>1
  <2>2. CASE n \in 1 .. Len(got)
    <3>1. n \in DOMAIN got BY <1>0, <2>2
    <3> QED BY <1>0, <1>4, <2>2, <3>1 DEF GotIsSent
  <2>3. n \in 1 .. Len(got) + 1 BY <1>4
  <2>4. n \in 1 .. Len(got) \/ n = Len(got) + 1 BY ONLY <1>n, <2>3
  <2> QED BY <2>1, <2>2, <2>4
<1>7. GotIsSent'
  <2>1. Len(got') <= Len(sent') /\ Len(got') + Len(queue') = Len(sent') BY <1>3, <1>4
  <2> QED BY <1>6, <2>1 DEF GotIsSent
<1>8. stopfillqueue = FALSE
  BY <1>0 DEF EndsInv, RestoreTypeOK, ThreadsTypeOK
<1>9. UNCHANGED <<sent, endofqueue, stopfillqueue>> BY <1>0 DEF RemoveHead, syncvars
<1>10. T!Next BY <1>0, <1>3, <1>5, <1>8, <1>9 DEF T!Next, T!Deliver
<1>11. Len(got) + 1 \in DOMAIN sent /\ DOMAIN got = 1 .. Len(got) BY <1>0, <1>3
<1> QED BY <1>0, <1>n, <1>1, <1>4, <1>5, <1>7, <1>10, <1>11 DEF ItemsOK

\* Steps of the main thread
LEMMA MainItems ==
    ASSUME QueueInv, RestoreTypeOK, EndsInv, ItemsOK, Main
    PROVE  ItemsOK' /\ [T!Next]_(T!vars)
<1>1. MainKind BY MainStep
<1>2. CASE Takes BY <1>1, <1>2, TakesNext DEF MainKind
<1>3. CASE Drops
  <2>1. /\ Stopped' /\ queue # <<>> /\ RemoveHead /\ UNCHANGED <<compvars, sent, got>>
        /\ UNCHANGED <<endofqueue, stopfillqueue>>
    BY <1>1, <1>3 DEF Drops, queue_destroy_first_item, MainKind, RemoveHead, syncvars
  <2>2. QueueHoldsSent' BY <2>1, RemovedIsSent DEF ItemsOK
  <2>3. GotIsSent' BY <2>1 DEF ItemsOK, GotIsSent
  <2>4. UNCHANGED T!vars BY <2>1 DEF T!vars
  <2> QED BY <2>1, <2>2, <2>3, <2>4 DEF ItemsOK
<1>4. CASE Keeps
  <2>1. ItemsOK'
    BY <1>1, <1>4, NothingMoves DEF Keeps, MainKind, queuevars, compvars
  <2>2. CASE UNCHANGED stopfillqueue BY <1>1, <1>4, <2>1, <2>2 DEF Keeps, MainKind, T!vars, queuevars
  <2>3. CASE ~Stopped /\ stopfillqueue' = TRUE
    <3>1. stopfillqueue = FALSE BY <2>3 DEF EndsInv, RestoreTypeOK, ThreadsTypeOK
    <3>2. UNCHANGED <<sent, got, endofqueue>> BY <1>1, <1>4 DEF Keeps, MainKind, queuevars
    <3>3. T!Next BY <2>3, <3>1, <3>2 DEF T!Next, T!Fail
    <3> QED BY <2>1, <3>3
  <2> QED BY <1>4, <2>2, <2>3 DEF Keeps
<1>5. CASE (\E t \in CompThreads : create_comp(t)) /\ UNCHANGED got /\ ~Stopped /\ ~Stopped'
  <2>1. UNCHANGED <<queuevars, syncvars, blknum, blkinfo, got, sent>>
    BY <1>1, <1>5 DEF create_comp, MainKind
  <2>2. ItemsOK' BY <1>5, <2>1, NothingMoves DEF queuevars
  <2>3. UNCHANGED T!vars BY <2>1 DEF T!vars, queuevars, syncvars
  <2> QED BY <2>2, <2>3
<1> QED BY <1>1, <1>2, <1>3, <1>4, <1>5 DEF MainKind

\* Steps of the reader thread
LEMMA ReaderItems ==
    ASSUME QueueInv, RestoreTypeOK, EndsInv, ItemsOK, ObjectsComeOnce, Reader
    PROVE  ItemsOK' /\ [T!Next]_(T!vars)
<1>0. UNCHANGED <<mainpc, got, compvars, stopfillqueue>> /\ (Stopped' <=> Stopped)
  BY DEF Reader, reader_start, reader_open, reader_add, reader_read, reader_skip_damaged,
     reader_zero_damaged, reader_give_up, reader_volume, reader_end, reader_exit, mainvars,
     syncvars, inc_secthreads, dec_secthreads, Stopped
<1>1. CASE UNCHANGED <<queuevars, sent>>
  <2>1. ItemsOK' BY <1>0, <1>1, NothingMoves DEF queuevars, compvars
  <2>2. UNCHANGED T!vars BY <1>0, <1>1 DEF T!vars, queuevars
  <2> QED BY <2>1, <2>2
<1>2. CASE reader_add
  <2>0. ritem \in Info BY <1>2 DEF reader_add, ObjectsComeOnce
  <2>1. /\ QueueHoldsSent' /\ Len(queue') = Len(queue) + 1
        /\ sent' \in Seq(Info) /\ Len(sent') = Len(sent) + 1
        /\ \A n \in DOMAIN sent : sent'[n] = sent[n]
    BY <1>2, <2>0, AddedIsSent DEF ItemsOK
  <2>2. /\ endofqueue = FALSE /\ endofqueue' = FALSE /\ sent' = Append(sent, ritem)
    BY <1>2 DEF reader_add, queue_add_header, queue_add_block, RestoreTypeOK, ThreadsTypeOK, QueueTypeOK
  <2>3. T!Next BY <1>0, <2>0, <2>2 DEF T!Next, T!Send
  <2>n. Len(got) \in Nat /\ Len(queue) \in Nat /\ Len(sent) \in Nat
    BY DEF ItemsOK, QueueInv, QueueTypeOK
  <2>a. Len(got) <= Len(sent) /\ (~Stopped => Len(got) + Len(queue) = Len(sent))
    BY DEF ItemsOK, GotIsSent
  <2>4. Len(got) <= Len(sent') /\ (~Stopped => Len(got) + Len(queue') = Len(sent'))
    BY <2>n, <2>a, <2>1
  <2>5. \A n \in DOMAIN got : n \in DOMAIN sent
    <3>1. \A n \in 1 .. Len(got) : n \in 1 .. Len(sent) BY ONLY <2>n, <2>a
    <3> QED BY <3>1 DEF ItemsOK
  <2>6. \A n \in DOMAIN got : got[n] \in Unpacked(sent'[n]) BY <2>1, <2>5 DEF ItemsOK, GotIsSent
  <2>7. GotIsSent' BY <1>0, <2>4, <2>6 DEF GotIsSent
  <2> QED BY <1>0, <2>1, <2>3, <2>7 DEF ItemsOK
<1>3. CASE reader_end
  <2>1. endofqueue = FALSE /\ endofqueue' = TRUE /\ UNCHANGED <<sent, queue, curitemnum>>
    BY <1>3 DEF reader_end, queue_set_end_of_queue, EndsInv, RestoreTypeOK, ThreadsTypeOK, QueueTypeOK
  <2>2. T!Next BY <1>0, <2>1 DEF T!Next, T!Close
  <2>3. ItemsOK' BY <1>0, <2>1, NothingMoves DEF compvars
  <2> QED BY <2>2, <2>3
<1> QED
  BY <1>1, <1>2, <1>3 DEF Reader, reader_start, reader_open, reader_read, reader_skip_damaged,
     reader_zero_damaged, reader_give_up, reader_volume, reader_exit

\* Steps of a decompression thread
LEMMA DecompItems ==
    ASSUME QueueInv, RestoreTypeOK, ItemsOK, NEW t \in CompThreads, Decomp(t)
    PROVE  ItemsOK' /\ [T!Next]_(T!vars)
<1>1. /\ UNCHANGED <<sent, got, mainpc>> /\ (Stopped' <=> Stopped)
      /\ UNCHANGED <<stopfillqueue, endofqueue, curitemnum>>
  BY DEF Decomp, mainvars, readervars, syncvars, queuevars, thread_comp_start, thread_comp_take,
     thread_comp_put, thread_comp_exit, thread_comp_error, inc_secthreads, dec_secthreads,
     queue_get_first_block_todo, queue_replace_block, Stopped
<1>2. UNCHANGED T!vars BY <1>1 DEF T!vars
<1>3. CASE thread_comp_start(t) \/ thread_comp_exit(t) \/ thread_comp_error(t)
  <2>1. UNCHANGED <<queue, blknum, blkinfo>>
    BY <1>3 DEF thread_comp_start, thread_comp_exit, thread_comp_error, queuevars
  <2> QED BY <1>1, <1>2, <2>1, NothingMoves
<1>4. CASE thread_comp_take(t) \/ \E info \in decompress_block_generic(blkinfo[t]) : thread_comp_put(t, {info})
  <2>1. QueueHoldsSent' /\ Len(queue') = Len(queue)
    BY <1>1, <1>4, TakenIsSent, PutIsSent DEF ItemsOK
  <2>2. GotIsSent' BY <1>1, <2>1 DEF ItemsOK, GotIsSent
  <2> QED BY <1>1, <1>2, <2>1, <2>2 DEF ItemsOK
<1>5. ASSUME thread_comp_put(t, {r \in decompress_block_generic(blkinfo[t]) :
                                    r.form = "clear" \/ Fault("unpack")})
      PROVE  \E info \in decompress_block_generic(blkinfo[t]) : thread_comp_put(t, {info})
  BY <1>5 DEF thread_comp_put
<1> QED BY <1>3, <1>4, <1>5 DEF Decomp

-----------------------------------------------------------------------------
(* The threads *)

\* A thread starts to run, or has ended: the number of running threads follows.
LEMMA RunningCount ==
    ASSUME comppc \in [CompThreads -> CompPc], IsFiniteSet({u \in CompThreads : Running(u)}),
           NEW t \in CompThreads, NEW pc \in CompPc, comppc' = [comppc EXCEPT ![t] = pc]
    PROVE  LET R == {u \in CompThreads : Running(u)}
               S == {u \in CompThreads : Running(u)'}
           IN  /\ IsFiniteSet(S) /\ Cardinality(R) \in Nat
               /\ ~Running(t) /\ pc \in {"loop", "busy"} => Cardinality(S) = Cardinality(R) + 1
               /\ Running(t) /\ pc \notin {"loop", "busy"} =>
                     Cardinality(S) = Cardinality(R) - 1 /\ Cardinality(R) > 0
               /\ (Running(t) <=> pc \in {"loop", "busy"}) => S = R
<1> DEFINE R == {u \in CompThreads : Running(u)}
           S == {u \in CompThreads : Running(u)'}
<1>1. \A u \in CompThreads : u \in S <=> IF u = t THEN pc \in {"loop", "busy"} ELSE u \in R
  BY DEF Running
<1>r. IsFiniteSet(R) /\ Cardinality(R) \in Nat /\ (t \in R <=> Running(t)) BY FS_CardinalityType
<1>s. \A u : u \in R \/ u \in S => u \in CompThreads OBVIOUS
<1> HIDE DEF R, S
<1>2. CASE ~Running(t) /\ pc \in {"loop", "busy"}
  <2>1. S = R \cup {t} /\ t \notin R BY <1>1, <1>2, <1>r, <1>s
  <2>2. IsFiniteSet(S) /\ Cardinality(S) = Cardinality(R) + 1 BY <1>r, <2>1, FS_AddElement
  <2> QED BY <1>2, <1>r, <2>2 DEF R, S
<1>3. CASE Running(t) /\ pc \notin {"loop", "busy"}
  <2>1. S = R \ {t} /\ t \in R BY <1>1, <1>3, <1>r, <1>s
  <2>2. Cardinality(R) # 0 BY <1>r, <2>1, FS_EmptySet
  <2>3. IsFiniteSet(S) /\ Cardinality(S) = Cardinality(R) - 1 BY <1>r, <2>1, FS_RemoveElement
  <2> QED BY <1>3, <1>r, <2>2, <2>3 DEF R, S
<1>4. CASE Running(t) <=> pc \in {"loop", "busy"}
  <2>1. S = R BY <1>1, <1>4, <1>r, <1>s
  <2> QED BY <1>4, <1>r, <2>1 DEF R, S
<1> QED BY <1>2, <1>3, <1>4

\* g_secthreads counts the threads that run.
LEMMA SecthreadsStep ==
    ASSUME RestoreTypeOK, SecthreadsInv, EndsInv, [Next]_vars
    PROVE  SecthreadsInv' /\ secthreads' \in Nat
<1> DEFINE R == {t \in CompThreads : Running(t)}
           W == IF readerpc \in {"open", "add", "loop", "volume", "prompt", "end", "leave"}
                THEN 1 ELSE 0
<1>0. /\ comppc \in [CompThreads -> CompPc] /\ IsFiniteSet(R) /\ Cardinality(R) \in Nat
      /\ secthreads = Cardinality(R) + W /\ secthreads \in Nat
  BY FS_CardinalityType DEF RestoreTypeOK, ThreadsTypeOK, QueueTypeOK, SecthreadsInv
<1>1. ASSUME UNCHANGED comppc, secthreads' = Cardinality(R) + W' PROVE SecthreadsInv' /\ secthreads' \in Nat
  <2>1. R' = R BY <1>1 DEF Running
  <2>2. W' \in {0, 1} OBVIOUS
  <2>3. SecthreadsInv' BY <1>0, <1>1, <2>1 DEF SecthreadsInv
  <2> HIDE DEF R, W
  <2> QED BY <1>0, <1>1, <2>2, <2>3
<1>2. CASE Main
  <2>1. MainKind BY <1>2, MainStep
  <2>2. W' = W BY <2>1 DEF MainKind, EndsInv
  <2>3. CASE UNCHANGED <<comppc, secthreads>> BY <1>0, <1>1, <2>2, <2>3
  <2>4. ASSUME NEW t \in CompThreads, create_comp(t) PROVE SecthreadsInv' /\ secthreads' \in Nat
    <3>1. comppc[t] = "none" /\ comppc' = [comppc EXCEPT ![t] = "created"] /\ secthreads' = secthreads
      BY <2>4 DEF create_comp, syncvars
    <3>2. R' = R /\ IsFiniteSet(R')
      BY <1>0, <3>1, RunningCount DEF CompPc, Running
    <3> QED BY <1>0, <2>2, <3>1, <3>2 DEF SecthreadsInv
  <2> QED BY <2>1, <2>3, <2>4 DEF MainKind, Takes, Drops, Keeps, compvars, syncvars
<1>3. CASE Reader
  <2>1. UNCHANGED comppc
    BY <1>3 DEF Reader, reader_start, reader_open, reader_add, reader_read, reader_skip_damaged,
       reader_zero_damaged, reader_give_up, reader_volume, reader_end, reader_exit, compvars
  <2>2. CASE reader_start \/ reader_exit
    BY <1>0, <1>1, <2>1, <2>2 DEF reader_start, reader_exit, inc_secthreads, dec_secthreads
  <2>3. CASE UNCHANGED secthreads /\ W' = W BY <1>0, <1>1, <2>1, <2>3
  <2> QED
    BY <1>3, <2>2, <2>3 DEF Reader, reader_open, reader_add, reader_read, reader_skip_damaged,
       reader_zero_damaged, reader_give_up, reader_volume, reader_end, Reading, syncvars
<1>4. ASSUME NEW t \in CompThreads, Decomp(t) PROVE SecthreadsInv' /\ secthreads' \in Nat
  <2>0. W' = W BY <1>4 DEF Decomp, readervars
  <2>1. CASE thread_comp_start(t)
    <3>1. ~Running(t) /\ comppc' = [comppc EXCEPT ![t] = "loop"] /\ secthreads' = secthreads + 1
      BY <2>1 DEF thread_comp_start, inc_secthreads, Running
    <3>2. IsFiniteSet(R') /\ Cardinality(R') = Cardinality(R) + 1
      BY <1>0, <3>1, RunningCount DEF CompPc
    <3> QED BY <1>0, <2>0, <3>1, <3>2 DEF SecthreadsInv
  <2>2. CASE Running(t) /\ UNCHANGED secthreads
             /\ \E pc \in {"loop", "busy"} : comppc' = [comppc EXCEPT ![t] = pc]
    <3>1. PICK pc \in {"loop", "busy"} : comppc' = [comppc EXCEPT ![t] = pc] BY <2>2
    <3>2. IsFiniteSet(R') /\ R' = R BY <1>0, <2>2, <3>1, RunningCount DEF CompPc
    <3> QED BY <1>0, <2>0, <2>2, <3>2 DEF SecthreadsInv
  <2>3. CASE thread_comp_exit(t) \/ thread_comp_error(t)
    <3>1. Running(t) /\ comppc' = [comppc EXCEPT ![t] = "exited"] /\ secthreads' = secthreads - 1
      BY <2>3 DEF thread_comp_exit, thread_comp_error, dec_secthreads, Running
    <3>2. IsFiniteSet(R') /\ Cardinality(R') = Cardinality(R) - 1 /\ Cardinality(R) > 0
      BY <1>0, <3>1, RunningCount DEF CompPc
    <3> QED BY <1>0, <2>0, <3>1, <3>2 DEF SecthreadsInv
  <2> QED BY <1>4, <2>1, <2>2, <2>3 DEF Decomp, thread_comp_take, thread_comp_put, Running, syncvars
<1>5. CASE User BY <1>0, <1>1, <1>5 DEF User, Signal, compvars, readervars
<1>6. CASE UNCHANGED vars BY <1>0, <1>1, <1>6 DEF vars, compvars, syncvars, readervars
<1> QED BY <1>2, <1>3, <1>4, <1>5, <1>6 DEF Next, Terminated

\* The main thread stays behind main_create_reader() once it has left it.
LEMMA NeverCreatesAgain ==
    ASSUME QueueInv, Main, mainpc' = "create"
    PROVE  mainpc = "create" /\ UNCHANGED readerpc
<1>1. ~main_peek
  <2>1. ASSUME main_peek PROVE FALSE
    <3>1. TakeHeader /\ queue[1].info.magic = "OBJT" => queue[1].info.form \in {"node", "unique", "multi"}
      BY KindOfObject DEF QueueInv, TakeHeader, queue_dequeue_header, HeadReady
    <3> QED BY <2>1, <3>1 DEF main_peek, Goto, Error
  <2> QED BY <2>1
<1>2. ~main_group_block BY DEF main_group_block, restore_files, Goto, Error
<1> QED
  BY <1>1, <1>2 DEF Main, Goto, Error, readervars, main_create_decomp, main_create_reader, main_mainhead,
     main_fsinfo, main_begin, main_fs, main_fsyb, main_node, main_next, main_objend, main_file_open,
     main_file_loop, main_file_block, main_file_footer, main_file_end, main_group_header,
     main_check, main_stop, main_wait, main_drain, main_destroy, main_join_decomp, main_join_reader

\* The two ends of the queue
LEMMA EndsStep ==
    ASSUME QueueInv, RestoreTypeOK, EndsInv, [Next]_vars
    PROVE  EndsInv'
<1>0. endofqueue \in BOOLEAN /\ stopfillqueue \in BOOLEAN
  BY DEF RestoreTypeOK, ThreadsTypeOK, QueueTypeOK
<1>1. CASE Main
  <2>1. MainKind BY <1>1, MainStep
  <2>2. endofqueue' = endofqueue
    BY <2>1 DEF MainKind, Takes, Drops, Keeps, create_comp, queuevars, queue_destroy_first_item, RemoveHead
  <2>3. stopfillqueue' <=> Stopped'
    BY <1>0, <2>1 DEF MainKind, Takes, Drops, Keeps, create_comp, syncvars, EndsInv
  <2>4. mainpc' = "create" => readerpc' = "none" BY <1>1, NeverCreatesAgain DEF EndsInv
  <2>5. /\ endofqueue' <=> readerpc' \in {"leave", "exited"}
        /\ readerpc' \in {"none", "created", "open"} => sent' = <<>>
    BY <2>1, <2>2 DEF MainKind, EndsInv
  <2> QED BY <2>3, <2>4, <2>5 DEF EndsInv
<1>2. CASE Reader
  <2>0. /\ UNCHANGED <<mainpc, stopfillqueue>> /\ (Stopped' <=> Stopped)
        /\ readerpc # "none" /\ readerpc' # "none"
    BY <1>2 DEF Reader, reader_start, reader_open, reader_add, reader_read, reader_skip_damaged,
       reader_zero_damaged, reader_give_up, reader_volume, reader_end, reader_exit, mainvars,
       syncvars, inc_secthreads, dec_secthreads, Stopped, Reading
  <2>1. mainpc # "create" BY <2>0 DEF EndsInv
  <2>2. /\ endofqueue' <=> readerpc' \in {"leave", "exited"}
        /\ readerpc' \in {"none", "created", "open"} => sent' = <<>>
    BY <1>0, <1>2 DEF EndsInv, Reader, reader_start, reader_open, reader_add, reader_read,
       reader_skip_damaged, reader_zero_damaged, reader_give_up, reader_volume, reader_end, reader_exit,
       Reading, queuevars, queue_add_header, queue_add_block, queue_set_end_of_queue
  <2> QED BY <2>0, <2>1, <2>2 DEF EndsInv
<1>3. ASSUME NEW t \in CompThreads, Decomp(t) PROVE EndsInv'
  <2>1. UNCHANGED <<endofqueue, stopfillqueue, mainpc, readerpc, sent>>
    BY <1>3 DEF Decomp, mainvars, readervars, syncvars, queuevars, thread_comp_start,
       thread_comp_take, thread_comp_put, thread_comp_exit, thread_comp_error, inc_secthreads,
       dec_secthreads, queue_get_first_block_todo, queue_replace_block
  <2> QED BY <2>1 DEF EndsInv, Stopped
<1>4. CASE User BY <1>4 DEF User, Signal, mainvars, readervars, queuevars, EndsInv, Stopped
<1>5. CASE UNCHANGED vars
  BY <1>5 DEF vars, mainvars, readervars, queuevars, syncvars, EndsInv, Stopped
<1> QED BY <1>1, <1>2, <1>3, <1>4, <1>5 DEF Next, Terminated

-----------------------------------------------------------------------------
(* The reader *)

\* The types of the variables of the reader
ReaderTypeOK ==
    /\ readerpc \in {"none", "created", "open", "add", "loop", "volume",
                     "prompt", "end", "leave", "exited"}
    /\ pos \in 1 .. Len(Archive) + 1
    /\ ritem \in Info \cup {NoInfo}
    /\ damaged \subseteq DOMAIN Archive
    /\ origin \in Seq(DOMAIN Archive)

\* The entries of the archive are headers or blocks of the volumes it has.
LEMMA ArchiveItems ==
    /\ Len(Archive) \in Nat /\ DOMAIN Archive = 1 .. Len(Archive) /\ 1 \in DOMAIN Archive
    /\ \A p \in DOMAIN Archive :
          /\ Archive[p] \in Info
          /\ Archive[p].magic = "OBJT" => Archive[p].obj \in Objs
          /\ Archive[p].magic = "BLKH" => [Archive[p] EXCEPT !.form = "zeroed"] \in Info
<1>1. Archive \in Seq(Info) /\ Archive # <<>> BY RestoreAssumption, ArchiveAssumption
<1>2. Len(Archive) \in Nat /\ DOMAIN Archive = 1 .. Len(Archive) /\ 1 \in DOMAIN Archive BY <1>1
<1>3. ASSUME NEW p \in DOMAIN Archive
      PROVE  /\ Archive[p] \in Info
             /\ Archive[p].magic = "OBJT" => Archive[p].obj \in Objs
             /\ Archive[p].magic = "BLKH" => [Archive[p] EXCEPT !.form = "zeroed"] \in Info
  <2>1. Archive[p] \in Info BY <1>1
  <2>2. Archive[p].magic = "OBJT" => Archive[p].obj \in Objs BY DEF Objs
  <2>3. Archive[p].magic = "BLKH" => decompress_block_generic(Archive[p]) \subseteq Info
    BY <2>1, ArchiveAssumption
  <2> QED BY <2>1, <2>2, <2>3 DEF decompress_block_generic
<1> QED BY <1>2, <1>3

\* No object comes twice, whatever is damaged or skipped.
LEMMA ReaderStep ==
    ASSUME QueueInv, RestoreTypeOK, EndsInv, ItemsOK, ObjectsComeOnce, OriginInv, Reader
    PROVE  ReaderTypeOK' /\ ObjectsComeOnce'
<1>0. /\ Len(Archive) \in Nat /\ DOMAIN Archive = 1 .. Len(Archive) /\ 1 \in DOMAIN Archive
      /\ \A p \in DOMAIN Archive :
            /\ Archive[p] \in Info
            /\ Archive[p].magic = "OBJT" => Archive[p].obj \in Objs
            /\ Archive[p].magic = "BLKH" => [Archive[p] EXCEPT !.form = "zeroed"] \in Info
  BY ArchiveItems
<1>t. ReaderTypeOK BY DEF RestoreTypeOK, ReaderTypeOK
<1>1. CASE reader_start \/ reader_give_up \/ reader_volume \/ reader_end \/ reader_exit
  <2>1. /\ UNCHANGED <<pos, ritem, damaged, sent, origin>>
        /\ readerpc' \in {"open", "end", "loop", "prompt", "leave", "exited"}
    BY <1>1 DEF reader_start, reader_give_up, reader_volume, reader_end, reader_exit
  <2> QED BY <1>t, <2>1 DEF ReaderTypeOK, ObjectsComeOnce
<1>2. CASE reader_open
  <2>1. sent = <<>> /\ sent' = <<>> /\ damaged' = damaged /\ origin' = origin
    BY <1>2 DEF reader_open, EndsInv
  <2>2. CASE readerpc' = "end" /\ UNCHANGED <<ritem, pos>>
    BY <1>t, <2>1, <2>2 DEF ReaderTypeOK, ObjectsComeOnce
  <2>3. CASE readerpc' = "add" /\ ritem' = Archive[1] /\ pos' = 2
    <3>a. Archive[1] \in Info BY <1>0
    <3>b. Len(Archive) \in Nat /\ 1 \in 1 .. Len(Archive) BY <1>0
    <3>c. 2 \in 1 .. Len(Archive) + 1 BY ONLY <3>b
    <3>1. ReaderTypeOK' BY <1>t, <2>1, <2>3, <3>a, <3>c DEF ReaderTypeOK
    <3>2. ASSUME Archive[1].magic = "OBJT", NEW p \in DOMAIN Archive, p >= 2, Archive[p].magic = "OBJT"
          PROVE  Archive[1].obj # Archive[p].obj
      BY <1>0, <3>2, ArchiveAssumption
    <3>3. Archive[1].magic = "OBJT" => Archive[1].obj \in Objs BY <1>0
    <3>4. \A i : i \notin DOMAIN sent' BY <2>1
    <3>5. pos' = 2 /\ ritem' = Archive[1] BY <2>3
    <3> QED BY <3>a, <3>1, <3>2, <3>3, <3>4, <3>5 DEF ObjectsComeOnce
  <2> QED BY <1>2, <2>2, <2>3 DEF reader_open
<1>3. CASE reader_add
  <2>0. ritem \in Info BY <1>3 DEF reader_add, ObjectsComeOnce
  <2>1. /\ Len(sent) \in Nat /\ DOMAIN sent = 1 .. Len(sent) /\ DOMAIN sent' = 1 .. Len(sent) + 1
        /\ \A n \in DOMAIN sent : sent'[n] = sent[n]
        /\ sent'[Len(sent) + 1] = ritem
    BY <1>3, <2>0, AddedIsSent DEF ItemsOK
  <2>2. readerpc = "add" /\ readerpc' = "loop" /\ ritem' = NoInfo /\ UNCHANGED <<pos, damaged>>
    BY <1>3 DEF reader_add
  <2>a. pos - 1 \in DOMAIN Archive /\ origin' = Append(origin, pos - 1)
    BY <1>3, <2>2 DEF OriginInv, reader_add
  <2>b. origin' \in Seq(DOMAIN Archive) BY <1>t, <2>a, AppendShape DEF ReaderTypeOK
  <2>3. ReaderTypeOK' BY <1>t, <2>2, <2>b DEF ReaderTypeOK
  <2>4. ASSUME NEW i \in DOMAIN sent', sent'[i].magic = "OBJT"
        PROVE  /\ sent'[i].obj \in Objs
               /\ \A j \in DOMAIN sent' : sent'[j].magic = "OBJT" /\ sent'[i].obj = sent'[j].obj => i = j
               /\ \A p \in DOMAIN Archive :
                     p >= pos' /\ Archive[p].magic = "OBJT" => sent'[i].obj # Archive[p].obj
    <3>1. \A j \in DOMAIN sent' : j \in DOMAIN sent \/ j = Len(sent) + 1 BY <2>1
    <3>2. CASE i \in DOMAIN sent
      BY <2>1, <2>2, <2>4, <3>1, <3>2 DEF ObjectsComeOnce
    <3>3. CASE i = Len(sent) + 1
      BY <2>1, <2>2, <2>4, <3>1, <3>3 DEF ObjectsComeOnce
    <3> QED BY <3>1, <3>2, <3>3
  <2> QED BY <2>2, <2>3, <2>4 DEF ObjectsComeOnce
<1>4. CASE reader_read \/ reader_skip_damaged \/ reader_zero_damaged
  <2>1. pos \in 1 .. Len(Archive) /\ pos \in DOMAIN Archive /\ pos' = pos + 1 /\ sent' = sent
        /\ damaged' \subseteq DOMAIN Archive /\ origin' = origin /\ origin \in Seq(DOMAIN Archive)
    BY <1>0, <1>4, <1>t DEF reader_read, reader_skip_damaged, reader_zero_damaged, Reading, ReaderTypeOK
  <2>2. ReaderTypeOK'
    <3>1. readerpc' \in {"add", "loop", "end", "volume"}
      BY <1>4 DEF reader_read, reader_skip_damaged, reader_zero_damaged
    <3>2. Len(Archive) \in Nat /\ pos \in 1 .. Len(Archive) BY <1>0, <2>1
    <3>3. pos + 1 \in 1 .. Len(Archive) + 1 BY ONLY <3>2
    <3>4. /\ Archive[pos] \in Info
          /\ Archive[pos].magic = "BLKH" => [Archive[pos] EXCEPT !.form = "zeroed"] \in Info
      BY <1>0, <2>1
    <3>5. ritem' \in Info \cup {NoInfo}
      BY <1>4, <1>t, <3>4 DEF ReaderTypeOK, reader_read, reader_skip_damaged, reader_zero_damaged
    <3> QED BY <2>1, <3>1, <3>3, <3>5 DEF ReaderTypeOK
  <2>3. readerpc' = "add" => ritem' = Archive[pos] \/ ritem' = [Archive[pos] EXCEPT !.form = "zeroed"]
    BY <1>4 DEF reader_read, reader_skip_damaged, reader_zero_damaged
  <2>4. readerpc' = "add" => ritem' \in Info
    BY <1>0, <1>4, <2>1 DEF reader_read, reader_skip_damaged, reader_zero_damaged
  <2>5. ASSUME readerpc' = "add", ritem'.magic = "OBJT"
        PROVE  ritem'.obj = Archive[pos].obj /\ Archive[pos].magic = "OBJT"
    <3>1. DOMAIN Archive[pos] = {"magic", "fsid", "obj", "off", "cnt", "form"}
      BY <1>0, <2>1, ArchiveAssumption
    <3> QED BY <2>3, <2>5, <3>1
  <2>6. \A p \in DOMAIN Archive : p >= pos + 1 => p >= pos /\ p # pos BY <1>0, <2>1
  <2>7. ASSUME NEW i \in DOMAIN sent, sent[i].magic = "OBJT"
        PROVE  /\ sent[i].obj \in Objs
               /\ \A j \in DOMAIN sent : sent[j].magic = "OBJT" /\ sent[i].obj = sent[j].obj => i = j
               /\ \A p \in DOMAIN Archive :
                     p >= pos + 1 /\ Archive[p].magic = "OBJT" => sent[i].obj # Archive[p].obj
    BY <2>6, <2>7 DEF ObjectsComeOnce
  <2>8. ASSUME readerpc' = "add", ritem'.magic = "OBJT"
        PROVE  /\ ritem'.obj \in Objs
               /\ \A j \in DOMAIN sent : sent[j].magic = "OBJT" => ritem'.obj # sent[j].obj
               /\ \A p \in DOMAIN Archive :
                     p >= pos + 1 /\ Archive[p].magic = "OBJT" => ritem'.obj # Archive[p].obj
    <3>1. ritem'.obj = Archive[pos].obj /\ Archive[pos].magic = "OBJT" BY <2>5, <2>8
    <3>2. pos >= pos BY <2>1
    <3>3. \A j \in DOMAIN sent : sent[j].magic = "OBJT" => Archive[pos].obj # sent[j].obj
      BY <2>1, <3>1, <3>2 DEF ObjectsComeOnce
    <3>4. \A p \in DOMAIN Archive : p >= pos + 1 /\ Archive[p].magic = "OBJT" => Archive[pos].obj # Archive[p].obj
      BY <2>1, <2>6, <3>1, ArchiveAssumption
    <3> QED BY <1>0, <2>1, <3>1, <3>3, <3>4
  <2> QED BY <2>1, <2>2, <2>4, <2>7, <2>8 DEF ObjectsComeOnce
<1> QED BY <1>1, <1>2, <1>3, <1>4 DEF Reader

\* The reader queues the archive in order, and skips what is damaged or unwanted.
LEMMA OriginStep ==
    ASSUME QueueInv, RestoreTypeOK, EndsInv, ItemsOK, ObjectsComeOnce, OriginInv, Reader
    PROVE  OriginInv' /\ damaged \subseteq damaged'
<1>0. /\ Len(Archive) \in Nat /\ DOMAIN Archive = 1 .. Len(Archive) /\ 1 \in DOMAIN Archive
      /\ pos \in 1 .. Len(Archive) + 1 /\ origin \in Seq(DOMAIN Archive) /\ sent \in Seq(Info)
  BY ArchiveItems DEF RestoreTypeOK
<1>d. damaged \subseteq damaged' /\ (Reading \/ UNCHANGED damaged)
  BY DEF Reader, reader_start, reader_open, reader_add, reader_read, reader_skip_damaged,
     reader_zero_damaged, reader_give_up, reader_volume, reader_end, reader_exit
<1>j. Fault("header")' <=> Fault("header") BY DEF Reader, Fault
<1>c. \A x, p : ComesFrom(x, p) => ComesFrom(x, p)' BY <1>d DEF ComesFrom
<1>s. /\ \A n \in DOMAIN origin :
            /\ origin[n] < IF readerpc = "add" THEN pos - 1 ELSE pos
            /\ ComesFrom(sent[n], origin[n])
            /\ origin[n] = 1 \/ queued(Archive[origin[n]])
      /\ \A m, n \in DOMAIN origin : m < n => origin[m] < origin[n]
      /\ Len(origin) = Len(sent)
      /\ \A p \in 1 .. pos - 1 :
            \/ p \in damaged /\ Fault("header")
            \/ ~queued(Archive[p])
            \/ \E n \in DOMAIN origin : origin[n] = p
            \/ readerpc = "add" /\ p = pos - 1
  BY DEF OriginInv
<1>o. Len(origin) \in Nat /\ DOMAIN origin = 1 .. Len(origin)
      /\ \A n \in DOMAIN origin : origin[n] \in 1 .. Len(Archive)
  BY <1>0
<1>1. CASE reader_start \/ reader_give_up \/ reader_volume \/ reader_end \/ reader_exit
  <2>1. /\ UNCHANGED <<pos, ritem, damaged, sent, origin>> /\ readerpc # "add" /\ readerpc' # "add"
        /\ readerpc' \in {"none", "created", "open"} => readerpc \in {"none", "created", "open"}
    BY <1>1 DEF reader_start, reader_give_up, reader_volume, reader_end, reader_exit
  <2> QED BY <1>d, <1>j, <2>1 DEF OriginInv, ComesFrom
<1>2. CASE reader_open
  <2>1. sent = <<>> /\ UNCHANGED <<sent, origin, damaged>> /\ pos = 1
    BY <1>2 DEF reader_open, EndsInv, OriginInv
  <2>2. Len(origin) = 0 /\ \A n : n \notin DOMAIN origin BY <1>s, <1>o, <2>1
  <2>3. CASE readerpc' = "end" /\ UNCHANGED <<ritem, pos>>
    <3>1. \A p : p \notin 1 .. pos' - 1 BY <2>1, <2>3
    <3> QED BY <1>s, <1>d, <1>j, <2>1, <2>2, <2>3, <3>1 DEF OriginInv
  <2>4. CASE readerpc' = "add" /\ ritem' = Archive[1] /\ pos' = 2
    <3>1. pos' - 1 = 1 /\ \A p \in 1 .. pos' - 1 : p = 1 BY <2>4
    <3>2. ComesFrom(ritem, pos - 1)' BY <2>4, <3>1 DEF ComesFrom
    <3> QED BY <1>0, <1>s, <1>d, <1>j, <2>1, <2>2, <2>4, <3>1, <3>2 DEF OriginInv
  <2> QED BY <1>2, <2>3, <2>4 DEF reader_open
<1>3. CASE reader_add
  <2>1. /\ readerpc = "add" /\ readerpc' = "loop" /\ UNCHANGED <<pos, damaged>>
        /\ origin' = Append(origin, pos - 1) /\ sent' = Append(sent, ritem)
    BY <1>3 DEF reader_add
  <2>2. pos - 1 \in DOMAIN Archive /\ ComesFrom(ritem, pos - 1) /\ ritem \in Info
        /\ (pos - 1 = 1 \/ queued(Archive[pos - 1]))
    BY <2>1 DEF OriginInv, ObjectsComeOnce
  <2>3. PICK k : k = Len(origin) + 1 OBVIOUS
  <2>4. /\ DOMAIN origin' = 1 .. k /\ Len(origin') = k /\ Len(sent') = k
        /\ \A n \in DOMAIN origin : n < k /\ n \in DOMAIN origin' /\ origin'[n] = origin[n]
        /\ origin'[k] = pos - 1 /\ sent'[k] = ritem /\ k \in DOMAIN origin'
        /\ \A n \in DOMAIN origin' : n \in DOMAIN origin \/ n = k
    <3>1. /\ DOMAIN origin' = 1 .. k /\ Len(origin') = k
          /\ \A n \in 1 .. Len(origin) : origin'[n] = origin[n]
          /\ origin'[k] = pos - 1
      BY <1>0, <2>1, <2>2, <2>3, AppendShape
    <3>2. Len(sent') = Len(sent) + 1 /\ sent'[Len(sent) + 1] = ritem BY <1>0, <2>1, <2>2, AppendShape
    <3> QED BY <1>o, <1>s, <2>3, <3>1, <3>2
  <2>5. \A n \in DOMAIN origin : sent'[n] = sent[n]
    <3>1. \A n \in 1 .. Len(sent) : sent'[n] = sent[n] BY <1>0, <2>1, <2>2, AppendShape
    <3> QED BY <1>o, <1>s, <3>1
  <2>6. \A n \in DOMAIN origin : origin[n] < pos - 1 /\ origin[n] < pos /\ origin[n] \in Int
    BY <1>0, <1>o, <1>s, <2>1
  <2>7. ASSUME NEW n \in DOMAIN origin'
        PROVE  /\ origin'[n] < pos
               /\ ComesFrom(sent'[n], origin'[n])
               /\ origin'[n] = 1 \/ queued(Archive[origin'[n]])
    <3>1. CASE n \in DOMAIN origin BY <1>s, <2>4, <2>5, <2>6, <3>1
    <3>2. CASE n = k
      <4>1. pos - 1 < pos BY <1>0
      <4> QED BY <2>2, <2>4, <3>2, <4>1
    <3> QED BY <2>4, <3>1, <3>2
  <2>8. ASSUME NEW m \in DOMAIN origin', NEW n \in DOMAIN origin', m < n
        PROVE  origin'[m] < origin'[n]
    <3>1. m \in 1 .. k /\ n \in 1 .. k /\ k \in Nat BY <1>o, <2>3, <2>4
    <3>2. m # k BY <2>8, <3>1
    <3>3. m \in DOMAIN origin BY <2>4, <3>2
    <3> QED BY <1>s, <2>4, <2>6, <2>8, <3>3
  <2>9. ASSUME NEW p \in 1 .. pos - 1
        PROVE  \/ p \in damaged /\ Fault("header")
               \/ ~queued(Archive[p])
               \/ \E n \in DOMAIN origin' : origin'[n] = p
    BY <1>s, <2>4
  <2>10. \A x, p : ComesFrom(x, p)' <=> ComesFrom(x, p) BY <2>1 DEF ComesFrom
  <2>11. Len(origin') = Len(sent') BY <2>4
  <2>12. /\ readerpc' # "add" /\ readerpc' \notin {"none", "created", "open"}
         /\ pos' = pos /\ damaged' = damaged
    BY <2>1
  <2> QED BY <1>d, <1>j, <2>7, <2>8, <2>9, <2>10, <2>11, <2>12 DEF OriginInv
<1>4. CASE reader_read \/ reader_skip_damaged \/ reader_zero_damaged
  <2>1. /\ pos \in DOMAIN Archive /\ pos' = pos + 1 /\ UNCHANGED <<sent, origin>>
        /\ readerpc = "loop" /\ readerpc' \in {"add", "loop", "end", "volume"}
    BY <1>0, <1>4 DEF reader_read, reader_skip_damaged, reader_zero_damaged, Reading
  <2>2. pos \in Int /\ pos' - 1 = pos /\ (\A p \in 1 .. pos' - 1 : p \in 1 .. pos - 1 \/ p = pos)
    BY <1>0, <2>1
  <2>3. /\ readerpc' = "add" => ComesFrom(ritem, pos - 1)' /\ queued(Archive[pos])
        /\ readerpc' # "add" /\ queued(Archive[pos]) => pos \in damaged' /\ Fault("header")
    <3>1. CASE reader_read BY <2>2, <3>1 DEF reader_read, ComesFrom, queued
    <3>2. CASE reader_skip_damaged BY <3>2 DEF reader_skip_damaged
    <3>3. CASE reader_zero_damaged BY <2>1, <2>2, <3>3 DEF reader_zero_damaged, ComesFrom, queued
    <3> QED BY <1>4, <3>1, <3>2, <3>3
  <2>4. ASSUME NEW n \in DOMAIN origin
        PROVE  /\ origin[n] < pos /\ origin[n] < pos + 1
               /\ ComesFrom(sent[n], origin[n])'
               /\ origin[n] = 1 \/ queued(Archive[origin[n]])
    <3>1. origin[n] < pos /\ ComesFrom(sent[n], origin[n]) /\ origin[n] \in Int BY <1>o, <1>s, <2>1
    <3>2. origin[n] < pos + 1 BY <2>2, <3>1
    <3> QED BY <1>c, <1>s, <2>1, <3>1, <3>2
  <2>5. ASSUME NEW p \in 1 .. pos' - 1
        PROVE  \/ p \in damaged' /\ Fault("header")
               \/ ~queued(Archive[p])
               \/ \E n \in DOMAIN origin : origin[n] = p
               \/ readerpc' = "add" /\ p = pos' - 1
    BY <1>d, <1>s, <2>1, <2>2, <2>3
  <2> QED BY <1>d, <1>j, <1>s, <2>1, <2>2, <2>3, <2>4, <2>5 DEF OriginInv
<1> QED BY <1>1, <1>2, <1>3, <1>4 DEF Reader

\* No other thread touches what the reader has.
LEMMA ReaderKept ==
    ASSUME QueueInv, RestoreTypeOK, EndsInv, ItemsOK, ObjectsComeOnce, OriginInv, [Next]_vars
    PROVE  ReaderTypeOK' /\ ObjectsComeOnce' /\ OriginInv' /\ damaged \subseteq damaged'
<1>1. CASE Reader BY <1>1, ReaderStep, OriginStep
<1>2. CASE ~Reader
  <2>1. /\ UNCHANGED <<pos, ritem, damaged, sent, origin>>
        /\ readerpc' = readerpc \/ (readerpc = "none" /\ readerpc' = "created")
    <3>1. CASE Main BY <3>1, MainStep DEF MainKind, EndsInv
    <3>2. CASE ~Main BY <1>2, <3>2 DEF Next, Decomp, User, Terminated, vars, readervars
    <3> QED BY <3>1, <3>2
  <2>2. ReaderTypeOK' BY <2>1 DEF RestoreTypeOK, ReaderTypeOK
  <2>3. ObjectsComeOnce' BY <2>1 DEF ObjectsComeOnce
  <2>4. OriginInv'
    <3>1. job' = job BY <1>2 DEF Next, Main, Decomp, User, Terminated, vars
    <3> QED BY <2>1, <3>1 DEF OriginInv, ComesFrom, Fault
  <2> QED BY <2>1, <2>2, <2>3, <2>4
<1> QED BY <1>1, <1>2

-----------------------------------------------------------------------------
(* The work of the main thread *)

\* The types of the variables of the main thread
WorkTypeOK ==
    /\ mainpc \in MainPc
    /\ fsi \in Nat /\ errors \in Nat /\ totalerr \in BOOLEAN /\ ret \in {0, -1}
    /\ file \in [head: Info \cup {NoInfo}, data: Seq(Info), minorerr: BOOLEAN,
                 delfile: BOOLEAN, fatalerr: BOOLEAN]
    /\ group \in Seq(Info)
    /\ disk \in [Objs -> {"absent", "old", "good", "bad"}]
    /\ counted \subseteq Objs

CountedGood == \A o \in counted : disk[o] = "good" \/ Usurped(o)

WorkOK == WorkTypeOK /\ WorkInv /\ FileInv /\ BadInv /\ CountedGood

\* What was damaged stays so.
LEMMA UsurpedStays ==
    ASSUME damaged \subseteq damaged', NEW o, Usurped(o)
    PROVE  Usurped(o)'
BY DEF Usurped

\* Unpacking a block does not change whose it is.
LEMMA UnpackedSame ==
    ASSUME NEW x \in Info, NEW y \in Unpacked(x)
    PROVE  y.magic = x.magic /\ y.obj = x.obj
<1>1. x \in [magic: STRING, fsid: Nat, obj: Nat, off: Nat, cnt: Nat, form: STRING]
  BY ArchiveAssumption
<1> QED BY <1>1 DEF Unpacked, decompress_block_generic

\* A header comes as it was queued.
LEMMA HeaderKept ==
    ASSUME NEW x \in Info, x.magic # "BLKH", NEW y \in Unpacked(x)
    PROVE  y = x
<1>1. x.form # "packed" BY ArchiveAssumption
<1> QED BY <1>1 DEF Unpacked

\* An item that was queued is in the archive.
LEMMA ItemOrigin ==
    ASSUME RestoreTypeOK, OriginInv, NEW n \in DOMAIN sent
    PROVE  /\ n \in DOMAIN origin /\ origin[n] \in DOMAIN Archive /\ sent[n] \in Info
           /\ Archive[origin[n]].magic = sent[n].magic /\ Archive[origin[n]].obj = sent[n].obj
           /\ sent[n].magic # "BLKH" => Archive[origin[n]] = sent[n]
           /\ origin[n] = 1 \/ queued(Archive[origin[n]])
<1>1. sent \in Seq(Info) /\ origin \in Seq(DOMAIN Archive) /\ Len(origin) = Len(sent)
  BY DEF RestoreTypeOK, OriginInv
<1>2. n \in DOMAIN origin /\ origin[n] \in DOMAIN Archive /\ sent[n] \in Info BY <1>1
<1>3. ComesFrom(sent[n], origin[n]) /\ (origin[n] = 1 \/ queued(Archive[origin[n]]))
  BY <1>2 DEF OriginInv
<1>4. DOMAIN Archive[origin[n]] = {"magic", "fsid", "obj", "off", "cnt", "form"}
  BY <1>2, ArchiveItems, ArchiveAssumption
<1> QED BY <1>2, <1>3, <1>4 DEF ComesFrom

\* What was not queued between two items that follow each other is lost.
LEMMA LostBetween ==
    ASSUME RestoreTypeOK, OriginInv, NEW h \in DOMAIN origin, h + 1 \in DOMAIN origin,
           NEW r \in DOMAIN Archive, origin[h] < r, r < origin[h + 1]
    PROVE  (r \in damaged /\ Fault("header")) \/ ~queued(Archive[r])
<1>1. /\ Len(Archive) \in Nat /\ r \in 1 .. Len(Archive) /\ pos \in 1 .. Len(Archive) + 1
      /\ Len(origin) \in Nat /\ DOMAIN origin = 1 .. Len(origin)
      /\ \A n \in DOMAIN origin : origin[n] \in 1 .. Len(Archive)
  <2>1. Len(Archive) \in Nat /\ DOMAIN Archive = 1 .. Len(Archive)
    BY ArchiveItems
  <2>2. origin \in Seq(DOMAIN Archive) /\ pos \in 1 .. Len(Archive) + 1
    BY DEF RestoreTypeOK
  <2>3. /\ Len(origin) \in Nat /\ DOMAIN origin = 1 .. Len(origin)
        /\ \A n \in DOMAIN origin : origin[n] \in DOMAIN Archive
    BY ONLY <2>2
  <2> QED BY <2>1, <2>2, <2>3
<1>2. origin[h + 1] < IF readerpc = "add" THEN pos - 1 ELSE pos BY DEF OriginInv
<1>3. r \in 1 .. pos - 1 /\ (readerpc = "add" => r # pos - 1) BY <1>1, <1>2
<1>4. ASSUME NEW n \in DOMAIN origin, origin[n] = r PROVE FALSE
  <2>1. n < h \/ n = h \/ n = h + 1 \/ n > h + 1 BY <1>1
  <2>2. n < h => origin[n] < origin[h] BY DEF OriginInv
  <2>3. n > h + 1 => origin[h + 1] < origin[n]
    <3>1. n > h + 1 => h + 1 < n BY <1>1
    <3> QED BY <3>1 DEF OriginInv
  <2> QED BY <1>1, <1>4, <2>1, <2>2, <2>3
<1> QED BY <1>3, <1>4 DEF OriginInv

\* The checksum of a footer matches the contents of its own file alone, and if
\* that is not the file being restored, its header was lost.
LEMMA FooterIsOwn ==
    ASSUME RestoreTypeOK, OriginInv, GotIsSent, Pending(file.head), Written,
           NEW foot, Len(got) + 1 \in DOMAIN sent, foot \in Unpacked(sent[Len(got) + 1]),
           foot.magic = "FILF", SameMd5(file.data, foot)
    PROVE  file.data = Blocks(file.head) \/ Usurped(file.head.obj)
<1>1. /\ got \in Seq(Info) /\ sent \in Seq(Info) /\ file.data \in Seq(Info)
      /\ Len(got) \in Nat /\ Len(sent) \in Nat /\ filepos \in Nat /\ Len(got) <= Len(sent)
      /\ DOMAIN got = 1 .. Len(got) /\ DOMAIN sent = 1 .. Len(sent)
      /\ DOMAIN file.data = 1 .. filepos
  BY DEF RestoreTypeOK, GotIsSent, filepos
<1>a. /\ Len(Archive) \in Nat /\ DOMAIN Archive = 1 .. Len(Archive)
      /\ \A p \in DOMAIN Archive : Archive[p] \in Info
  BY ArchiveItems
<1>2. PICK h : h = Len(got) - filepos OBVIOUS
<1>3. /\ h \in 1 .. Len(got) /\ got[h] = file.head
      /\ \A n \in DOMAIN file.data : h + n \in 1 .. Len(got) /\ got[h + n] = file.data[n]
  BY <1>1, <1>2 DEF Written
<1>4. \A n \in 1 .. Len(got) : n \in DOMAIN sent /\ sent[n] \in Info /\ got[n] \in Unpacked(sent[n])
  <2>1. \A n \in 1 .. Len(got) : n \in 1 .. Len(sent) BY <1>1
  <2>2. \A n \in 1 .. Len(got) : got[n] \in Unpacked(sent[n]) BY <1>1 DEF GotIsSent
  <2> QED BY <1>1, <2>1, <2>2
<1>5. /\ h \in DOMAIN origin /\ origin[h] \in DOMAIN Archive /\ Archive[origin[h]] = file.head
      /\ file.head.magic = "OBJT"
  <2>1. h \in DOMAIN sent /\ sent[h] \in Info /\ file.head \in Unpacked(sent[h]) BY <1>3, <1>4
  <2>2. file.head.magic = "OBJT" BY DEF Pending
  <2>3. sent[h].magic = "OBJT" BY <2>1, <2>2, UnpackedSame
  <2>4. sent[h] = file.head BY <2>1, <2>3, HeaderKept
  <2> QED BY <2>1, <2>2, <2>3, <2>4, ItemOrigin
<1>6. PICK f \in DOMAIN Archive : Archive[f].magic = "FILF" /\ Archive[f].obj = foot.obj
  <2>1. PICK g \in DOMAIN sent : g = Len(got) + 1 OBVIOUS
  <2>2. sent[g] \in Info /\ foot \in Unpacked(sent[g]) BY <2>1, <1>1
  <2>3. sent[g].magic = "FILF" /\ sent[g].obj = foot.obj BY <2>2, UnpackedSame
  <2>4. /\ origin[g] \in DOMAIN Archive
        /\ Archive[origin[g]].magic = "FILF" /\ Archive[origin[g]].obj = foot.obj
    BY <2>3, ItemOrigin
  <2> QED BY <2>4
<1>7. PICK p \in DOMAIN Archive : /\ Archive[p].magic = "OBJT" /\ Archive[p].obj = foot.obj
                                  /\ file.data = Blocks(Archive[p])
  BY DEF SameMd5
<1>8. Archive[p].form = "unique" /\ Archive[p].cnt > 0 /\ Archive[p].cnt \in Nat
  <2>1. PICK q \in 1 .. f - 1 : /\ Archive[q].magic = "OBJT" /\ Archive[q].cnt > 0
                                /\ Archive[q].obj = Archive[f].obj /\ Archive[q].form = "unique"
    BY <1>6, ArchiveAssumption
  <2>2. q \in DOMAIN Archive BY <1>a
  <2>3. q = p BY <1>6, <1>7, <2>1, <2>2, ArchiveAssumption
  <2> QED BY <1>a, <2>1, <2>3, ArchiveAssumption
<1>9. CASE Archive[p].obj = file.head.obj
  <2>1. p = origin[h] BY <1>5, <1>7, <1>9, ArchiveAssumption
  <2> QED BY <1>5, <1>7, <2>1
<1>10. CASE Archive[p].obj # file.head.obj
  <2>1. 1 \in DOMAIN file.data /\ file.data[1].magic = "BLKH" /\ file.data[1].obj = Archive[p].obj
    BY <1>7, <1>8 DEF Blocks, Block, Header
  <2>2. PICK b : b = h + 1 OBVIOUS
  <2>3. b \in 1 .. Len(got) /\ got[b] = file.data[1] BY <1>3, <2>1, <2>2
  <2>4. b \in DOMAIN sent /\ sent[b].magic = "BLKH" /\ sent[b].obj = Archive[p].obj
    BY <1>4, <2>1, <2>3, UnpackedSame
  <2>5. /\ b \in DOMAIN origin /\ origin[b] \in DOMAIN Archive
        /\ Archive[origin[b]].magic = "BLKH" /\ Archive[origin[b]].obj = Archive[p].obj
        /\ origin[b] = 1 \/ queued(Archive[origin[b]])
    BY <2>4, ItemOrigin
  <2>6. PICK q \in 1 .. origin[b] - 1 :
           /\ Archive[q].magic = "OBJT" /\ Archive[q].obj = Archive[origin[b]].obj
           /\ Archive[q].fsid = Archive[origin[b]].fsid
           /\ Archive[q].form = "unique" => \A r \in q + 1 .. origin[b] - 1 : Archive[r].magic # "OBJT"
    BY <2>5, ArchiveAssumption
  <2>7. q \in DOMAIN Archive BY <1>a, <2>5
  <2>8. q = p BY <1>7, <2>5, <2>6, <2>7, ArchiveAssumption
  <2>9. \A r \in p + 1 .. origin[b] - 1 : Archive[r].magic # "OBJT" BY <1>8, <2>6, <2>8
  <2>10. origin[h] < origin[b] /\ origin[h] # p
    <3>1. h < b BY <1>1, <1>3, <2>2
    <3> QED BY <1>5, <1>10, <2>5, <3>1 DEF OriginInv
  <2>11. origin[h] < p /\ p < origin[b]
    <3>1. /\ origin[h] \in 1 .. Len(Archive) /\ origin[b] \in 1 .. Len(Archive)
          /\ p \in 1 .. origin[b] - 1
      BY <1>5, <1>a, <2>5, <2>6, <2>8
    <3>2. origin[h] \notin p + 1 .. origin[b] - 1 BY <1>5, <2>9
    <3> QED BY <1>a, <2>10, <3>1, <3>2
  <2>12. queued(Archive[p])
    <3>1. origin[b] # 1 BY <2>6
    <3>2. wanted(Archive[origin[b]]) BY <2>5, <3>1 DEF queued
    <3> QED BY <1>7, <2>6, <2>8, <3>2 DEF wanted, queued
  <2>13. ASSUME NEW r \in origin[h] + 1 .. p PROVE r \in damaged \/ ~queued(Archive[r])
    <3>1. r \in DOMAIN Archive /\ origin[h] < r /\ r < origin[b]
      <4>1. origin[h] \in 1 .. Len(Archive) /\ origin[b] \in 1 .. Len(Archive) /\ p \in 1 .. Len(Archive)
        BY <1>5, <1>a, <2>5
      <4>2. r \in 1 .. Len(Archive) /\ origin[h] < r /\ r < origin[b] BY ONLY <1>a, <2>11, <2>13, <4>1
      <4> QED BY <1>a, <4>2
    <3> QED BY <1>5, <2>2, <2>5, <3>1, LostBetween
  <2>14. p \in damaged
    <3>1. p \in origin[h] + 1 .. p
      <4>1. origin[h] \in 1 .. Len(Archive) /\ p \in 1 .. Len(Archive) BY <1>5, <1>a
      <4> QED BY ONLY <1>a, <2>11, <4>1
    <3> QED BY <2>12, <2>13, <3>1
  <2> QED BY <1>5, <1>7, <2>11, <2>13, <2>14 DEF Usurped
<1> QED BY <1>9, <1>10

\* An object that comes has not come before.
LEMMA ObjectIsNew ==
    ASSUME QueueInv, RestoreTypeOK, EndsInv, ItemsOK, ObjectsComeOnce, Takes, UNCHANGED sent
    PROVE  /\ TakenObjs \subseteq TakenObjs'
           /\ queue[1].info \in Info
           /\ queue[1].info.magic = "OBJT" =>
                 /\ queue[1].info.obj \in Objs
                 /\ queue[1].info.obj \in TakenObjs' /\ queue[1].info.obj \notin TakenObjs
<1> DEFINE new == queue[1].info
           last == Len(got) + 1
<1>1. /\ Len(got) \in Nat /\ last \in DOMAIN sent
      /\ new \in Info /\ new \in Unpacked(sent[last])
      /\ DOMAIN got = 1 .. Len(got) /\ DOMAIN got' = 1 .. last
      /\ \A n \in 1 .. Len(got) : got'[n] = got[n]
      /\ got'[last] = new
  BY TakesNext
<1>2. sent \in Seq(Info) /\ Len(got) <= Len(sent) /\ Len(sent) \in Nat
  BY DEF ItemsOK, GotIsSent
<1> HIDE DEF new, last
<1>3. /\ \A n \in DOMAIN got : n \in DOMAIN got' /\ got'[n] = got[n] /\ n # last
      /\ last \in DOMAIN got'
  BY <1>1 DEF last
<1>4. TakenObjs \subseteq TakenObjs' BY <1>3 DEF TakenObjs
<1>5. ASSUME new.magic = "OBJT"
      PROVE  new.obj \in Objs /\ new.obj \in TakenObjs' /\ new.obj \notin TakenObjs
  <2>1. sent[last] \in Info BY <1>1, <1>2
  <2>2. sent[last].magic = "OBJT" /\ sent[last].obj = new.obj BY <1>1, <1>5, <2>1, UnpackedSame
  <2>3. ASSUME NEW n \in DOMAIN got, got[n].magic = "OBJT", got[n].obj = new.obj PROVE FALSE
    <3>a. n \in 1 .. Len(sent)
      <4>1. n \in 1 .. Len(got) BY <1>1
      <4> QED BY ONLY <1>1, <1>2, <4>1
    <3>1. n \in DOMAIN sent /\ sent[n] \in Info BY <1>2, <3>a
    <3>2. got[n] \in Unpacked(sent[n]) BY DEF ItemsOK, GotIsSent
    <3>3. sent[n].magic = "OBJT" /\ sent[n].obj = new.obj BY <2>3, <3>1, <3>2, UnpackedSame
    <3>4. n = last BY <1>1, <2>2, <3>1, <3>3 DEF ObjectsComeOnce
    <3> QED BY <1>3, <3>4
  <2>4. new.obj \notin TakenObjs BY <2>3 DEF TakenObjs
  <2>5. new.obj \in TakenObjs' BY <1>1, <1>3, <1>5 DEF TakenObjs
  <2>6. new.obj \in Objs BY <1>1, <2>2 DEF ObjectsComeOnce
  <2> QED BY <2>4, <2>5, <2>6
<1> QED BY <1>1, <1>4, <1>5 DEF new

\* Nothing that has come is forgotten.
LEMMA TakenGrows ==
    ASSUME QueueInv, RestoreTypeOK, EndsInv, ItemsOK, ObjectsComeOnce, Main
    PROVE  TakenObjs \subseteq TakenObjs' /\ (Takes \/ UNCHANGED got) /\ UNCHANGED sent
<1>1. MainKind BY MainStep
<1>2. CASE Takes BY <1>1, <1>2, ObjectIsNew DEF MainKind
<1>3. CASE UNCHANGED got BY <1>1, <1>3 DEF MainKind, TakenObjs
<1> QED BY <1>1, <1>2, <1>3 DEF MainKind, Drops, Keeps

\* What the main thread takes is the next item that was queued.
LEMMA TakesWhat ==
    ASSUME QueueInv, RestoreTypeOK, EndsInv, ItemsOK, ObjectsComeOnce, Takes, UNCHANGED sent
    PROVE  /\ Len(got) \in Nat /\ Len(got) + 1 \in DOMAIN sent
           /\ queue[1].info \in Unpacked(sent[Len(got) + 1])
           /\ Len(got') = Len(got) + 1 /\ got'[Len(got) + 1] = queue[1].info
           /\ \A n \in 1 .. Len(got) : got'[n] = got[n]
<1>1. got \in Seq(Info) /\ queue[1].info \in Info BY TakesNext DEF RestoreTypeOK
<1>2. Len(got') = Len(got) + 1 BY <1>1, AppendShape DEF Takes
<1> QED BY <1>2, TakesNext

\* Between the files the main thread changes nothing of what it has restored.
Quiet ==
    /\ UNCHANGED <<job, file, group, disk, counted, totalerr>>
    /\ mainpc \notin {"node", "multi"} /\ ~InFile
    /\ mainpc' \in MainPc \ {"node", "multi"} /\ ~InFile'
    /\ fsi' \in Nat /\ errors' \in Nat
    /\ ret' \in {ret, -1}

\* A step that leaves the main thread and its results alone
LEMMA QuietStep ==
    ASSUME WorkOK, Quiet, TakenObjs \subseteq TakenObjs', damaged \subseteq damaged'
    PROVE  WorkOK'
<1>u. \A o : Usurped(o) => Usurped(o)' BY UsurpedStays
<1>1. WorkTypeOK' BY DEF WorkOK, WorkTypeOK, Quiet
<1>2. WorkInv' BY DEF WorkOK, WorkInv, Quiet
<1>3. FileInv' BY DEF WorkOK, FileInv, Quiet, InFile
<1>4. BadInv' BY <1>u DEF WorkOK, BadInv, Quiet, Excluded, WorkTypeOK
<1>5. CountedGood' BY <1>u DEF WorkOK, CountedGood, Quiet
<1> QED BY <1>1, <1>2, <1>3, <1>4, <1>5 DEF WorkOK

\* The actions that only move on, and the garbage that main_peek skips
LEMMA QuietActions ==
    ASSUME QueueTypeOK, WorkOK, UNCHANGED job,
           \/ main_create_decomp \/ main_create_reader \/ main_mainhead \/ main_fsinfo \/ main_begin
           \/ main_fs \/ main_fsyb \/ main_next \/ main_objend \/ main_check \/ main_stop \/ main_wait
           \/ main_drain \/ main_destroy \/ main_join_decomp \/ main_join_reader
           \/ main_peek /\ mainpc' \in {"stop", "objend", "peek", "next"}
    PROVE  Quiet
<1>0. fsi \in Nat /\ errors \in Nat /\ fsi + 1 \in Nat /\ errors + 1 \in Nat /\ fscount \in Nat
  BY RestoreAssumption DEF WorkOK, WorkTypeOK
<1> USE DEF Quiet, InFile, MainPc, Goto, Error, workvars
<1>1. CASE main_create_decomp BY <1>0, <1>1 DEF main_create_decomp
<1>2. CASE main_create_reader BY <1>0, <1>2 DEF main_create_reader
<1>3. CASE main_mainhead BY <1>0, <1>3 DEF main_mainhead
<1>4. CASE main_fsinfo BY <1>0, <1>4 DEF main_fsinfo
<1>5. CASE main_begin BY <1>0, <1>5 DEF main_begin
<1>6. CASE main_fs BY <1>0, <1>6 DEF main_fs
<1>7. CASE main_fsyb BY <1>0, <1>7 DEF main_fsyb
<1>8. CASE main_next BY <1>0, <1>8 DEF main_next
<1>9. CASE main_objend BY <1>0, <1>9 DEF main_objend
<1>10. CASE main_check BY <1>0, <1>10 DEF main_check
<1>11. CASE main_stop \/ main_wait \/ main_drain \/ main_destroy \/ main_join_decomp \/ main_join_reader
  BY <1>0, <1>11 DEF main_stop, main_wait, main_drain, main_destroy, main_join_decomp, main_join_reader
<1>12. CASE main_peek /\ mainpc' \in {"stop", "objend", "peek", "next"}
  <2>1. UNCHANGED <<fsi, disk, counted, totalerr>> BY <1>12 DEF main_peek
  <2>2. /\ errors' \in {errors, errors + 1} /\ UNCHANGED <<file, group>> /\ ret' \in {ret, -1}
    BY <1>12, KindOfObject DEF main_peek, TakeHeader, queue_dequeue_header, HeadReady
  <2> QED BY <1>0, <1>12, <2>1, <2>2 DEF main_peek
<1> QED
  BY <1>1, <1>2, <1>3, <1>4, <1>5, <1>6, <1>7, <1>8, <1>9, <1>10, <1>11, <1>12

\* What is true of the header of an object that the main thread works on
LEMMA HeadFacts ==
    ASSUME WorkOK, mainpc = "node" \/ InFile
    PROVE  /\ Pending(file.head) /\ file.head.cnt \in Nat /\ file.head.obj \in Objs
           /\ file.head.obj \notin counted /\ file.head \in Info
<1>1. Pending(file.head) BY DEF WorkOK, WorkInv
<1>2. file.head \in Info BY <1>1 DEF Pending
<1>3. file.head.cnt \in Nat BY <1>2, ArchiveAssumption
<1> QED BY <1>1, <1>2, <1>3 DEF Pending

\* The header of an object is taken
LEMMA PeekStep ==
    ASSUME QueueInv, RestoreTypeOK, EndsInv, ItemsOK, ObjectsComeOnce, WorkOK, main_peek,
           UNCHANGED job, Takes, mainpc' \notin {"stop", "objend", "peek", "next"},
           damaged \subseteq damaged'
    PROVE  WorkOK'
<1>u. \A o : Usurped(o) => Usurped(o)' BY UsurpedStays
<1> DEFINE new == queue[1].info
<1>0. /\ mainpc = "peek" /\ new.magic = "OBJT" /\ mainpc' = new.form
      /\ file' = NewFile(new) /\ group' = <<new>>
      /\ UNCHANGED <<errors, ret, fsi, disk, counted, totalerr, sent>>
  BY DEF main_peek, Goto, Error, readervars
<1>1. /\ TakenObjs \subseteq TakenObjs' /\ new \in Info /\ new.obj \in Objs
      /\ new.obj \in TakenObjs' /\ new.obj \notin TakenObjs
  BY <1>0, ObjectIsNew
<1> HIDE DEF new
<1>2. new.cnt \in Nat /\ new.form \in {"node", "unique", "multi"}
  BY <1>0, <1>1, ArchiveAssumption
<1>3. WorkTypeOK'
  <2>1. file' \in [head: Info \cup {NoInfo}, data: Seq(Info), minorerr: BOOLEAN,
                   delfile: BOOLEAN, fatalerr: BOOLEAN]
    BY <1>0, <1>1 DEF NewFile
  <2>2. group' \in Seq(Info) BY <1>0, <1>1
  <2>3. mainpc' \in MainPc BY <1>0, <1>2 DEF MainPc
  <2> QED BY <1>0, <2>1, <2>2, <2>3 DEF WorkOK, WorkTypeOK
<1>4. new.obj \notin counted /\ counted \subseteq TakenObjs' BY <1>1 DEF WorkOK, WorkInv
<1>6. WorkInv'
  <2>1. file'.head = new BY <1>0 DEF NewFile
  <2>2. \A k \in DOMAIN group' : group'[k] = new /\ k = 1 BY <1>0
  <2>3. counted' \subseteq TakenObjs' /\ new.obj \notin counted' BY <1>0, <1>4
  <2>4. Pending(file.head)' BY <1>0, <1>1, <2>1, <2>3 DEF Pending
  <2>5. \A k \in DOMAIN group' : Pending(group[k])' BY <1>0, <1>1, <2>2, <2>3 DEF Pending
  <2> QED BY <2>2, <2>3, <2>4, <2>5 DEF WorkInv
<1>7. FileInv'
  <2>1. /\ file'.data = <<>> /\ ~file'.minorerr /\ ~file'.delfile
        /\ ~file'.fatalerr /\ file'.head = new
    BY <1>0 DEF NewFile
  <2>2. Len(got') > 0 /\ got'[Len(got')] = new BY <1>0, TakesWhat DEF new
  <2>3. filepos' = 0 /\ filepos' <= new.cnt BY <1>2, <2>1 DEF filepos
  <2> QED BY <1>0, <1>2, <2>1, <2>2, <2>3 DEF FileInv
<1>8. BadInv' BY <1>0, <1>u DEF WorkOK, BadInv, InFile, Excluded
<1>9. CountedGood' BY <1>0, <1>u DEF WorkOK, CountedGood
<1> QED BY <1>3, <1>6, <1>7, <1>8, <1>9 DEF WorkOK

\* extractar_restore_obj_directory() and its kin
LEMMA NodeStep ==
    ASSUME WorkOK, main_node, UNCHANGED <<job, TakenObjs>>, damaged \subseteq damaged'
    PROVE  WorkOK'
<1>u. \A x : Usurped(x) => Usurped(x)' BY UsurpedStays
<1> DEFINE o == file.head.obj
<1>0. /\ mainpc = "node" /\ mainpc' = "next" /\ UNCHANGED <<fsi, file, group, errors, ret>>
  BY DEF main_node, Goto
<1>1. o \in Objs /\ o \notin counted /\ o \in TakenObjs BY <1>0, HeadFacts DEF Pending
<1>2. \/ /\ ~excluded /\ disk' = [disk EXCEPT ![o] = "good"]
         /\ counted' \in {counted, counted \cup {o}} /\ totalerr' \in {totalerr, TRUE}
      \/ totalerr' = TRUE /\ UNCHANGED <<disk, counted>>
  BY DEF main_node, restore_attr, WorkOK, WorkTypeOK
<1> HIDE DEF o
<1>3. WorkTypeOK' BY <1>0, <1>1, <1>2 DEF WorkOK, WorkTypeOK, MainPc
<1>4. WorkInv' BY <1>0, <1>1, <1>2 DEF WorkOK, WorkInv, InFile
<1>5. FileInv' BY <1>0 DEF FileInv, InFile
<1>6. BadInv'
  BY <1>0, <1>1, <1>2, <1>u DEF WorkOK, WorkTypeOK, BadInv, InFile, Excluded
<1>7. CountedGood'
  <2>1. \A x \in counted : x # o /\ x \in Objs BY <1>1 DEF WorkOK, WorkTypeOK
  <2>2. disk \in [Objs -> {"absent", "old", "good", "bad"}] BY DEF WorkOK, WorkTypeOK
  <2>3. \A x \in counted : disk[x] = "good" \/ Usurped(x) BY DEF WorkOK, CountedGood
  <2>4. ASSUME NEW x \in counted' PROVE disk'[x] = "good" \/ Usurped(x)'
    <3>1. CASE x \in counted
      <4>1. disk'[x] = disk[x] BY <1>2, <2>1, <2>2, <3>1
      <4> QED BY <1>u, <2>3, <3>1, <4>1
    <3>2. CASE x \notin counted
      <4>1. x = o /\ disk' = [disk EXCEPT ![o] = "good"] BY <1>2, <2>4, <3>2
      <4> QED BY <1>1, <2>2, <4>1
    <3> QED BY <3>1, <3>2
  <2> QED BY <2>4 DEF CountedGood
<1> QED BY <1>3, <1>4, <1>5, <1>6, <1>7 DEF WorkOK

\* Inside extractar_restore_obj_regfile_unique()
FileType == [head: Info \cup {NoInfo}, data: Seq(Info), minorerr: BOOLEAN,
             delfile: BOOLEAN, fatalerr: BOOLEAN]

FileMoves ==
    /\ InFile /\ mainpc' \in {"blocks", "block", "footer", "fileend"}
    /\ UNCHANGED <<job, fsi, group, counted, errors, totalerr, ret>>
    /\ file' \in FileType /\ file'.head = file.head
    /\ \/ UNCHANGED disk
       \/ ~excluded /\ disk' = [disk EXCEPT ![file.head.obj] = "bad"]

\* The steps of rebuilding a file that take no item
LEMMA FileMovesStep ==
    ASSUME WorkOK, FileMoves, FileInv', TakenObjs \subseteq TakenObjs', damaged \subseteq damaged'
    PROVE  WorkOK'
<1>u. \A o : Usurped(o) => Usurped(o)' BY UsurpedStays
<1>1. /\ Pending(file.head) /\ file.head.obj \in Objs /\ file.head.obj \notin counted
      /\ file.head.obj \in TakenObjs
  BY HeadFacts DEF FileMoves, Pending
<1>2. disk \in [Objs -> {"absent", "old", "good", "bad"}] /\ counted \subseteq Objs
  BY DEF WorkOK, WorkTypeOK
<1>3. WorkTypeOK'
  <2>1. disk' \in [Objs -> {"absent", "old", "good", "bad"}] BY <1>2 DEF FileMoves
  <2>2. mainpc' \in MainPc BY DEF FileMoves, MainPc
  <2> QED BY <2>1, <2>2 DEF WorkOK, WorkTypeOK, FileMoves, FileType
<1>4. WorkInv'
  <2>1. counted' = counted /\ file'.head = file.head /\ mainpc' # "multi" BY DEF FileMoves
  <2>2. Pending(file.head)' BY <1>1, <2>1 DEF Pending
  <2> QED BY <2>1, <2>2 DEF WorkOK, WorkInv
<1>5. BadInv'
  <2>1. ASSUME NEW o \in Objs, disk'[o] = "bad"
        PROVE  /\ o \notin Excluded'
               /\ \/ totalerr' \/ ret' # 0
                  \/ InFile' /\ mainpc' # "unique" /\ o = file'.head.obj
                  \/ Usurped(o)'
    <3>1. InFile' /\ mainpc' # "unique" BY DEF FileMoves, InFile
    <3>2. /\ Excluded' = Excluded /\ file'.head = file.head /\ UNCHANGED <<totalerr, ret>>
      BY DEF FileMoves, Excluded
    <3>3. CASE disk[o] = "bad" BY <1>u, <3>1, <3>2, <3>3 DEF WorkOK, BadInv
    <3>4. CASE disk[o] # "bad"
      <4>1. o = file.head.obj /\ ~excluded BY <1>1, <1>2, <2>1, <3>4 DEF FileMoves
      <4> QED BY <3>1, <3>2, <4>1 DEF excluded
    <3> QED BY <3>3, <3>4
  <2> QED BY <2>1 DEF BadInv
<1>6. CountedGood'
  <2>1. \A x \in counted : x # file.head.obj BY <1>1
  <2> QED BY <1>2, <1>u, <2>1 DEF WorkOK, CountedGood, FileMoves
<1> QED BY <1>3, <1>4, <1>5, <1>6 DEF WorkOK

\* What FileInv says of a file, for the steps that follow
LEMMA FileFacts ==
    ASSUME WorkOK, InFile
    PROVE  /\ file \in FileType /\ file.head.cnt \in Nat /\ filepos \in Nat
           /\ filepos <= file.head.cnt /\ (file.delfile \/ file.fatalerr => file.minorerr)
<1>1. file \in FileType /\ file.head.cnt \in Nat BY HeadFacts DEF WorkOK, WorkTypeOK, FileType
<1>2. filepos \in Nat BY <1>1 DEF FileType, filepos
<1> QED BY <1>1, <1>2 DEF WorkOK, FileInv

\* The file is created, or is not.
LEMMA FileOpenStep ==
    ASSUME WorkOK, main_file_open, UNCHANGED <<job, damaged>>, TakenObjs \subseteq TakenObjs'
    PROVE  WorkOK'
<1>0. /\ mainpc = "unique" /\ InFile
      /\ UNCHANGED <<fsi, group, counted, errors, totalerr, ret, got>>
      /\ \/ /\ disk' = IF excluded THEN disk ELSE [disk EXCEPT ![file.head.obj] = "bad"]
            /\ mainpc' = "blocks" /\ UNCHANGED file
         \/ /\ file' = [file EXCEPT !.minorerr = TRUE]
            /\ mainpc' = "footer" /\ UNCHANGED disk
  BY DEF main_file_open, InFile, Goto, Local
<1>1. /\ file \in FileType /\ file.head.cnt \in Nat /\ filepos \in Nat /\ filepos <= file.head.cnt
      /\ file.delfile \/ file.fatalerr => file.minorerr
  BY <1>0, FileFacts
<1>2. FileMoves BY <1>0, <1>1 DEF FileMoves, FileType
<1>3. /\ file'.data = file.data /\ file'.head = file.head /\ filepos' = filepos
      /\ (excluded' <=> excluded)
  BY <1>0, <1>1 DEF FileType, filepos, excluded, Excluded
<1>4. CASE UNCHANGED file
  <2>1. /\ disk' = IF excluded THEN disk ELSE [disk EXCEPT ![file.head.obj] = "bad"]
        /\ mainpc' = "blocks"
    BY <1>0, <1>1, <1>4 DEF FileType, WorkOK, FileInv
  <2>2. file.data = <<>> /\ Len(got) > 0 /\ got[Len(got)] = file.head /\ ~file.minorerr
    BY <1>0 DEF WorkOK, FileInv
  <2>3. filepos = 0 /\ Len(got) - 0 = Len(got) BY <2>2 DEF filepos, WorkOK
  <2>4. \A n : n \notin DOMAIN file.data BY <2>2
  <2>5. file.head.obj \in Objs /\ disk \in [Objs -> {"absent", "old", "good", "bad"}]
    BY <1>0, HeadFacts DEF WorkOK, WorkTypeOK
  <2>6. Written' BY <1>0, <1>3, <1>4, <2>1, <2>2, <2>3, <2>4, <2>5 DEF Written
  <2>7. FileInv' BY <1>1, <1>3, <1>4, <2>1, <2>2, <2>6 DEF FileInv
  <2> QED BY <1>2, <2>7, FileMovesStep
<1>5. CASE file' = [file EXCEPT !.minorerr = TRUE] /\ mainpc' = "footer"
  <2>1. file'.minorerr BY <1>1, <1>5 DEF FileType
  <2>2. FileInv' BY <1>1, <1>3, <1>5, <2>1 DEF FileInv
  <2> QED BY <1>2, <2>2, FileMovesStep
<1> QED BY <1>0, <1>4, <1>5

\* The loop over its blocks ends, or goes on.
LEMMA FileLoopStep ==
    ASSUME WorkOK, main_file_loop, UNCHANGED <<job, damaged>>, TakenObjs \subseteq TakenObjs'
    PROVE  WorkOK'
<1>0. /\ mainpc = "blocks" /\ InFile
      /\ UNCHANGED <<fsi, group, disk, counted, errors, totalerr, ret, got>>
      /\ \/ filepos < file.head.cnt /\ mainpc' = "block" /\ UNCHANGED file
         \/ mainpc' = "footer" /\ \E b \in BOOLEAN : file' = [file EXCEPT !.minorerr = b]
  BY DEF main_file_loop, InFile, Goto, Local
<1>1. /\ file \in FileType /\ file.head.cnt \in Nat /\ filepos \in Nat /\ filepos <= file.head.cnt
      /\ file.delfile \/ file.fatalerr => file.minorerr
  BY <1>0, FileFacts
<1>2. FileMoves BY <1>0, <1>1 DEF FileMoves, FileType
<1>3. /\ file'.data = file.data /\ file'.head = file.head /\ filepos' = filepos
      /\ (excluded' <=> excluded)
      /\ (file'.delfile <=> file.delfile) /\ (file'.fatalerr <=> file.fatalerr)
  BY <1>0, <1>1 DEF FileType, filepos, excluded, Excluded
<1>4. Written /\ ~file.minorerr BY <1>0 DEF WorkOK, FileInv
<1>5. Written' BY <1>0, <1>3, <1>4 DEF Written
<1>6. FileInv' BY <1>0, <1>1, <1>3, <1>4, <1>5 DEF FileInv
<1> QED BY <1>2, <1>6, FileMovesStep

\* A block is written at its offset, or the file is given up.
LEMMA FileBlockStep ==
    ASSUME QueueInv, RestoreTypeOK, EndsInv, ItemsOK, ObjectsComeOnce, WorkOK, main_file_block,
           UNCHANGED <<job, damaged>>, TakenObjs \subseteq TakenObjs'
    PROVE  WorkOK'
<1>0. /\ mainpc = "block" /\ InFile
      /\ UNCHANGED <<fsi, group, disk, counted, errors, totalerr, ret, sent>>
      /\ \/ /\ mainpc' = "blocks" /\ TakeBlock
            /\ file' = [file EXCEPT !.data = Append(@, queue[1].info)]
         \/ /\ mainpc' = "footer"
            /\ \/ file' = [file EXCEPT !.minorerr = TRUE, !.delfile = TRUE]
               \/ file' = [file EXCEPT !.minorerr = TRUE, !.delfile = TRUE, !.fatalerr = TRUE]
  BY DEF main_file_block, InFile, Goto, readervars
<1>1. /\ file \in FileType /\ file.head.cnt \in Nat /\ filepos \in Nat /\ filepos <= file.head.cnt
      /\ file.delfile \/ file.fatalerr => file.minorerr
  BY <1>0, FileFacts
<1>2. filepos < file.head.cnt /\ ~file.minorerr /\ Written
  BY <1>0 DEF WorkOK, FileInv
<1>3. CASE mainpc' = "blocks"
  <2>0. Takes
    <3>1. ~Stopped /\ ~Stopped' BY <1>0, <1>3 DEF Stopped
    <3>2. TakeBlock /\ UNCHANGED <<syncvars, compvars>> BY <1>0, <1>3 DEF main_file_block
    <3> QED BY <3>1, <3>2, TakesItem
  <2>1. PICK x \in Info : x = queue[1].info BY <1>0, <2>0, ObjectIsNew
  <2>2. /\ file' = [file EXCEPT !.data = Append(@, x)] /\ file.data \in Seq(Info)
        /\ DOMAIN file.data = 1 .. filepos
    BY <1>0, <1>1, <1>3, <2>1 DEF FileType, filepos
  <2>3. /\ file' \in FileType /\ file'.head = file.head /\ file'.data = Append(file.data, x)
        /\ file'.minorerr = file.minorerr /\ file'.delfile = file.delfile
        /\ file'.fatalerr = file.fatalerr
    BY <1>1, <2>1, <2>2, AppendShape DEF FileType
  <2>4. /\ filepos' = filepos + 1 /\ DOMAIN file'.data = 1 .. filepos + 1
        /\ \A n \in 1 .. filepos : file'.data[n] = file.data[n]
        /\ file'.data[filepos + 1] = x
    BY <2>2, <2>3, AppendShape DEF filepos
  <2>5. /\ Len(got) \in Nat /\ Len(got') = Len(got) + 1 /\ got'[Len(got) + 1] = x
        /\ \A n \in 1 .. Len(got) : got'[n] = got[n]
    BY <1>0, <2>0, <2>1, TakesWhat
  <2>6. PICK h : h = Len(got) - filepos OBVIOUS
  <2>7. /\ h \in 1 .. Len(got) /\ got[h] = file.head /\ Len(got') - filepos' = h
        /\ filepos' < Len(got')
        /\ \A n \in 1 .. filepos : h + n \in 1 .. Len(got) /\ got[h + n] = file.data[n]
    <3>1. filepos < Len(got) /\ got[h] = file.head BY <1>2, <2>6 DEF Written
    <3>2. \A n \in 1 .. filepos : got[h + n] = file.data[n] BY <1>2, <2>2, <2>6 DEF Written
    <3> QED BY <1>1, <2>4, <2>5, <2>6, <3>1, <3>2
  <2>8. ASSUME NEW n \in 1 .. filepos + 1 PROVE got'[h + n] = file'.data[n]
    <3>1. CASE n \in 1 .. filepos BY <2>4, <2>5, <2>7, <3>1
    <3>2. CASE n = filepos + 1
      <4>1. h + n = Len(got) + 1 BY <1>1, <2>5, <2>6, <3>2
      <4> QED BY <2>4, <2>5, <3>2, <4>1
    <3> QED BY <1>1, <3>1, <3>2
  <2>9. got'[h] = file'.head BY <2>3, <2>5, <2>7
  <2>10. ~excluded' => disk'[file'.head.obj] = "bad"
    BY <1>0, <1>2, <2>3 DEF Written, excluded, Excluded
  <2>11. Written' BY <2>4, <2>7, <2>8, <2>9, <2>10 DEF Written
  <2>12. FileMoves BY <1>0, <1>3, <2>3 DEF FileMoves
  <2>13. filepos + 1 <= file.head.cnt BY <1>1, <1>2
  <2>14. FileInv' BY <1>1, <1>2, <1>3, <2>3, <2>4, <2>11, <2>13 DEF FileInv
  <2> QED BY <2>12, <2>14, FileMovesStep
<1>4. CASE mainpc' = "footer"
  <2>1. /\ file' \in FileType /\ file'.head = file.head /\ file'.data = file.data
        /\ file'.minorerr
    BY <1>0, <1>1, <1>4 DEF FileType
  <2>2. FileMoves BY <1>0, <1>4, <2>1 DEF FileMoves
  <2>3. filepos' = filepos BY <2>1 DEF filepos
  <2>4. FileInv' BY <1>1, <1>2, <1>4, <2>1, <2>3 DEF FileInv
  <2> QED BY <2>2, <2>4, FileMovesStep
<1> QED BY <1>0, <1>3, <1>4

\* The checksum of the footer is compared.
LEMMA FileFooterStep ==
    ASSUME QueueInv, RestoreTypeOK, EndsInv, ItemsOK, ObjectsComeOnce, OriginInv, WorkOK,
           main_file_footer, UNCHANGED <<job, damaged>>, TakenObjs \subseteq TakenObjs'
    PROVE  WorkOK'
<1>0. /\ mainpc = "footer" /\ InFile /\ mainpc' = "fileend"
      /\ UNCHANGED <<fsi, group, disk, counted, errors, totalerr, ret, sent>>
      /\ \/ (file.fatalerr \/ file.head.cnt = 0) /\ UNCHANGED file
         \/ /\ \/ excluded
               \/ TakeHeader /\ queue[1].info.magic = "FILF" /\ SameMd5(file.data, queue[1].info)
            /\ UNCHANGED file
         \/ file' = [file EXCEPT !.minorerr = TRUE]
         \/ file' = [file EXCEPT !.minorerr = TRUE, !.delfile = TRUE]
  BY DEF main_file_footer, InFile, Goto, readervars
<1>1. /\ file \in FileType /\ file.head.cnt \in Nat /\ filepos \in Nat /\ filepos <= file.head.cnt
      /\ file.delfile \/ file.fatalerr => file.minorerr
  BY <1>0, FileFacts
<1>2. FileMoves BY <1>0, <1>1 DEF FileMoves, FileType
<1>3. /\ filepos' = filepos /\ file'.data = file.data /\ file'.head = file.head
      /\ (excluded' <=> excluded)
  BY <1>0, <1>1 DEF FileType, excluded, Excluded, filepos
<1>u. \A x : Usurped(x) => Usurped(x)' BY UsurpedStays
<1>5. ASSUME UNCHANGED file,
             \/ file.fatalerr \/ file.head.cnt = 0 \/ excluded
             \/ TakeHeader /\ queue[1].info.magic = "FILF" /\ SameMd5(file.data, queue[1].info)
      PROVE  FileInv'
  <2>1. ASSUME ~excluded, ~file.minorerr
        PROVE  /\ disk[file.head.obj] = "bad"
               /\ file.data = Blocks(file.head) \/ Usurped(file.head.obj)
    <3>1. Written /\ Pending(file.head) BY <1>0, <2>1, HeadFacts DEF WorkOK, FileInv
    <3>2. disk[file.head.obj] = "bad" BY <2>1, <3>1 DEF Written
    <3>3. CASE file.head.cnt = 0
      <4>1. filepos = 0 BY <1>1, <3>3
      <4>2. file.data \in Seq(Info) /\ Len(file.data) = 0 BY <1>1, <4>1 DEF FileType, filepos
      <4>3. file.data = <<>> BY <4>2
      <4>4. Blocks(file.head) = <<>> BY <3>3 DEF Blocks
      <4> QED BY <3>2, <4>3, <4>4
    <3>4. CASE TakeHeader /\ queue[1].info.magic = "FILF" /\ SameMd5(file.data, queue[1].info)
      <4>1. Takes
        <5>1. ~Stopped /\ ~Stopped' BY <1>0 DEF Stopped
        <5>2. UNCHANGED <<syncvars, compvars>> BY DEF main_file_footer
        <5> QED BY <3>4, <5>1, <5>2, TakesItem
      <4>2. Len(got) + 1 \in DOMAIN sent /\ queue[1].info \in Unpacked(sent[Len(got) + 1])
        BY <1>0, <4>1, TakesWhat
      <4>3. GotIsSent BY DEF ItemsOK
      <4>4. file.data = Blocks(file.head) \/ Usurped(file.head.obj)
        BY <3>1, <3>4, <4>2, <4>3, FooterIsOwn
      <4> QED BY <3>2, <4>4
    <3> QED BY <1>1, <1>5, <2>1, <3>3, <3>4
  <2>2. disk' = disk /\ file' = file BY <1>0, <1>5
  <2> QED BY <1>0, <1>1, <1>3, <1>u, <2>1, <2>2 DEF FileInv
<1>6. ASSUME \/ file' = [file EXCEPT !.minorerr = TRUE]
             \/ file' = [file EXCEPT !.minorerr = TRUE, !.delfile = TRUE]
      PROVE  FileInv'
  <2>1. file'.minorerr BY <1>1, <1>6 DEF FileType
  <2> QED BY <1>0, <1>1, <1>3, <2>1 DEF FileInv
<1>7. FileInv' BY <1>0, <1>5, <1>6
<1> QED BY <1>2, <1>7, FileMovesStep

\* The end of the file: it is counted, reported or removed.
LEMMA FileEndStep ==
    ASSUME WorkOK, main_file_end, UNCHANGED <<job, TakenObjs, damaged>>
    PROVE  WorkOK'
<1>u. \A x : Usurped(x) => Usurped(x)' BY UsurpedStays
<1> DEFINE o == file.head.obj
           whole == disk[o] = "bad" /\ file.data = Blocks(file.head)
<1>0. /\ mainpc = "fileend" /\ InFile /\ mainpc' \in {"next", "stop"} /\ ret' \in {ret, -1}
      /\ disk' = [disk EXCEPT ![o] = IF file.delfile THEN "absent"
                                     ELSE IF whole THEN "good" ELSE @]
      /\ counted' = IF excluded \/ file.minorerr THEN counted ELSE counted \cup {o}
      /\ totalerr' = (totalerr \/ (~excluded /\ file.minorerr))
      /\ UNCHANGED <<fsi, file, group, errors>>
  BY DEF main_file_end, InFile, Goto, Error
<1>1. o \in Objs /\ o \notin counted /\ o \in TakenObjs BY <1>0, HeadFacts DEF Pending
<1>2. disk \in [Objs -> {"absent", "old", "good", "bad"}] /\ counted \subseteq Objs
  BY DEF WorkOK, WorkTypeOK
<1>3. /\ ~excluded /\ ~file.minorerr => whole \/ Usurped(o)
      /\ file.delfile => file.minorerr
  BY <1>0 DEF WorkOK, FileInv
<1> HIDE DEF o, whole
<1>4. WorkTypeOK'
  <2>1. disk' \in [Objs -> {"absent", "old", "good", "bad"}] BY <1>0, <1>2
  <2>2. totalerr' \in BOOLEAN BY <1>0
  <2>3. counted' \subseteq Objs BY <1>0, <1>1, <1>2
  <2>4. mainpc' \in MainPc BY <1>0 DEF MainPc
  <2> QED BY <1>0, <2>1, <2>2, <2>3, <2>4 DEF WorkOK, WorkTypeOK
<1>5. WorkInv' BY <1>0, <1>1 DEF WorkOK, WorkInv, InFile
<1>6. FileInv' BY <1>0 DEF FileInv, InFile
<1>7. \A x \in Objs : x # o => disk'[x] = disk[x] BY <1>0, <1>2
<1>8. disk'[o] = IF file.delfile THEN "absent" ELSE IF whole THEN "good" ELSE disk[o]
  BY <1>0, <1>1, <1>2
<1>9. BadInv'
  <2>1. ASSUME NEW x \in Objs, disk'[x] = "bad"
        PROVE  x \notin Excluded /\ (totalerr' \/ ret' # 0 \/ Usurped(x)')
    <3>1. disk[x] = "bad" BY <1>7, <1>8, <2>1
    <3>2. x \notin Excluded /\ (totalerr \/ ret # 0 \/ x = o \/ Usurped(x))
      BY <3>1 DEF WorkOK, BadInv, o
    <3>a. totalerr => totalerr' BY <1>0
    <3>b. ret # 0 => ret' # 0 BY <1>0
    <3>3. totalerr \/ ret # 0 => totalerr' \/ ret' # 0 BY <3>a, <3>b
    <3>4. CASE x = o
      <4>1. ~excluded BY <3>2, <3>4 DEF excluded, o
      <4>2. file.minorerr \/ Usurped(x) BY <1>3, <1>8, <2>1, <3>4, <4>1
      <4> QED BY <1>0, <1>u, <3>2, <4>1, <4>2
    <3> QED BY <1>u, <3>2, <3>3, <3>4
  <2> QED BY <2>1 DEF BadInv, Excluded
<1>10. CountedGood'
  <2>1. \A x \in counted : x # o /\ x \in Objs BY <1>1, <1>2
  <2>2. ~excluded /\ ~file.minorerr => disk'[o] = "good" \/ Usurped(o) BY <1>3, <1>8
  <2> QED BY <1>0, <1>7, <1>u, <2>1, <2>2 DEF WorkOK, CountedGood
<1> QED BY <1>4, <1>5, <1>6, <1>9, <1>10 DEF WorkOK

-----------------------------------------------------------------------------
(* A group of small files: extractar_restore_obj_regfile_multi() *)

\* Another header of the group is taken.
LEMMA GroupHeaderStep ==
    ASSUME QueueInv, RestoreTypeOK, EndsInv, ItemsOK, ObjectsComeOnce, WorkOK, Main,
           main_group_header, UNCHANGED <<job, damaged>>
    PROVE  WorkOK'
<1>u. \A x : Usurped(x) => Usurped(x)' BY UsurpedStays
<1>0. /\ mainpc = "multi" /\ UNCHANGED <<fsi, file, disk, counted, errors, totalerr, sent>>
      /\ \/ mainpc' = "stop" /\ ret' = -1 /\ UNCHANGED group
         \/ /\ TakeHeader /\ queue[1].info.magic = "OBJT"
            /\ group' = Append(group, queue[1].info) /\ UNCHANGED <<mainpc, ret>>
  BY DEF main_group_header, Goto, Error, readervars
<1>t. TakenObjs \subseteq TakenObjs' BY TakenGrows
<1>1. CASE mainpc' = "stop" /\ ret' = -1 /\ UNCHANGED group
  <2>1. WorkTypeOK' BY <1>0, <1>1 DEF WorkOK, WorkTypeOK, MainPc
  <2>2. WorkInv' BY <1>0, <1>1, <1>t DEF WorkOK, WorkInv, InFile
  <2>3. FileInv' BY <1>1 DEF FileInv, InFile
  <2>4. BadInv' BY <1>0, <1>1 DEF WorkOK, BadInv, Excluded
  <2>5. CountedGood' BY <1>0, <1>u DEF WorkOK, CountedGood
  <2> QED BY <2>1, <2>2, <2>3, <2>4, <2>5 DEF WorkOK
<1>2. CASE /\ TakeHeader /\ queue[1].info.magic = "OBJT"
           /\ group' = Append(group, queue[1].info) /\ UNCHANGED <<mainpc, ret>>
  <2>1. Takes
    <3>1. ~Stopped /\ ~Stopped' BY <1>0, <1>2 DEF Stopped
    <3> QED BY <1>2, <3>1, TakesItem DEF main_group_header
  <2>2. PICK new \in Info : new = queue[1].info BY <1>0, <2>1, ObjectIsNew
  <2>3. new.magic = "OBJT" /\ new.obj \in Objs /\ new.obj \in TakenObjs' /\ new.obj \notin TakenObjs
    BY <1>0, <1>2, <2>1, <2>2, ObjectIsNew
  <2>4. group \in Seq(Info) /\ counted \subseteq TakenObjs
        /\ (\A k \in DOMAIN group : Pending(group[k]))
        /\ (\A j, k \in DOMAIN group : group[j].obj = group[k].obj => j = k)
    BY <1>0 DEF WorkOK, WorkTypeOK, WorkInv
  <2>5. /\ group' \in Seq(Info) /\ DOMAIN group = 1 .. Len(group) /\ Len(group) \in Nat
        /\ DOMAIN group' = 1 .. Len(group) + 1
        /\ \A k \in 1 .. Len(group) : group'[k] = group[k]
        /\ group'[Len(group) + 1] = new
    BY <1>2, <2>2, <2>4, AppendShape
  <2>6. \A k \in DOMAIN group' :
           (k \in DOMAIN group /\ group'[k] = group[k]) \/ (k = Len(group) + 1 /\ group'[k] = new)
    BY <2>5
  <2>7. \A k \in DOMAIN group : group[k].obj # new.obj BY <2>3, <2>4 DEF Pending
  <2>8. new.obj \notin counted BY <2>3, <2>4
  <2>9. ASSUME NEW k \in DOMAIN group' PROVE Pending(group[k])'
    <3>1. group'[k] \in Info /\ group'[k].magic = "OBJT" /\ group'[k].obj \in Objs
          /\ group'[k].obj \in TakenObjs' /\ group'[k].obj \notin counted'
      BY <1>0, <1>t, <2>3, <2>4, <2>6, <2>8 DEF Pending
    <3> QED BY <3>1 DEF Pending
  <2>10. \A j, k \in DOMAIN group' : group'[j].obj = group'[k].obj => j = k
    BY <2>4, <2>6, <2>7
  <2>11. WorkInv' BY <1>0, <1>t, <1>2, <2>4, <2>9, <2>10 DEF WorkInv, InFile
  <2>12. WorkTypeOK' BY <1>0, <1>2, <2>5 DEF WorkOK, WorkTypeOK
  <2>13. FileInv' BY <1>0, <1>2 DEF FileInv, InFile
  <2>14. BadInv' BY <1>0, <1>2, <1>u DEF WorkOK, BadInv, Excluded, InFile
  <2>15. CountedGood' BY <1>0, <1>u DEF WorkOK, CountedGood
  <2> QED BY <2>11, <2>12, <2>13, <2>14, <2>15 DEF WorkOK
<1> QED BY <1>0, <1>1, <1>2

\* The block of the group is taken and its files are restored.
LEMMA GroupBlockStep ==
    ASSUME WorkOK, main_group_block, UNCHANGED <<job, damaged>>, TakenObjs \subseteq TakenObjs'
    PROVE  WorkOK'
<1>u. \A x : Usurped(x) => Usurped(x)' BY UsurpedStays
<1> DEFINE Mine == {group[k].obj : k \in DOMAIN group} \ Excluded
<1>0. /\ mainpc = "multi" /\ mainpc' \in {"next", "stop"} /\ ret' \in {ret, -1}
      /\ UNCHANGED <<fsi, file, group, errors>>
      /\ \/ UNCHANGED <<disk, counted, totalerr>>
         \/ \E n \in 0 .. Len(group) : restore_files(n, queue[1].info)
  BY DEF main_group_block, restore_files, Goto, Error
<1>1. /\ \A x \in Mine : x \in Objs /\ x \in TakenObjs /\ x \notin counted /\ x \notin Excluded
      /\ group \in Seq(Info) /\ Len(group) \in Nat /\ DOMAIN group = 1 .. Len(group)
  BY <1>0 DEF WorkOK, WorkTypeOK, WorkInv, Pending
<1> HIDE DEF Mine
<1>4. CASE UNCHANGED <<disk, counted, totalerr>>
  <2>1. WorkTypeOK' BY <1>0, <1>4 DEF WorkOK, WorkTypeOK, MainPc
  <2>2. WorkInv' BY <1>0, <1>4 DEF WorkOK, WorkInv, InFile
  <2>3. FileInv' BY <1>0 DEF FileInv, InFile
  <2>4. BadInv' BY <1>0, <1>4, <1>u DEF WorkOK, BadInv, Excluded, InFile
  <2>5. CountedGood' BY <1>4, <1>u DEF WorkOK, CountedGood
  <2> QED BY <2>1, <2>2, <2>3, <2>4, <2>5 DEF WorkOK
<1>6. ASSUME NEW n \in 0 .. Len(group), restore_files(n, queue[1].info) PROVE WorkOK'
  <2> DEFINE todo == SmallFiles(1 .. n)
             sound == SmallFiles({k \in 1 .. n : InBlock(group[k], queue[1].info)})
             removed == SmallFiles({n + 1} \cap DOMAIN group)
  <2>1. \A k \in 1 .. n : k \in DOMAIN group BY <1>1
  <2>2. \A ks \in SUBSET DOMAIN group : SmallFiles(ks) \subseteq Mine BY DEF SmallFiles, Mine
  <2>3. todo \subseteq Mine /\ sound \subseteq Mine /\ removed \subseteq Mine BY <2>1, <2>2
  <2>4. \E unopened, noattr :
          /\ disk' = [o \in Objs |-> IF o \in sound \ unopened THEN "good"
                                     ELSE IF o \in todo \ (sound \cup unopened) THEN "bad"
                                     ELSE IF o \in removed THEN "absent" ELSE disk[o]]
          /\ counted' = counted \cup (sound \ (unopened \cup noattr))
          /\ totalerr' = \/ totalerr
                         \/ \E k \in 1 .. n : group[k].form # "multi"
                         \/ todo # sound \ (unopened \cup noattr)
    BY <1>6 DEF restore_files
  <2> HIDE DEF todo, sound, removed, Mine
  <2>5. PICK unopened, noattr :
          /\ disk' = [o \in Objs |-> IF o \in sound \ unopened THEN "good"
                                     ELSE IF o \in todo \ (sound \cup unopened) THEN "bad"
                                     ELSE IF o \in removed THEN "absent" ELSE disk[o]]
          /\ counted' = counted \cup (sound \ (unopened \cup noattr))
          /\ totalerr' = \/ totalerr
                         \/ \E k \in 1 .. n : group[k].form # "multi"
                         \/ todo # sound \ (unopened \cup noattr)
    BY <2>4
  <2>6. totalerr' \in BOOLEAN BY <2>5
  <2>7. totalerr \/ todo # sound \ (unopened \cup noattr) => totalerr' BY <2>5
  <2>f. /\ todo \in SUBSET Mine /\ sound \in SUBSET Mine /\ removed \in SUBSET Mine
        /\ disk' = [o \in Objs |-> IF o \in sound \ unopened THEN "good"
                                   ELSE IF o \in todo \ (sound \cup unopened) THEN "bad"
                                   ELSE IF o \in removed THEN "absent" ELSE disk[o]]
        /\ counted' = counted \cup (sound \ (unopened \cup noattr))
        /\ totalerr' \in BOOLEAN
        /\ totalerr \/ todo # sound \ (unopened \cup noattr) => totalerr'
    BY <2>3, <2>5, <2>6, <2>7
  <2>w0. disk \in [Objs -> {"absent", "old", "good", "bad"}] /\ counted \subseteq Objs
        /\ counted \subseteq TakenObjs
    BY DEF WorkOK, WorkTypeOK, WorkInv
  <2>w1. WorkTypeOK'
    <3>1. disk' \in [Objs -> {"absent", "old", "good", "bad"}] BY <2>f, <2>w0
    <3>2. counted' \subseteq Objs BY <1>1, <2>f, <2>w0
    <3>3. mainpc' \in MainPc BY <1>0 DEF MainPc
    <3> QED BY <1>0, <2>f, <3>1, <3>2, <3>3 DEF WorkOK, WorkTypeOK
  <2>w2. WorkInv'
    <3>1. counted' \subseteq TakenObjs' BY <1>1, <2>f, <2>w0
    <3> QED BY <1>0, <3>1 DEF WorkInv, InFile
  <2>w3. FileInv' BY <1>0 DEF FileInv, InFile
  <2>w4. BadInv'
    <3>1. ASSUME NEW x \in Objs, disk'[x] = "bad" PROVE x \notin Excluded /\ (totalerr' \/ ret' # 0 \/ Usurped(x)')
      <4>1. CASE x \in todo \ (sound \cup unopened)
        <5>1. todo # sound \ (unopened \cup noattr) BY <4>1
        <5> QED BY <1>1, <2>f, <4>1, <5>1
      <4>2. CASE x \notin todo \ (sound \cup unopened)
        <5>1. disk[x] = "bad" BY <2>f, <3>1, <4>2
        <5>2. x \notin Excluded /\ (totalerr \/ ret # 0 \/ Usurped(x))
          BY <1>0, <5>1 DEF WorkOK, BadInv, InFile
        <5>3. totalerr => totalerr' BY <2>f
        <5>4. ret # 0 => ret' # 0 BY <1>0
        <5> QED BY <1>u, <5>2, <5>3, <5>4
      <4> QED BY <4>1, <4>2
    <3> QED BY <3>1 DEF BadInv, Excluded
  <2>w5. CountedGood'
    <3>1. ASSUME NEW x \in counted' PROVE disk'[x] = "good" \/ Usurped(x)'
      <4>1. CASE x \in sound \ (unopened \cup noattr) BY <1>1, <2>f, <4>1
      <4>2. CASE x \in counted
        <5>1. x \in Objs /\ x \notin Mine /\ (disk[x] = "good" \/ Usurped(x))
          BY <1>1, <2>w0, <4>2 DEF WorkOK, CountedGood
        <5>2. x \notin sound /\ x \notin todo /\ x \notin removed BY <2>f, <5>1
        <5> QED BY <1>u, <2>f, <5>1, <5>2
      <4> QED BY <2>f, <4>1, <4>2
    <3> QED BY <3>1 DEF CountedGood
  <2> QED BY <2>w1, <2>w2, <2>w3, <2>w4, <2>w5 DEF WorkOK
<1> QED BY <1>0, <1>4, <1>6

\* The work of the main thread, whoever takes a step
LEMMA WorkStep ==
    ASSUME QueueInv, RestoreTypeOK, EndsInv, ItemsOK, ObjectsComeOnce, OriginInv, WorkOK, [Next]_vars,
           damaged \subseteq damaged'
    PROVE  WorkOK'
<1>u. \A x : Usurped(x) => Usurped(x)' BY UsurpedStays
<1>1. CASE Main
  <2>1. TakenObjs \subseteq TakenObjs' /\ (Takes \/ UNCHANGED got) /\ UNCHANGED <<sent, job, damaged>>
    BY <1>1, TakenGrows, MainStep DEF Main, MainKind
  <2>2. QueueTypeOK BY DEF QueueInv
  <2>3. ASSUME Quiet PROVE WorkOK' BY <2>1, <2>3, QuietStep
  <2>4. CASE main_peek
    <3>1. CASE mainpc' \in {"stop", "objend", "peek", "next"} BY <2>1, <2>2, <2>3, <2>4, <3>1, QuietActions
    <3>2. CASE mainpc' \notin {"stop", "objend", "peek", "next"}
      <4>1. Takes
        <5>1. TakeHeader /\ queue[1].info.magic = "OBJT" /\ mainpc' = queue[1].info.form
          BY <2>4, <3>2 DEF main_peek, Goto, Error
        <5>2. mainpc' \in {"node", "unique", "multi"}
          BY <2>2, <5>1, KindOfObject DEF TakeHeader, queue_dequeue_header, HeadReady
        <5>3. ~Stopped /\ ~Stopped' BY <2>4, <5>2 DEF main_peek, Stopped
        <5> QED BY <2>4, <5>1, <5>3, TakesItem DEF main_peek
      <4> QED BY <2>1, <2>4, <3>2, <4>1, PeekStep
    <3> QED BY <3>1, <3>2
  <2>5. CASE main_node \/ main_file_end
    <3>1. UNCHANGED TakenObjs BY <2>5 DEF main_node, main_file_end, Local, TakenObjs
    <3> QED BY <2>1, <2>5, <3>1, NodeStep, FileEndStep
  <2>6. CASE main_file_open \/ main_file_loop \/ main_file_block \/ main_file_footer
    BY <2>1, <2>6, FileOpenStep, FileLoopStep, FileBlockStep, FileFooterStep
  <2>7. CASE main_group_header BY <1>1, <2>1, <2>7, GroupHeaderStep
  <2>8. CASE main_group_block BY <2>1, <2>8, GroupBlockStep
  <2> QED BY <1>1, <2>1, <2>2, <2>3, <2>4, <2>5, <2>6, <2>7, <2>8, QuietActions DEF Main
<1>2. CASE ~Main
  <2>1. UNCHANGED <<job, mainvars>>
    BY <1>2 DEF Next, Reader, Decomp, User, Terminated, vars, reader_start, reader_open, reader_add,
       reader_read, reader_skip_damaged, reader_zero_damaged, reader_give_up, reader_volume,
       reader_end, reader_exit
  <2>2. UNCHANGED <<job, mainpc, fsi, file, group, disk, counted, errors, totalerr, ret, got>>
    BY <2>1 DEF mainvars, workvars
  <2>3. WorkTypeOK' BY <2>2 DEF WorkOK, WorkTypeOK
  <2>4. WorkInv' BY <2>2 DEF WorkOK, WorkInv, Pending, TakenObjs, InFile
  <2>5. FileInv' BY <1>u, <2>2 DEF WorkOK, FileInv, InFile, Written, filepos, excluded, Excluded
  <2>6. BadInv' BY <1>u, <2>2 DEF WorkOK, BadInv, InFile, Excluded
  <2>7. CountedGood' BY <1>u, <2>2 DEF WorkOK, CountedGood
  <2> QED BY <2>3, <2>4, <2>5, <2>6, <2>7 DEF WorkOK
<1> QED BY <1>1, <1>2

-----------------------------------------------------------------------------
(* The whole *)

\* Nothing is queued and nothing restored at the beginning.
LEMMA RestoreInitInv == Init => QInit /\ QueueInv /\ RestoreInv /\ T!Init
<1> SUFFICES ASSUME Init PROVE QInit /\ QueueInv /\ RestoreInv /\ T!Init OBVIOUS
<1> USE DEF Init
<1>1. QInit /\ QueueInv BY InitInv DEF QInit
<1>2. /\ queue = <<>> /\ curitemnum = 1 /\ endofqueue = FALSE /\ secthreads = 0
      /\ stopfillqueue = FALSE /\ aborted = FALSE
      /\ comppc = [t \in CompThreads |-> "none"] /\ blknum = [t \in CompThreads |-> 0]
  BY DEF ThreadsInit, queue_init
<1>3. T!Init BY <1>2 DEF T!Init
<1>4. got \in Seq(Info) /\ sent \in Seq(Info) /\ group \in Seq(Info)
      /\ Len(got) = 0 /\ Len(sent) = 0 /\ Len(queue) = 0
      /\ (\A n : n \notin DOMAIN got /\ n \notin DOMAIN sent /\ n \notin DOMAIN queue)
  BY <1>2
<1>5. RestoreTypeOK
  <2>1. ThreadsTypeOK BY <1>1, <1>2 DEF QueueInv, ThreadsTypeOK
  <2>2. disk \in [Objs -> {"absent", "old", "good", "bad"}] OBVIOUS
  <2>3. file \in [head: Info \cup {NoInfo}, data: Seq(Info), minorerr: BOOLEAN,
                  delfile: BOOLEAN, fatalerr: BOOLEAN]
    BY DEF NewFile
  <2>4. 1 \in 1 .. Len(Archive) + 1
    <3>1. Len(Archive) \in Nat BY RestoreAssumption
    <3> QED BY ONLY <3>1
  <2>5. totalerr \in BOOLEAN OBVIOUS
  <2>6. /\ job \in Jobs /\ mainpc \in MainPc /\ fsi \in Nat /\ errors \in Nat /\ ret \in {0, -1}
        /\ readerpc = "none" /\ ritem = NoInfo /\ pos = 1
    BY DEF MainPc
  <2>7. counted \subseteq Objs /\ damaged \subseteq DOMAIN Archive OBVIOUS
  <2>8. pos \in 1 .. Len(Archive) + 1 BY <2>4, <2>6
  <2>9. got \in Seq(Info) /\ sent \in Seq(Info) /\ group \in Seq(Info) BY <1>4
  <2>10. origin \in Seq(DOMAIN Archive) OBVIOUS
  <2> HIDE DEF Init
  <2> QED BY <2>1, <2>2, <2>3, <2>5, <2>6, <2>7, <2>8, <2>9, <2>10 DEF RestoreTypeOK
<1>6. SecthreadsInv
  <2>1. {t \in CompThreads : Running(t)} = {} BY <1>2 DEF Running
  <2>2. IsFiniteSet({}) /\ Cardinality({}) = 0 BY FS_EmptySet
  <2>3. readerpc = "none" /\ secthreads = 0 BY <1>2
  <2> HIDE DEF Init
  <2> QED BY <2>1, <2>2, <2>3 DEF SecthreadsInv
<1>7. EndsInv BY <1>2 DEF EndsInv, Stopped
<1>8. QueueHoldsSent BY <1>2, <1>4 DEF QueueHoldsSent
<1>9. GotIsSent BY <1>4 DEF GotIsSent
<1>10. ObjectsComeOnce BY <1>4 DEF ObjectsComeOnce
<1>o. OriginInv
  <2>1. Len(origin) = 0 /\ (\A n : n \notin DOMAIN origin) OBVIOUS
  <2>2. readerpc = "none" /\ pos = 1 OBVIOUS
  <2>3. \A p : p \notin 1 .. pos - 1 BY <2>2
  <2> HIDE DEF Init
  <2> QED BY <1>4, <2>1, <2>2, <2>3 DEF OriginInv
<1>11. WorkInv BY DEF WorkInv, InFile
<1>12. FileInv BY DEF FileInv, InFile
<1>13. BadInv BY DEF BadInv
<1>14. NoSilentCorruption BY DEF NoSilentCorruption
<1> QED
  BY <1>1, <1>3, <1>5, <1>6, <1>7, <1>8, <1>9, <1>10, <1>o, <1>11, <1>12, <1>13, <1>14 DEF RestoreInv

\* One step of the whole: it keeps the invariant, it is a step of a client of
\* the queue and it is a step of the transfer.
LEMMA RestoreNextInv ==
    QueueInv /\ RestoreInv /\ [Next]_vars =>
        QueueInv' /\ RestoreInv' /\ [QNext]_qvars /\ [T!Next]_(T!vars)
<1> SUFFICES ASSUME QueueInv, RestoreInv, [Next]_vars
             PROVE  QueueInv' /\ RestoreInv' /\ [QNext]_qvars /\ [T!Next]_(T!vars)
  OBVIOUS
<1>0. /\ RestoreTypeOK /\ SecthreadsInv /\ EndsInv /\ QueueHoldsSent /\ GotIsSent /\ ObjectsComeOnce
      /\ OriginInv /\ WorkInv /\ FileInv /\ BadInv /\ NoSilentCorruption
  BY DEF RestoreInv
<1>i. ItemsOK BY <1>0 DEF ItemsOK, RestoreTypeOK
<1>w. WorkOK BY <1>0 DEF WorkOK, WorkTypeOK, CountedGood, NoSilentCorruption, RestoreTypeOK
<1>1. [QNext]_qvars BY <1>0, RestoreQueueStep
<1>2. QueueInv' BY <1>1, NextInv
<1>3. SecthreadsInv' /\ secthreads' \in Nat BY <1>0, SecthreadsStep
<1>4. EndsInv' BY <1>0, EndsStep
<1>5. ItemsOK' /\ [T!Next]_(T!vars)
  <2>1. CASE User \/ UNCHANGED vars
    <3>1. UNCHANGED <<queue, curitemnum, endofqueue, blknum, blkinfo, sent, got, stopfillqueue, mainpc>>
      BY <2>1 DEF User, Signal, vars, queuevars, compvars, syncvars, mainvars, readervars
    <3>2. ItemsOK' BY <1>i, <3>1, NothingMoves DEF Stopped
    <3>3. UNCHANGED T!vars BY <3>1 DEF T!vars
    <3> QED BY <3>2, <3>3
  <2> QED BY <1>0, <1>i, <2>1, MainItems, ReaderItems, DecompItems DEF Next, Terminated
<1>6. ReaderTypeOK' /\ ObjectsComeOnce' /\ OriginInv' /\ damaged \subseteq damaged'
  BY <1>0, <1>i, ReaderKept
<1>7. WorkOK' BY <1>0, <1>i, <1>w, <1>6, WorkStep
<1>8. RestoreTypeOK'
  <2>1. stopfillqueue' \in BOOLEAN /\ aborted' \in BOOLEAN
    <3>1. stopfillqueue \in BOOLEAN /\ aborted \in BOOLEAN BY <1>0 DEF RestoreTypeOK, ThreadsTypeOK
    <3>2. CASE Main
      <4>1. MainKind BY <1>0, <3>2, MainStep
      <4> QED BY <3>1, <4>1 DEF MainKind, Takes, Drops, Keeps, create_comp, syncvars
    <3>3. CASE ~Main
      BY <3>1, <3>3 DEF Next, Reader, Decomp, User, Terminated, Signal, vars, syncvars, reader_start,
         reader_open, reader_add, reader_read, reader_skip_damaged, reader_zero_damaged, reader_give_up,
         reader_volume, reader_end, reader_exit, inc_secthreads, dec_secthreads, thread_comp_start,
         thread_comp_take, thread_comp_put, thread_comp_exit, thread_comp_error
    <3> QED BY <3>2, <3>3
  <2>2. ThreadsTypeOK' BY <1>2, <1>3, <2>1 DEF QueueInv, ThreadsTypeOK
  <2>3. job' \in Jobs
    <3>1. UNCHANGED job BY DEF Next, Main, Reader, Decomp, User, Terminated, vars
    <3> QED BY <1>0, <3>1 DEF RestoreTypeOK
  <2> QED BY <1>5, <1>6, <1>7, <2>2, <2>3
        DEF RestoreTypeOK, ReaderTypeOK, WorkOK, WorkTypeOK, ItemsOK
<1>9. NoSilentCorruption'
  <2>1. \A o \in counted' : disk'[o] = "good" \/ Usurped(o)' BY <1>7 DEF WorkOK, CountedGood
  <2>2. ASSUME mainpc' = "done", exitstatus' = 0, NEW o \in Objs, disk'[o] = "bad"
        PROVE  Usurped(o)'
    <3>1. ret' = 0 /\ ~totalerr' BY <2>2 DEF exitstatus
    <3>2. totalerr' \/ ret' # 0 \/ Usurped(o)' BY <1>7, <2>2 DEF WorkOK, BadInv, InFile
    <3> QED BY <3>1, <3>2
  <2> QED BY <2>1, <2>2 DEF NoSilentCorruption
<1> QED
  BY <1>1, <1>2, <1>3, <1>4, <1>5, <1>6, <1>7, <1>8, <1>9 DEF RestoreInv, ItemsOK, WorkOK

\* The invariant of the whole pipeline: of the queue, of the threads, of what
\* the main thread has taken and of the file it works on, however they interleave.
THEOREM RestoreCorrect == Spec => [](QueueInv /\ RestoreInv)
<1>1. Init => QueueInv /\ RestoreInv BY RestoreInitInv
<1>2. QueueInv /\ RestoreInv /\ [Next]_vars => (QueueInv /\ RestoreInv)' BY RestoreNextInv
<1> QED BY <1>1, <1>2, PTL DEF Spec

\* restfs, restdir and archinfo call queue.c as QueueProtocol allows: what
\* QueueProofs shows of the queue, its bound and its owners included, holds in
\* them, the drain at the end of oper_restore() included.
THEOREM RestoreImplementsQueue == Spec => QSpec
<1>1. Init => QInit /\ QueueInv /\ RestoreInv BY RestoreInitInv
<1>2. QueueInv /\ RestoreInv /\ [Next]_vars => (QueueInv /\ RestoreInv)' /\ [QNext]_qvars
  BY RestoreNextInv
<1> QED BY <1>1, <1>2, PTL DEF Spec, QSpec

\* What thread_reader_fct() queues reaches oper_restore() in order, once,
\* unpacked, until it stops: the safety part of TransferSpec.
THEOREM RestoreTransfersInOrder == Spec => T!Init /\ [][T!Next]_(T!vars)
<1>1. Init => T!Init /\ QueueInv /\ RestoreInv BY RestoreInitInv
<1>2. QueueInv /\ RestoreInv /\ [Next]_vars => (QueueInv /\ RestoreInv)' /\ [T!Next]_(T!vars)
  BY RestoreNextInv
<1> QED BY <1>1, <1>2, PTL DEF Spec

\* No file that oper_restore() counts has wrong contents, and none is left with
\* wrong contents when it reports success, for every archive, damage and fault,
\* except for one that has taken over the contents of a file whose header is lost.
THEOREM CorruptionIsReported == Spec => []NoSilentCorruption
BY RestoreCorrect, PTL DEF RestoreInv

\* The end of the queue that a thread of oper_restore() has seen is final.
THEOREM RestoreEndIsFinal == Spec => EndOfQueueIsFinal
BY RestoreImplementsQueue, EndIsFinal, PTL

=============================================================================
