---------------------------- MODULE QueueProofs ----------------------------
(***************************************************************************)
(* The queue of queue.c under its most general client: QueueInv is          *)
(* inductive, for any number of compression threads, any limit of the       *)
(* queue and any contents.                                                  *)
(***************************************************************************)
EXTENDS QueueProtocol, FiniteSetTheorems, TLAPS

-----------------------------------------------------------------------------
(* Facts about sequences *)

\* Adding an item at the tail, as queue_add_block() and queue_add_header() do.
LEMMA AppendShape ==
    ASSUME NEW S, NEW s \in Seq(S), NEW e \in S
    PROVE  /\ Append(s, e) \in Seq(S)
           /\ Len(Append(s, e)) = Len(s) + 1
           /\ DOMAIN Append(s, e) = 1 .. Len(s) + 1
           /\ \A i \in 1 .. Len(s) : Append(s, e)[i] = s[i]
           /\ Append(s, e)[Len(s) + 1] = e
    OBVIOUS

\* Removing the first item, as every function that empties the queue does.
LEMMA TailShape ==
    ASSUME NEW S, NEW s \in Seq(S), s # <<>>
    PROVE  /\ Tail(s) \in Seq(S)
           /\ Len(s) \in Nat /\ Len(s) > 0
           /\ s[1] \in S
           /\ Len(Tail(s)) = Len(s) - 1
           /\ DOMAIN Tail(s) = 1 .. Len(s) - 1
           /\ \A i \in 1 .. Len(s) - 1 : Tail(s)[i] = s[i + 1]
    OBVIOUS

-----------------------------------------------------------------------------
(* The first item, the last item and the numbers of the blocks *)

\* The blocks in the queue are finitely many, and none has a number that is
\* still to be given.
LEMMA BlockNumsFinite ==
    ASSUME QueueTypeOK, ItemsAreConsecutive
    PROVE  /\ IsFiniteSet(BlockNums)
           /\ curitemnum \notin BlockNums
           /\ \A n \in BlockNums : n \in Nat /\ n < curitemnum
<1>0. /\ curitemnum \in Nat /\ Len(queue) \in Nat /\ DOMAIN queue = 1 .. Len(queue)
      /\ \A i \in DOMAIN queue : queue[i] \in Item
  BY DEF QueueTypeOK
<1>1. ASSUME NEW i \in DOMAIN queue PROVE queue[i].itemnum \in 0 .. curitemnum - 1
  <2>1. queue[i].itemnum \in Nat BY <1>0 DEF Item
  <2>2. queue[i].itemnum = curitemnum - Len(queue) + i - 1 BY DEF ItemsAreConsecutive
  <2>3. i \in Nat /\ i <= Len(queue) BY <1>0
  <2> QED BY ONLY <1>0, <2>1, <2>2, <2>3
<1>2. BlockNums \in SUBSET (0 .. curitemnum - 1)
  BY <1>1 DEF BlockNums
<1>3. IsFiniteSet(0 .. curitemnum - 1)
  BY FS_Interval DEF QueueTypeOK
<1>4. IsFiniteSet(BlockNums)
  BY <1>2, <1>3, FS_Subset
<1> QED
  BY <1>2, <1>4 DEF QueueTypeOK

\* No two items have the same number.
LEMMA DistinctNums ==
    ASSUME QueueTypeOK, ItemsAreConsecutive,
           NEW i \in DOMAIN queue, NEW k \in DOMAIN queue, queue[i].itemnum = queue[k].itemnum
    PROVE  i = k
<1>1. /\ queue[i].itemnum = curitemnum - Len(queue) + i - 1
      /\ queue[k].itemnum = curitemnum - Len(queue) + k - 1
  BY DEF ItemsAreConsecutive
<1>2. i \in Nat /\ k \in Nat /\ curitemnum \in Nat /\ Len(queue) \in Nat
  BY DEF QueueTypeOK
<1>3. curitemnum - Len(queue) + i - 1 = curitemnum - Len(queue) + k - 1 BY <1>1
<1> QED BY ONLY <1>2, <1>3

\* A step that adds an item at the tail with the next number.
Added(item) ==
    /\ item \in Item
    /\ item.itemnum = curitemnum
    /\ queue' = Append(queue, item)
    /\ itemcount' = itemcount + 1
    /\ curitemnum' = curitemnum + 1
    /\ blkcount' = IF item.type = "BLOCK" THEN blkcount + 1 ELSE blkcount
    /\ endofqueue' = endofqueue

\* An item that is added is counted once, and gets a number of its own.
LEMMA AddedCounts ==
    ASSUME QueueTypeOK, NumbersLeft, ItemsAreConsecutive, CountersMatch,
           NEW item, Added(item)
    PROVE  ItemsAreConsecutive' /\ CountersMatch' /\ NumbersLeft'
<1> USE DEF QueueTypeOK, Added
<1>1. /\ Len(queue') = Len(queue) + 1
      /\ DOMAIN queue' = 1 .. Len(queue) + 1
      /\ \A i \in 1 .. Len(queue) : queue'[i] = queue[i]
      /\ queue'[Len(queue) + 1] = item
      /\ Len(queue) \in Nat /\ DOMAIN queue = 1 .. Len(queue)
  BY AppendShape
<1>2. ItemsAreConsecutive'
  BY <1>1 DEF ItemsAreConsecutive
<1>3. NumbersLeft'
  BY <1>1 DEF NumbersLeft
<1>4. IsFiniteSet(BlockNums) /\ curitemnum \notin BlockNums
  BY BlockNumsFinite
<1>5. CASE item.type = "BLOCK"
  <2>1. BlockNums' = BlockNums \cup {curitemnum}
    <3>1. ASSUME NEW n \in BlockNums' PROVE n \in BlockNums \cup {curitemnum}
      BY <1>1, <1>5, <3>1 DEF BlockNums
    <3>2. ASSUME NEW n \in BlockNums PROVE n \in BlockNums'
      BY <1>1, <3>2 DEF BlockNums
    <3>3. curitemnum \in BlockNums'
      <4>1. Len(queue) + 1 \in {j \in DOMAIN queue' : queue'[j].type = "BLOCK"}
        BY <1>1, <1>5
      <4> QED BY <1>1, <4>1 DEF BlockNums
    <3> QED BY <3>1, <3>2, <3>3
  <2>2. Cardinality(BlockNums') = Cardinality(BlockNums) + 1
    BY <2>1, <1>4, FS_AddElement
  <2> QED BY <1>1, <1>2, <1>3, <1>5, <2>2 DEF CountersMatch
<1>6. CASE item.type = "HEADER"
  <2>1. BlockNums' = BlockNums
    BY <1>1, <1>6 DEF BlockNums
  <2> QED BY <1>1, <1>2, <1>3, <1>6, <2>1 DEF CountersMatch
<1> QED BY <1>2, <1>3, <1>5, <1>6 DEF Item

\* An item that is removed from the head is discounted once, and the counters
\* do not become negative.
LEMMA RemovedCounts ==
    ASSUME QueueTypeOK, NumbersLeft, ItemsAreConsecutive, CountersMatch,
           queue # <<>>, RemoveHead
    PROVE  /\ ItemsAreConsecutive' /\ CountersMatch' /\ NumbersLeft'
           /\ itemcount' \in Nat /\ blkcount' \in Nat /\ blkcount' <= blkcount
<1> USE DEF QueueTypeOK, RemoveHead
<1>1. /\ Len(queue') = Len(queue) - 1 /\ Len(queue) > 0
      /\ DOMAIN queue' = 1 .. Len(queue) - 1
      /\ \A i \in 1 .. Len(queue) - 1 : queue'[i] = queue[i + 1]
      /\ Len(queue) \in Nat /\ DOMAIN queue = 1 .. Len(queue)
      /\ queue[1] \in Item
  BY TailShape
<1>2. ItemsAreConsecutive'
  BY <1>1 DEF ItemsAreConsecutive
<1>3. NumbersLeft'
  BY <1>1 DEF NumbersLeft
<1>4. IsFiniteSet(BlockNums) BY BlockNumsFinite
<1>5. ASSUME NEW i \in 2 .. Len(queue) PROVE queue[i].itemnum # queue[1].itemnum
  <2>1. i \in DOMAIN queue /\ 1 \in DOMAIN queue BY <1>1
  <2>2. /\ queue[i].itemnum = curitemnum - Len(queue) + i - 1
        /\ queue[1].itemnum = curitemnum - Len(queue) + 1 - 1
    BY <2>1 DEF ItemsAreConsecutive
  <2>3. i \in Nat /\ i >= 2 /\ curitemnum \in Nat /\ Len(queue) \in Nat BY <1>1
  <2> QED BY ONLY <2>2, <2>3
<1>6. CASE queue[1].type = "BLOCK"
  <2>1. queue[1].itemnum \in BlockNums
    <3>1. 1 \in {j \in DOMAIN queue : queue[j].type = "BLOCK"} BY <1>1, <1>6
    <3> QED BY <3>1 DEF BlockNums
  <2>2. BlockNums' = BlockNums \ {queue[1].itemnum}
    <3>1. ASSUME NEW n \in BlockNums' PROVE n \in BlockNums \ {queue[1].itemnum}
      <4>1. PICK j \in DOMAIN queue' : queue'[j].type = "BLOCK" /\ n = queue'[j].itemnum
        BY <3>1 DEF BlockNums
      <4>2. j + 1 \in 2 .. Len(queue) /\ queue'[j] = queue[j + 1]
        BY <1>1, <4>1
      <4> QED BY <1>1, <1>5, <4>1, <4>2 DEF BlockNums
    <3>2. ASSUME NEW n \in BlockNums, n # queue[1].itemnum PROVE n \in BlockNums'
      <4>1. PICK j \in DOMAIN queue : queue[j].type = "BLOCK" /\ n = queue[j].itemnum
        BY <3>2 DEF BlockNums
      <4>2. j - 1 \in DOMAIN queue' /\ queue'[j - 1] = queue[j]
        BY <1>1, <3>2, <4>1
      <4> QED BY <4>1, <4>2 DEF BlockNums
    <3> QED BY <3>1, <3>2
  <2>3. Cardinality(BlockNums \ {queue[1].itemnum}) = Cardinality(BlockNums) - 1
    BY ONLY <2>1, <1>4, FS_RemoveElement
  <2>4. Cardinality(BlockNums \ {queue[1].itemnum}) \in Nat
    <3>1. IsFiniteSet(BlockNums \ {queue[1].itemnum}) BY ONLY <1>4, FS_RemoveElement
    <3> QED BY ONLY <3>1, FS_CardinalityType
  <2> QED BY <1>1, <1>2, <1>3, <1>6, <2>2, <2>3, <2>4 DEF CountersMatch
<1>7. CASE queue[1].type = "HEADER"
  <2>1. ASSUME NEW n \in BlockNums' PROVE n \in BlockNums
    <3>1. PICK j \in DOMAIN queue' : queue'[j].type = "BLOCK" /\ n = queue'[j].itemnum
      BY <2>1 DEF BlockNums
    <3> QED BY <1>1, <3>1 DEF BlockNums
  <2>2. ASSUME NEW n \in BlockNums PROVE n \in BlockNums'
    <3>1. PICK j \in DOMAIN queue : queue[j].type = "BLOCK" /\ n = queue[j].itemnum
      BY <2>2 DEF BlockNums
    <3>2. j - 1 \in DOMAIN queue' /\ queue'[j - 1] = queue[j]
      BY <1>1, <1>7, <3>1
    <3> QED BY <3>1, <3>2 DEF BlockNums
  <2>3. BlockNums' = BlockNums BY <2>1, <2>2
  <2> QED BY <1>1, <1>2, <1>3, <1>7, <2>3 DEF CountersMatch
<1> QED BY <1>1, <1>6, <1>7 DEF Item

\* A step that changes the status or the contents of items, and no more.
Updated ==
    /\ queue' \in Seq(Item)
    /\ Len(queue') = Len(queue)
    /\ \A i \in DOMAIN queue : /\ queue'[i].itemnum = queue[i].itemnum
                               /\ queue'[i].type = queue[i].type
    /\ UNCHANGED <<blkcount, itemcount, curitemnum, endofqueue>>

\* Such a step leaves the numbers and the counters right.
LEMMA UpdatedCounts ==
    ASSUME QueueTypeOK, NumbersLeft, ItemsAreConsecutive, CountersMatch, Updated
    PROVE  ItemsAreConsecutive' /\ CountersMatch' /\ NumbersLeft'
<1>1. /\ DOMAIN queue' = DOMAIN queue
      /\ Len(queue') = Len(queue)
      /\ \A i \in DOMAIN queue : /\ queue'[i].itemnum = queue[i].itemnum
                                 /\ queue'[i].type = queue[i].type
      /\ UNCHANGED <<blkcount, itemcount, curitemnum>>
  BY DEF QueueTypeOK, Updated
<1>2. ItemsAreConsecutive' BY <1>1 DEF ItemsAreConsecutive
<1>3. BlockNums' = BlockNums BY <1>1 DEF BlockNums
<1> QED BY <1>1, <1>2, <1>3 DEF CountersMatch, NumbersLeft

-----------------------------------------------------------------------------
(* Each kind of step preserves the invariant *)

\* queue_add_block() and queue_add_header()
LEMMA AddStep ==
    ASSUME QueueInv, NEW item, Added(item), queue_not_full, UNCHANGED compvars,
           item.status # "PROGRESS", item.type = "HEADER" => item.status = "DONE"
    PROVE  QueueInv'
<1>1. /\ Len(queue') = Len(queue) + 1
      /\ DOMAIN queue' = 1 .. Len(queue) + 1
      /\ \A i \in 1 .. Len(queue) : queue'[i] = queue[i]
      /\ queue'[Len(queue) + 1] = item
      /\ Len(queue) \in Nat /\ DOMAIN queue = 1 .. Len(queue)
      /\ queue' \in Seq(Item)
      /\ \A i \in DOMAIN queue : i \in DOMAIN queue' /\ queue'[i] = queue[i]
  BY AppendShape DEF QueueInv, QueueTypeOK, Added
<1>2. QueueTypeOK'
  BY <1>1 DEF QueueInv, QueueTypeOK, Added, compvars
<1>3. ItemsAreConsecutive' /\ CountersMatch' /\ NumbersLeft'
  BY AddedCounts DEF QueueInv
<1>4. QueueBounded'
  BY QueueAssumption DEF QueueInv, QueueTypeOK, QueueBounded, Added, queue_not_full
<1>5. HeadersAreDone'
  BY <1>1 DEF QueueInv, HeadersAreDone
<1>6. BusyHasBlock'
  BY DEF QueueInv, BusyHasBlock, compvars
<1>7. InProgressIsHeld'
  <2>1. ASSUME NEW i \in DOMAIN queue', queue'[i].status = "PROGRESS"
        PROVE  \E t \in CompThreads : Holds(t, queue[i].itemnum)'
    <3>1. i \in DOMAIN queue /\ queue'[i] = queue[i] BY <1>1, <2>1
    <3> QED BY <2>1, <3>1 DEF QueueInv, InProgressIsHeld, Holds, compvars
  <2>2. ASSUME NEW t \in CompThreads, blknum'[t] # 0
        PROVE  \E i \in DOMAIN queue' : /\ Holds(t, queue[i].itemnum)'
                                        /\ queue'[i].type = "BLOCK"
                                        /\ queue'[i].status = "PROGRESS"
    <3>1. PICK i \in DOMAIN queue : /\ Holds(t, queue[i].itemnum)
                                    /\ queue[i].type = "BLOCK"
                                    /\ queue[i].status = "PROGRESS"
      BY <2>2 DEF QueueInv, InProgressIsHeld, compvars
    <3> QED BY <1>1, <3>1 DEF Holds, compvars
  <2>3. ASSUME NEW u \in CompThreads, NEW t \in CompThreads, u # t, blknum'[u] # 0
        PROVE  blknum'[u] # blknum'[t]
    BY <2>3 DEF QueueInv, InProgressIsHeld, compvars
  <2> QED BY <2>1, <2>2, <2>3 DEF InProgressIsHeld
<1> QED BY <1>2, <1>3, <1>4, <1>5, <1>6, <1>7 DEF QueueInv

\* queue_dequeue_first(), _block() and _header(), queue_destroy_first_item():
\* none of them takes a block from under a compression thread.
LEMMA RemoveStep ==
    ASSUME QueueInv, queue # <<>>, queue[1].status # "PROGRESS", RemoveHead,
           UNCHANGED compvars
    PROVE  QueueInv'
<1>1. /\ Len(queue') = Len(queue) - 1 /\ Len(queue) > 0
      /\ DOMAIN queue' = 1 .. Len(queue) - 1
      /\ \A i \in 1 .. Len(queue) - 1 : queue'[i] = queue[i + 1]
      /\ Len(queue) \in Nat /\ DOMAIN queue = 1 .. Len(queue)
      /\ queue' \in Seq(Item)
  BY TailShape DEF QueueInv, QueueTypeOK, RemoveHead
<1>2. /\ ItemsAreConsecutive' /\ CountersMatch' /\ NumbersLeft'
      /\ itemcount' \in Nat /\ blkcount' \in Nat /\ blkcount' <= blkcount
  BY RemovedCounts DEF QueueInv
<1>3. QueueTypeOK'
  BY <1>1, <1>2 DEF QueueInv, QueueTypeOK, RemoveHead, compvars
<1>4. QueueBounded'
  BY <1>2, QueueAssumption DEF QueueInv, QueueTypeOK, QueueBounded
<1>5. HeadersAreDone'
  <2>1. ASSUME NEW i \in DOMAIN queue' PROVE i + 1 \in DOMAIN queue /\ queue'[i] = queue[i + 1]
    BY <1>1
  <2> QED BY <2>1 DEF QueueInv, HeadersAreDone
<1>6. BusyHasBlock'
  BY DEF QueueInv, BusyHasBlock, compvars
<1>7. InProgressIsHeld'
  <2>1. ASSUME NEW i \in DOMAIN queue', queue'[i].status = "PROGRESS"
        PROVE  \E t \in CompThreads : Holds(t, queue[i].itemnum)'
    <3>1. i + 1 \in DOMAIN queue /\ queue'[i] = queue[i + 1] BY <1>1, <2>1
    <3>2. PICK t \in CompThreads : Holds(t, queue[i + 1].itemnum)
      BY <2>1, <3>1 DEF QueueInv, InProgressIsHeld
    <3> QED BY <3>1, <3>2 DEF Holds, compvars
  <2>2. ASSUME NEW t \in CompThreads, blknum'[t] # 0
        PROVE  \E i \in DOMAIN queue' : /\ Holds(t, queue[i].itemnum)'
                                        /\ queue'[i].type = "BLOCK"
                                        /\ queue'[i].status = "PROGRESS"
    <3>1. PICK i \in DOMAIN queue : /\ Holds(t, queue[i].itemnum)
                                    /\ queue[i].type = "BLOCK"
                                    /\ queue[i].status = "PROGRESS"
      BY <2>2 DEF QueueInv, InProgressIsHeld, compvars
    <3>2. i - 1 \in DOMAIN queue' /\ queue'[i - 1] = queue[i]
      BY <1>1, <3>1
    <3> QED BY <3>1, <3>2 DEF Holds, compvars
  <2>3. ASSUME NEW u \in CompThreads, NEW t \in CompThreads, u # t, blknum'[u] # 0
        PROVE  blknum'[u] # blknum'[t]
    BY <2>3 DEF QueueInv, InProgressIsHeld, compvars
  <2> QED BY <2>1, <2>2, <2>3 DEF InProgressIsHeld
<1> QED BY <1>2, <1>3, <1>4, <1>5, <1>6, <1>7 DEF QueueInv

\* queue_get_first_block_todo(): the block gets exactly one owner.
LEMMA TakeStep ==
    ASSUME QueueInv, NEW t \in CompThreads, thread_comp_take(t)
    PROVE  QueueInv'
<1>1. PICK k \in DOMAIN queue :
          /\ queue_get_first_block_todo(k)
          /\ blknum' = [blknum EXCEPT ![t] = queue[k].itemnum]
          /\ blkinfo' = [blkinfo EXCEPT ![t] = queue[k].info]
  BY DEF thread_comp_take
<1>2. /\ queue[k].type = "BLOCK" /\ queue[k].status = "TODO"
      /\ queue' = [queue EXCEPT ![k].status = "PROGRESS"]
      /\ UNCHANGED <<blkcount, itemcount, curitemnum, endofqueue>>
      /\ comppc[t] = "loop" /\ comppc' = [comppc EXCEPT ![t] = "busy"]
  BY <1>1 DEF queue_get_first_block_todo, IsFirstTodo, IsTodo, thread_comp_take
<1>3. /\ queue \in Seq(Item) /\ Len(queue) \in Nat /\ DOMAIN queue = 1 .. Len(queue)
      /\ \A i \in DOMAIN queue : queue[i] \in Item
  BY DEF QueueInv, QueueTypeOK
<1>4. /\ queue' \in Seq(Item) /\ Len(queue') = Len(queue) /\ DOMAIN queue' = DOMAIN queue
      /\ \A i \in DOMAIN queue : i # k => queue'[i] = queue[i]
      /\ queue'[k] = [queue[k] EXCEPT !.status = "PROGRESS"]
  <2>1. [queue[k] EXCEPT !.status = "PROGRESS"] \in Item
    BY <1>3 DEF Item, Status
  <2> QED BY <1>2, <1>3, <2>1
<1>5. /\ queue'[k].status = "PROGRESS"
      /\ queue'[k].type = "BLOCK" /\ queue'[k].itemnum = queue[k].itemnum
  BY <1>2, <1>3, <1>4 DEF Item
<1>6. Updated
  BY <1>2, <1>4, <1>5 DEF Updated
<1>7. queue[k].itemnum \in Nat /\ queue[k].itemnum # 0 /\ queue[k].info \in Info
  <2>1. queue[k].itemnum = curitemnum - Len(queue) + k - 1
    BY DEF QueueInv, ItemsAreConsecutive
  <2>2. Len(queue) < curitemnum /\ curitemnum \in Nat /\ k \in Nat /\ k >= 1
    BY <1>3 DEF QueueInv, QueueTypeOK, NumbersLeft
  <2> QED BY <1>3, <2>1, <2>2 DEF Item
<1>8. /\ blknum'[t] = queue[k].itemnum
      /\ \A u \in CompThreads : u # t => blknum'[u] = blknum[u]
      /\ blknum[t] = 0
  BY <1>1, <1>2 DEF QueueInv, QueueTypeOK, BusyHasBlock
<1>9. ItemsAreConsecutive' /\ CountersMatch' /\ NumbersLeft'
  BY <1>6, UpdatedCounts DEF QueueInv
<1>10. QueueTypeOK'
  BY <1>1, <1>2, <1>4, <1>7 DEF QueueInv, QueueTypeOK, CompPc
<1>11. QueueBounded'
  BY <1>2 DEF QueueInv, QueueBounded
<1>12. HeadersAreDone'
  <2>1. ASSUME NEW i \in DOMAIN queue', queue'[i].type = "HEADER" PROVE queue'[i].status = "DONE"
    <3>1. i # k BY <1>5, <2>1
    <3> QED BY <1>4, <2>1, <3>1 DEF QueueInv, HeadersAreDone
  <2> QED BY <2>1 DEF HeadersAreDone
<1>13. BusyHasBlock'
  BY <1>2, <1>7, <1>8 DEF QueueInv, QueueTypeOK, BusyHasBlock
<1>14. \A i \in DOMAIN queue : i # k => queue[i].itemnum # queue[k].itemnum
  BY DistinctNums DEF QueueInv
<1>15. \A u \in CompThreads : u # t => blknum[u] # queue[k].itemnum
  BY <1>2, <1>7, <1>14 DEF QueueInv, InProgressIsHeld, Holds
<1>16. InProgressIsHeld'
  <2>1. ASSUME NEW i \in DOMAIN queue', queue'[i].status = "PROGRESS"
        PROVE  \E u \in CompThreads : Holds(u, queue[i].itemnum)'
    <3>1. CASE i = k BY <1>5, <1>7, <1>8, <3>1 DEF Holds
    <3>2. CASE i # k
      <4>1. queue'[i] = queue[i] /\ i \in DOMAIN queue BY <1>4, <3>2
      <4>2. PICK u \in CompThreads : Holds(u, queue[i].itemnum)
        BY <2>1, <4>1 DEF QueueInv, InProgressIsHeld
      <4>3. u # t BY <1>8, <4>2 DEF Holds
      <4> QED BY <1>8, <4>1, <4>2, <4>3 DEF Holds
    <3> QED BY <3>1, <3>2
  <2>2. ASSUME NEW u \in CompThreads, blknum'[u] # 0
        PROVE  \E i \in DOMAIN queue' : /\ Holds(u, queue[i].itemnum)'
                                        /\ queue'[i].type = "BLOCK"
                                        /\ queue'[i].status = "PROGRESS"
    <3>1. CASE u = t BY <1>4, <1>5, <1>7, <1>8, <3>1 DEF Holds
    <3>2. CASE u # t
      <4>1. PICK i \in DOMAIN queue : /\ Holds(u, queue[i].itemnum)
                                      /\ queue[i].type = "BLOCK"
                                      /\ queue[i].status = "PROGRESS"
        BY <1>8, <2>2, <3>2 DEF QueueInv, InProgressIsHeld
      <4>2. i # k BY <1>2, <4>1
      <4> QED BY <1>4, <1>8, <3>2, <4>1, <4>2 DEF Holds
    <3> QED BY <3>1, <3>2
  <2>3. ASSUME NEW u \in CompThreads, NEW v \in CompThreads, u # v, blknum'[u] # 0
        PROVE  blknum'[u] # blknum'[v]
    BY <1>7, <1>8, <1>15, <2>3 DEF QueueInv, InProgressIsHeld
  <2> QED BY <2>1, <2>2, <2>3 DEF InProgressIsHeld
<1> QED BY <1>9, <1>10, <1>11, <1>12, <1>13, <1>16 DEF QueueInv

\* queue_replace_block(): the block is still in the queue, it is the one that
\* the thread took, and it has no owner afterwards.
LEMMA PutStep ==
    ASSUME QueueInv, NEW t \in CompThreads, NEW info \in Info, thread_comp_put(t, {info})
    PROVE  QueueInv'
<1>1. /\ comppc[t] = "busy" /\ comppc' = [comppc EXCEPT ![t] = "loop"]
      /\ queue' = [i \in DOMAIN queue |->
                      IF queue[i].itemnum = blknum[t]
                      THEN [queue[i] EXCEPT !.status = "DONE", !.info = info]
                      ELSE queue[i]]
      /\ blknum' = [blknum EXCEPT ![t] = 0]
      /\ blkinfo' = [blkinfo EXCEPT ![t] = NoInfo]
      /\ UNCHANGED <<blkcount, itemcount, curitemnum, endofqueue>>
  BY DEF thread_comp_put, queue_replace_block
<1>2. /\ queue \in Seq(Item) /\ Len(queue) \in Nat /\ DOMAIN queue = 1 .. Len(queue)
      /\ \A i \in DOMAIN queue : queue[i] \in Item
      /\ blknum \in [CompThreads -> Nat]
  BY DEF QueueInv, QueueTypeOK
<1>3. blknum[t] # 0
  BY <1>1 DEF QueueInv, BusyHasBlock
<1>4. ASSUME NEW i \in DOMAIN queue
      PROVE  /\ [queue[i] EXCEPT !.status = "DONE", !.info = info] \in Item
             /\ [queue[i] EXCEPT !.status = "DONE", !.info = info].itemnum = queue[i].itemnum
             /\ [queue[i] EXCEPT !.status = "DONE", !.info = info].type = queue[i].type
             /\ [queue[i] EXCEPT !.status = "DONE", !.info = info].status = "DONE"
  BY <1>2 DEF Item, Status
<1>5. /\ queue' \in Seq(Item) /\ Len(queue') = Len(queue) /\ DOMAIN queue' = DOMAIN queue
  <2>1. \A i \in 1 .. Len(queue) : queue'[i] \in Item BY <1>1, <1>2, <1>4
  <2>2. queue' \in [1 .. Len(queue) -> Item] BY <1>1, <1>2, <2>1
  <2> QED BY <1>2, <2>2
<1>6. ASSUME NEW i \in DOMAIN queue
      PROVE  /\ queue'[i].itemnum = queue[i].itemnum
             /\ queue'[i].type = queue[i].type
             /\ queue[i].itemnum = blknum[t] => queue'[i].status = "DONE"
             /\ queue[i].itemnum # blknum[t] => queue'[i] = queue[i]
  BY <1>1, <1>4
<1>7. Updated
  BY <1>1, <1>5, <1>6 DEF Updated
<1>8. ItemsAreConsecutive' /\ CountersMatch' /\ NumbersLeft'
  BY <1>7, UpdatedCounts DEF QueueInv
<1>9. QueueTypeOK'
  BY <1>1, <1>5 DEF QueueInv, QueueTypeOK, CompPc
<1>10. QueueBounded'
  BY <1>1 DEF QueueInv, QueueBounded
<1>11. HeadersAreDone'
  BY <1>5, <1>6 DEF QueueInv, HeadersAreDone
<1>12. BusyHasBlock'
  BY <1>1, <1>2 DEF QueueInv, QueueTypeOK, BusyHasBlock
<1>13. blknum'[t] = 0 /\ \A u \in CompThreads : u # t => blknum'[u] = blknum[u]
  BY <1>1, <1>2
<1>14. InProgressIsHeld'
  <2>1. ASSUME NEW i \in DOMAIN queue', queue'[i].status = "PROGRESS"
        PROVE  \E u \in CompThreads : Holds(u, queue[i].itemnum)'
    <3>1. i \in DOMAIN queue /\ queue[i].itemnum # blknum[t] /\ queue'[i] = queue[i]
      BY <1>5, <1>6, <2>1
    <3>2. PICK u \in CompThreads : Holds(u, queue[i].itemnum)
      BY <2>1, <3>1 DEF QueueInv, InProgressIsHeld
    <3>3. u # t BY <3>1, <3>2 DEF Holds
    <3> QED BY <1>13, <3>1, <3>2, <3>3 DEF Holds
  <2>2. ASSUME NEW u \in CompThreads, blknum'[u] # 0
        PROVE  \E i \in DOMAIN queue' : /\ Holds(u, queue[i].itemnum)'
                                        /\ queue'[i].type = "BLOCK"
                                        /\ queue'[i].status = "PROGRESS"
    <3>1. u # t /\ blknum'[u] = blknum[u] BY <1>13, <2>2
    <3>2. PICK i \in DOMAIN queue : /\ Holds(u, queue[i].itemnum)
                                    /\ queue[i].type = "BLOCK"
                                    /\ queue[i].status = "PROGRESS"
      BY <2>2, <3>1 DEF QueueInv, InProgressIsHeld
    <3>3. blknum[u] # blknum[t]
      BY <2>2, <3>1 DEF QueueInv, InProgressIsHeld
    <3>4. queue'[i] = queue[i] BY <1>6, <3>2, <3>3 DEF Holds
    <3> QED BY <1>5, <3>1, <3>2, <3>4 DEF Holds
  <2>3. ASSUME NEW u \in CompThreads, NEW v \in CompThreads, u # v, blknum'[u] # 0
        PROVE  blknum'[u] # blknum'[v]
    BY <1>13, <2>3 DEF QueueInv, InProgressIsHeld
  <2> QED BY <2>1, <2>2, <2>3 DEF InProgressIsHeld
<1> QED BY <1>8, <1>9, <1>10, <1>11, <1>12, <1>14 DEF QueueInv

\* A step of a compression thread, or of the end of the queue, that leaves
\* the items and the numbers of the blocks alone.
LEMMA PcStep ==
    ASSUME QueueInv, UNCHANGED <<queue, blkcount, itemcount, curitemnum, blknum, blkinfo>>,
           endofqueue' \in BOOLEAN, comppc' \in [CompThreads -> CompPc], BusyHasBlock'
    PROVE  QueueInv'
<1>1. QueueTypeOK' BY DEF QueueInv, QueueTypeOK
<1>2. ItemsAreConsecutive' /\ CountersMatch' /\ NumbersLeft' /\ QueueBounded' /\ HeadersAreDone'
  BY DEF QueueInv, ItemsAreConsecutive, CountersMatch, BlockNums, NumbersLeft, QueueBounded,
         HeadersAreDone
<1>3. InProgressIsHeld' BY DEF QueueInv, InProgressIsHeld, Holds
<1> QED BY <1>1, <1>2, <1>3 DEF QueueInv

-----------------------------------------------------------------------------
(* The invariant *)

\* queue_init() leaves an empty queue, which satisfies the invariant.
LEMMA InitInv == QInit => QueueInv
<1> SUFFICES ASSUME QInit PROVE QueueInv OBVIOUS
<1> USE DEF QInit, ThreadsInit, queue_init
<1>1. QueueTypeOK
  <2>1. queue \in Seq(Item) OBVIOUS
  <2>5. blkcount \in Nat /\ itemcount \in Nat /\ curitemnum \in Nat \ {0} OBVIOUS
  <2>6. endofqueue \in BOOLEAN OBVIOUS
  <2>2. comppc \in [CompThreads -> CompPc] BY DEF CompPc
  <2>3. blknum \in [CompThreads -> Nat] OBVIOUS
  <2>4. blkinfo \in [CompThreads -> Info \cup {NoInfo}] OBVIOUS
  <2> QED BY <2>1, <2>2, <2>3, <2>4, <2>5, <2>6 DEF QueueTypeOK
<1>2. BlockNums = {} BY DEF BlockNums
<1>3. CountersMatch BY <1>2, FS_EmptySet DEF CountersMatch
<1>4. NumbersLeft /\ ItemsAreConsecutive /\ HeadersAreDone
  BY DEF NumbersLeft, ItemsAreConsecutive, HeadersAreDone
<1>5. QueueBounded BY QueueAssumption DEF QueueBounded
<1>6. BusyHasBlock BY DEF BusyHasBlock
<1>7. InProgressIsHeld BY DEF InProgressIsHeld
<1> QED BY <1>1, <1>3, <1>4, <1>5, <1>6, <1>7 DEF QueueInv

\* One step of any client of the queue.
LEMMA NextInv == QueueInv /\ [QNext]_qvars => QueueInv'
<1> SUFFICES ASSUME QueueInv, [QNext]_qvars PROVE QueueInv' OBVIOUS
<1>1. CASE UNCHANGED qvars
  <2>1. UNCHANGED <<queue, blkcount, itemcount, curitemnum, endofqueue, comppc, blknum, blkinfo>>
    BY <1>1 DEF qvars, queuevars, compvars
  <2>2. endofqueue' \in BOOLEAN /\ comppc' \in [CompThreads -> CompPc] /\ BusyHasBlock'
    BY <2>1 DEF QueueInv, QueueTypeOK, BusyHasBlock
  <2> QED BY <2>1, <2>2, PcStep
<1>2. CASE Fill
  <2>1. ASSUME NEW info \in Info, NEW status \in {"TODO", "DONE"},
               queue_add_block(info, status), UNCHANGED compvars
        PROVE  QueueInv'
    <3> DEFINE item == [type |-> "BLOCK", status |-> status, itemnum |-> curitemnum, info |-> info]
    <3>1. Added(item)
      BY <2>1 DEF queue_add_block, Added, Item, Status, QueueInv, QueueTypeOK
    <3>2. item.status # "PROGRESS" /\ item.type # "HEADER" OBVIOUS
    <3>3. queue_not_full BY <2>1 DEF queue_add_block
    <3> HIDE DEF item
    <3> QED BY <2>1, <3>1, <3>2, <3>3, AddStep
  <2>2. ASSUME NEW info \in Info, queue_add_header(info), UNCHANGED compvars
        PROVE  QueueInv'
    <3> DEFINE item == [type |-> "HEADER", status |-> "DONE", itemnum |-> curitemnum, info |-> info]
    <3>1. Added(item)
      BY <2>2 DEF queue_add_header, Added, Item, Status, QueueInv, QueueTypeOK
    <3>2. item.status = "DONE" OBVIOUS
    <3>3. queue_not_full BY <2>2 DEF queue_add_header
    <3> HIDE DEF item
    <3> QED BY <2>2, <3>1, <3>2, <3>3, AddStep
  <2>3. ASSUME queue_set_end_of_queue, UNCHANGED compvars PROVE QueueInv'
    <3>1. /\ UNCHANGED <<queue, blkcount, itemcount, curitemnum, comppc, blknum, blkinfo>>
          /\ endofqueue' \in BOOLEAN
      BY <2>3 DEF queue_set_end_of_queue, compvars
    <3>2. comppc' \in [CompThreads -> CompPc] /\ BusyHasBlock'
      BY <3>1 DEF QueueInv, QueueTypeOK, BusyHasBlock
    <3> QED BY <3>1, <3>2, PcStep
  <2> QED BY <1>2, <2>1, <2>2, <2>3 DEF Fill
<1>3. CASE Empty
  <2>1. queue # <<>> /\ queue[1].status # "PROGRESS" /\ RemoveHead /\ UNCHANGED compvars
    BY <1>3 DEF Empty, queue_dequeue_first, queue_dequeue_block, queue_dequeue_header,
                queue_destroy_first_item, HeadReady
  <2> QED BY <2>1, RemoveStep
<1>4. ASSUME NEW t \in CompThreads, Work(t) PROVE QueueInv'
  <2>1. CASE thread_comp_take(t) BY <2>1, TakeStep
  <2>2. ASSUME NEW info \in Info, thread_comp_put(t, {info}) PROVE QueueInv'
    BY <2>2, PutStep
  <2>3. CASE \/ create_comp(t) \/ thread_comp_start(t)
             \/ thread_comp_error(t) \/ thread_comp_exit(t)
    <3>1. PICK pc \in CompPc :
            /\ comppc' = [comppc EXCEPT ![t] = pc]
            /\ comppc[t] # pc
            /\ pc \in {"created", "loop", "exited"}
            /\ pc \in {"created", "loop"} => comppc[t] \in {"none", "created"}
      BY <2>3 DEF create_comp, thread_comp_start, thread_comp_error, thread_comp_exit, CompPc
    <3>2. UNCHANGED <<queue, blkcount, itemcount, curitemnum, endofqueue, blknum, blkinfo>>
      BY <2>3 DEF create_comp, thread_comp_start, thread_comp_error, thread_comp_exit, queuevars
    <3>3. endofqueue' \in BOOLEAN /\ comppc' \in [CompThreads -> CompPc]
      BY <3>1, <3>2 DEF QueueInv, QueueTypeOK
    <3>4. BusyHasBlock'
      BY <3>1, <3>2 DEF QueueInv, QueueTypeOK, BusyHasBlock
    <3> QED BY <3>2, <3>3, <3>4, PcStep
  <2> QED BY <1>4, <2>1, <2>2, <2>3 DEF Work
<1> QED BY <1>1, <1>2, <1>3, <1>4 DEF QNext

\* For every limit of the queue and every set of threads: the queue of every
\* client satisfies the inductive invariant.
THEOREM QueueCorrect == QSpec => []QueueInv
<1>1. QInit => QueueInv BY InitInv
<1>2. QueueInv /\ [QNext]_qvars => QueueInv' BY NextInv
<1> QED BY <1>1, <1>2, PTL DEF QSpec

\* Every variable of the queue and of the compression threads keeps its type;
\* in particular the u64 counters blkcount and itemcount never go below zero,
\* whichever functions of queue.c are called and in whatever order.
THEOREM TypeCorrect == QSpec => []QueueTypeOK
BY QueueCorrect, PTL DEF QueueInv

\* blkcount and itemcount always say what is in the list, so the waiting in
\* queue_add_block() and the answer of queue_get_end_of_queue() are right.
THEOREM CountersAreExact == QSpec => []CountersMatch
BY QueueCorrect, PTL DEF QueueInv

\* The loop on blkcount > blkmax in queue_add_block() bounds the memory held
\* by the queue: there are never more than blkmax + 1 blocks in it.
THEOREM LimitHolds == QSpec => []QueueBounded
BY QueueCorrect, PTL DEF QueueInv

\* A block that queue_get_first_block_todo() has given to a thread stays in
\* the queue and belongs to that one thread until queue_replace_block().
THEOREM BlocksHaveOneOwner == QSpec => []InProgressIsHeld
BY QueueCorrect, PTL DEF QueueInv

\* queue_add_block() and queue_add_header() refuse to add after the end, so
\* the end of the queue is final.
THEOREM EndIsFinal == QSpec => EndOfQueueIsFinal
<1>1. QueueInv /\ [QNext]_qvars => [queue_get_end_of_queue => queue_get_end_of_queue']_queuevars
  <2> SUFFICES ASSUME QueueInv, [QNext]_qvars, queue_get_end_of_queue
               PROVE  queue_get_end_of_queue'
    OBVIOUS
  <2>1. itemcount \in Nat /\ itemcount < 1 /\ endofqueue = TRUE /\ Len(queue) = 0 /\ queue = <<>>
    BY DEF QueueInv, QueueTypeOK, CountersMatch, queue_get_end_of_queue
  <2>2. CASE UNCHANGED qvars
    BY <2>1, <2>2 DEF qvars, queuevars, queue_get_end_of_queue
  <2>3. CASE Fill
    <3>1. queue_set_end_of_queue
      BY <2>1, <2>3 DEF Fill, queue_add_block, queue_add_header
    <3> QED BY <2>1, <3>1 DEF queue_set_end_of_queue, queue_get_end_of_queue
  <2>4. CASE Empty
    BY <2>1, <2>4 DEF Empty, queue_dequeue_first, queue_dequeue_block, queue_dequeue_header,
                      queue_destroy_first_item, HeadReady
  <2>5. ASSUME NEW t \in CompThreads, Work(t) PROVE queue_get_end_of_queue'
    <3>1. UNCHANGED <<itemcount, endofqueue>>
      BY <2>5 DEF Work, create_comp, thread_comp_start, thread_comp_take, thread_comp_put,
                  thread_comp_error, thread_comp_exit, queue_get_first_block_todo,
                  queue_replace_block, queuevars
    <3> QED BY <2>1, <3>1 DEF queue_get_end_of_queue
  <2> QED BY <2>2, <2>3, <2>4, <2>5 DEF QNext
<1> QED BY <1>1, QueueCorrect, PTL DEF QSpec, EndOfQueueIsFinal

\* What a step may do to an item that stays in the queue: the action of
\* ProcessedOnce.
ItemStep(i, j) ==
    /\ queue'[j].type = queue[i].type
    /\ queue[i].status = "DONE" => queue'[j] = queue[i]
    /\ queue[i].status = "PROGRESS" => queue'[j].status # "TODO"

\* The search by number of queue_replace_block() and the statuses protect the
\* work of one thread from all others: each block is processed once.
THEOREM EachBlockOnce == QSpec => ProcessedOnce
<1>1. ASSUME QueueInv, [QNext]_qvars, NEW i \in DOMAIN queue, NEW j \in DOMAIN queue',
             queue[i].itemnum = queue'[j].itemnum
      PROVE  ItemStep(i, j)
  <2>0. /\ QueueTypeOK /\ ItemsAreConsecutive /\ queue \in Seq(Item)
        /\ DOMAIN queue = 1 .. Len(queue) /\ Len(queue) \in Nat
    BY <1>1 DEF QueueInv, QueueTypeOK
  <2>1. ASSUME j \in DOMAIN queue, queue'[j] = queue[j] PROVE ItemStep(i, j)
    <3>1. i = j BY <1>1, <2>0, <2>1, DistinctNums
    <3>2. queue'[j] = queue[i] BY <2>1, <3>1
    <3>3. queue[i].status = "PROGRESS" => queue'[j].status # "TODO" BY <3>2
    <3> QED BY <3>2, <3>3 DEF ItemStep
  <2>2. CASE UNCHANGED qvars
    BY <2>1, <2>2 DEF qvars, queuevars
  <2>3. ASSUME NEW item, item \in Item, item.itemnum = curitemnum, queue' = Append(queue, item)
        PROVE  ItemStep(i, j)
    <3>1. /\ DOMAIN queue' = 1 .. Len(queue) + 1
          /\ \A k \in 1 .. Len(queue) : queue'[k] = queue[k]
          /\ queue'[Len(queue) + 1] = item
      BY <2>0, <2>3, AppendShape
    <3>2. j # Len(queue) + 1
      <4>1. queue[i].itemnum = curitemnum - Len(queue) + i - 1 BY <2>0 DEF ItemsAreConsecutive
      <4>2. i \in Nat /\ i <= Len(queue) /\ curitemnum \in Nat BY <2>0 DEF QueueTypeOK
      <4>3. queue[i].itemnum # curitemnum BY <2>0, <4>1, <4>2
      <4> QED BY <1>1, <2>3, <3>1, <4>3
    <3>3. j \in DOMAIN queue /\ queue'[j] = queue[j] BY <2>0, <3>1, <3>2
    <3> QED BY <2>1, <3>3
  <2>4. CASE Fill
    <3>1. CASE queue' = queue BY <2>1, <3>1
    <3>2. ASSUME NEW info \in Info, NEW status \in {"TODO", "DONE"}, queue_add_block(info, status)
          PROVE  ItemStep(i, j)
      <4> DEFINE item == [type |-> "BLOCK", status |-> status, itemnum |-> curitemnum, info |-> info]
      <4>1. item \in Item /\ item.itemnum = curitemnum /\ queue' = Append(queue, item)
        BY <2>0, <3>2 DEF queue_add_block, Item, Status, QueueTypeOK
      <4> HIDE DEF item
      <4> QED BY <2>3, <4>1
    <3>3. ASSUME NEW info \in Info, queue_add_header(info) PROVE ItemStep(i, j)
      <4> DEFINE item == [type |-> "HEADER", status |-> "DONE", itemnum |-> curitemnum, info |-> info]
      <4>1. item \in Item /\ item.itemnum = curitemnum /\ queue' = Append(queue, item)
        BY <2>0, <3>3 DEF queue_add_header, Item, Status, QueueTypeOK
      <4> HIDE DEF item
      <4> QED BY <2>3, <4>1
    <3> QED BY <2>4, <3>1, <3>2, <3>3 DEF Fill, queue_set_end_of_queue
  <2>5. CASE Empty
    <3>1. queue # <<>> /\ queue' = Tail(queue)
      BY <2>5 DEF Empty, queue_dequeue_first, queue_dequeue_block, queue_dequeue_header,
                  queue_destroy_first_item, HeadReady, RemoveHead
    <3>2. j + 1 \in DOMAIN queue /\ queue'[j] = queue[j + 1] BY <2>0, <3>1, TailShape
    <3>3. i = j + 1 BY <1>1, <2>0, <3>2, DistinctNums
    <3>4. queue'[j] = queue[i] BY <3>2, <3>3
    <3>5. queue[i].status = "PROGRESS" => queue'[j].status # "TODO" BY <3>4
    <3> QED BY <3>4, <3>5 DEF ItemStep
  <2>6. ASSUME NEW t \in CompThreads, thread_comp_take(t) PROVE ItemStep(i, j)
    <3>1. PICK k \in DOMAIN queue : /\ queue[k].status = "TODO"
                                    /\ queue' = [queue EXCEPT ![k].status = "PROGRESS"]
      BY <2>6 DEF thread_comp_take, queue_get_first_block_todo, IsFirstTodo, IsTodo
    <3>2. j \in DOMAIN queue /\ (j # k => queue'[j] = queue[j]) BY <2>0, <3>1
    <3>3. CASE j = k
      <4>1. queue[k] \in Item BY <2>0
      <4>2. /\ queue'[k].itemnum = queue[k].itemnum /\ queue'[k].type = queue[k].type
            /\ queue'[k].status = "PROGRESS"
        BY <2>0, <3>1, <4>1 DEF Item
      <4>3. i = k BY <1>1, <2>0, <3>3, <4>2, DistinctNums
      <4> QED BY <3>1, <3>3, <4>2, <4>3 DEF ItemStep
    <3> QED BY <2>1, <3>2, <3>3
  <2>7. ASSUME NEW t \in CompThreads, NEW info \in Info, thread_comp_put(t, {info})
        PROVE  ItemStep(i, j)
    <3>1. /\ queue' = [k \in DOMAIN queue |->
                          IF queue[k].itemnum = blknum[t]
                          THEN [queue[k] EXCEPT !.status = "DONE", !.info = info]
                          ELSE queue[k]]
          /\ comppc[t] = "busy"
      BY <2>7 DEF thread_comp_put, queue_replace_block
    <3>0. DOMAIN queue' = DOMAIN queue BY <3>1
    <3>2. j \in DOMAIN queue /\ queue[j] \in Item BY <2>0, <3>0
    <3>3. CASE queue[j].itemnum # blknum[t] BY <2>1, <3>1, <3>2, <3>3
    <3>4. CASE queue[j].itemnum = blknum[t]
      <4>1. queue'[j] = [queue[j] EXCEPT !.status = "DONE", !.info = info] BY <3>1, <3>2, <3>4
      <4>2. /\ queue'[j].itemnum = queue[j].itemnum /\ queue'[j].type = queue[j].type
            /\ queue'[j].status = "DONE"
        BY <3>2, <4>1 DEF Item
      <4>3. i = j BY <1>1, <2>0, <3>2, <4>2, DistinctNums
      <4>4. PICK k \in DOMAIN queue : Holds(t, queue[k].itemnum) /\ queue[k].status = "PROGRESS"
        BY <1>1, <3>1 DEF QueueInv, BusyHasBlock, InProgressIsHeld
      <4>5. k = j BY <2>0, <3>2, <3>4, <4>4, DistinctNums DEF Holds
      <4> QED BY <4>2, <4>3, <4>4, <4>5 DEF ItemStep
    <3> QED BY <3>3, <3>4
  <2>8. ASSUME NEW t \in CompThreads, Work(t) PROVE ItemStep(i, j)
    <3>1. CASE queue' = queue BY <2>1, <3>1
    <3> QED BY <2>6, <2>7, <2>8, <3>1 DEF Work, create_comp, thread_comp_start,
                thread_comp_error, thread_comp_exit, queuevars
  <2> QED BY <1>1, <2>2, <2>4, <2>5, <2>8 DEF QNext
<1>2. QueueInv /\ [QNext]_qvars =>
        [\A i \in DOMAIN queue : \A j \in DOMAIN queue' :
            queue[i].itemnum = queue'[j].itemnum =>
               /\ queue'[j].type = queue[i].type
               /\ queue[i].status = "DONE" => queue'[j] = queue[i]
               /\ queue[i].status = "PROGRESS" => queue'[j].status # "TODO"]_queuevars
  BY <1>1 DEF ItemStep
<1> QED BY <1>2, QueueCorrect, PTL DEF QSpec, ProcessedOnce

=============================================================================
