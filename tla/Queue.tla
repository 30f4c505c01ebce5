------------------------------- MODULE Queue -------------------------------
(***************************************************************************)
(* The queue of queue.c: the linked list of headers and data blocks that    *)
(* connects the main thread, the compression threads and the archive-io     *)
(* thread.  Every function of queue.c runs under q->mutex, so each one is   *)
(* an atomic action on the variables below.  A function that waits does so  *)
(* in a loop around a one second pthread_cond_timedwait and evaluates its   *)
(* condition again: the loop condition is the guard of the action.          *)
(*                                                                         *)
(* The only thread that adds items is also the only one that sets           *)
(* endofqueue (the main thread when saving, the reader thread when          *)
(* restoring), so the test of endofqueue that queue_add_block makes before  *)
(* its wait still holds after it and both fit in one action.                *)
(***************************************************************************)
EXTENDS Integers, Sequences

CONSTANTS
    Info,       \* what a blkinfo or a headinfo can hold
    blkmax      \* q->blkmax: FSA_MAX_QUEUESIZE in main()

ASSUME QueueAssumption == blkmax \in Nat

VARIABLES
    queue,      \* q->head and the list behind it
    blkcount,   \* number of blocks the queue says it holds
    itemcount,  \* number of items the queue says it holds
    curitemnum, \* number the next item will get
    endofqueue  \* nothing will be added any more

queuevars == <<queue, blkcount, itemcount, curitemnum, endofqueue>>

Status == {"TODO", "PROGRESS", "DONE"}

Item == [type: {"BLOCK", "HEADER"}, status: Status, itemnum: Nat, info: Info]

queue_init ==
    /\ queue = <<>>
    /\ blkcount = 0
    /\ itemcount = 0
    /\ curitemnum = 1
    /\ endofqueue = FALSE

-----------------------------------------------------------------------------
(* Observers *)

\* Faulty variant: the items still in the queue are forgotten.
queue_get_end_of_queue_FlagOnly == endofqueue

\* The end of the queue as its readers see it: nothing left, nothing to come.
queue_get_end_of_queue == itemcount < 1 /\ endofqueue

queue_count == itemcount

\* Faulty variant: a block that another thread works on is taken again.
IsTodo_NotDone(i) == queue[i].type = "BLOCK" /\ queue[i].status # "DONE"

IsTodo(i) == queue[i].type = "BLOCK" /\ queue[i].status = "TODO"

IsFirstTodo(i) == IsTodo(i) /\ \A j \in 1 .. i - 1 : ~IsTodo(j)

queue_has_items_todo ==
    \E i \in DOMAIN queue : queue[i].type = "BLOCK" /\ queue[i].status # "DONE"

\* The first item may leave the queue towards the reader of the queue.
HeadReady == queue # <<>> /\ queue[1].status = "DONE"

-----------------------------------------------------------------------------
(* Operations of the thread that fills the queue *)

queue_not_full == blkcount <= blkmax

\* The test of endofqueue comes before the wait (queue.c:213 and 288) and is not
\* repeated after it.  In one action with the wait it is the same test, because
\* endofqueue is set by the thread that waits here and by no other.
queue_add_block(info, status) ==
    /\ ~endofqueue
    /\ queue_not_full
    /\ queue' = Append(queue, [type |-> "BLOCK", status |-> status,
                               itemnum |-> curitemnum, info |-> info])
    /\ blkcount' = blkcount + 1
    /\ itemcount' = itemcount + 1
    /\ curitemnum' = curitemnum + 1
    /\ UNCHANGED endofqueue

\* Faulty variant: the number is not used up.
queue_add_header_SameNumber(info) ==
    /\ ~endofqueue
    /\ queue_not_full
    /\ queue' = Append(queue, [type |-> "HEADER", status |-> "DONE",
                               itemnum |-> curitemnum, info |-> info])
    /\ itemcount' = itemcount + 1
    /\ UNCHANGED <<blkcount, curitemnum, endofqueue>>

\* Faulty variant: an item is accepted after the end of the queue.
queue_add_header_AfterEnd(info) ==
    /\ queue_not_full
    /\ queue' = Append(queue, [type |-> "HEADER", status |-> "DONE",
                               itemnum |-> curitemnum, info |-> info])
    /\ itemcount' = itemcount + 1
    /\ curitemnum' = curitemnum + 1
    /\ UNCHANGED <<blkcount, endofqueue>>

queue_add_header(info) ==
    /\ ~endofqueue
    /\ queue_not_full
    /\ queue' = Append(queue, [type |-> "HEADER", status |-> "DONE",
                               itemnum |-> curitemnum, info |-> info])
    /\ itemcount' = itemcount + 1
    /\ curitemnum' = curitemnum + 1
    /\ UNCHANGED <<blkcount, endofqueue>>

queue_set_end_of_queue ==
    /\ endofqueue' = TRUE
    /\ UNCHANGED <<queue, blkcount, itemcount, curitemnum>>

-----------------------------------------------------------------------------
(* Operations of the compression threads *)

\* Marks block i, the first one nobody has taken, as being processed.
queue_get_first_block_todo(i) ==
    /\ i \in DOMAIN queue
    /\ IsFirstTodo(i)
    /\ queue' = [queue EXCEPT ![i].status = "PROGRESS"]
    /\ UNCHANGED <<blkcount, itemcount, curitemnum, endofqueue>>

\* Stores the processed block; FSAERR_ENOENT, and no change, if it has gone.
queue_replace_block(num, info, newstatus) ==
    /\ queue' = [i \in DOMAIN queue |->
                    IF queue[i].itemnum = num
                    THEN [queue[i] EXCEPT !.status = newstatus, !.info = info]
                    ELSE queue[i]]
    /\ UNCHANGED <<blkcount, itemcount, curitemnum, endofqueue>>

-----------------------------------------------------------------------------
(* Operations of the thread that empties the queue *)

RemoveHead ==
    /\ queue' = Tail(queue)
    /\ blkcount' = IF queue[1].type = "BLOCK" THEN blkcount - 1 ELSE blkcount
    /\ itemcount' = itemcount - 1
    /\ UNCHANGED <<curitemnum, endofqueue>>

\* Faulty variants: the item is taken before it has been processed.
queue_dequeue_first_NotReady == queue # <<>> /\ queue[1].status # "PROGRESS" /\ RemoveHead
queue_dequeue_block_NotReady ==
    queue # <<>> /\ queue[1].status # "PROGRESS" /\ queue[1].type = "BLOCK" /\ RemoveHead

queue_dequeue_first ==
    /\ HeadReady
    /\ RemoveHead

queue_dequeue_block ==
    /\ HeadReady
    /\ queue[1].type = "BLOCK"
    /\ RemoveHead

queue_dequeue_header ==
    /\ HeadReady
    /\ queue[1].type = "HEADER"
    /\ RemoveHead

\* Drops the first item unless a compression thread is working on it.
queue_destroy_first_item ==
    /\ queue # <<>>
    /\ queue[1].status # "PROGRESS"
    /\ RemoveHead

=============================================================================
