------------------------------ MODULE Threads ------------------------------
(***************************************************************************)
(* What the two pipelines of fsarchiver share: the global flags of          *)
(* syncthread.c and the compression / decompression threads of              *)
(* thread_comp.c, which sit in the middle of the queue.                     *)
(*                                                                         *)
(* Info is a set of records, what is said of a blkinfo and a headinfo:      *)
(*    magic : of a header its magic, of a block "BLKH"                       *)
(*    fsid  : the file system it belongs to, 0 for FSA_FILESYSID_NULL        *)
(*    obj   : the object (file, directory...) it belongs to, 0 for none      *)
(*    off   : position of a block in its file, of a small file in its group  *)
(*    cnt   : how many blocks the file has, or how many files the group has  *)
(*    form  : of a block "clear", "packed" (compressed and encrypted) or     *)
(*            "zeroed" (its contents are lost); of the header of an object   *)
(*            its kind: "node", "unique" or "multi"; "head" otherwise        *)
(***************************************************************************)
EXTENDS Queue, FiniteSets

CONSTANTS
    CompThreads     \* the threads of option -j

VARIABLES
    stopfillqueue,  \* g_stopfillqueue
    aborted,        \* a SIGINT or SIGTERM is pending, or has been seen
    secthreads,     \* g_secthreads
    comppc,         \* where each compression thread is
    blknum,         \* the item a compression thread works on, 0 for none
    blkinfo         \* its private copy of that block

syncvars == <<stopfillqueue, aborted, secthreads>>
compvars == <<comppc, blknum, blkinfo>>

CompPc == {"none", "created", "loop", "busy", "exited"}

Header(magic, fsid, obj, off, cnt, form) ==
    [magic |-> magic, fsid |-> fsid, obj |-> obj, off |-> off, cnt |-> cnt, form |-> form]

Block(fsid, obj, off) == Header("BLKH", fsid, obj, off, 0, "clear")

NoInfo == Header("none", 0, 0, 0, 0, "head")

ThreadsInit ==
    /\ queue_init
    /\ stopfillqueue = FALSE
    /\ aborted = FALSE
    /\ secthreads = 0
    /\ comppc = [t \in CompThreads |-> "none"]
    /\ blknum = [t \in CompThreads |-> 0]
    /\ blkinfo = [t \in CompThreads |-> NoInfo]

-----------------------------------------------------------------------------
(* syncthread.c *)

get_interrupted == aborted \/ stopfillqueue

set_stopfillqueue == stopfillqueue' = TRUE /\ UNCHANGED <<aborted, secthreads>>

inc_secthreads == secthreads' = secthreads + 1 /\ UNCHANGED <<stopfillqueue, aborted>>

dec_secthreads == secthreads' = secthreads - 1 /\ UNCHANGED <<stopfillqueue, aborted>>

\* The user presses Ctrl+C.  The signal is blocked and stays pending: the
\* main thread notices it at its next call of get_abort().
Signal ==
    /\ ~aborted
    /\ aborted' = TRUE
    /\ UNCHANGED <<queuevars, stopfillqueue, secthreads, compvars>>

-----------------------------------------------------------------------------
(* thread_comp.c *)

\* What compress_block_generic can make of a block: a block that does not
\* shrink is stored as it is, which is still a form the archive can hold.
compress_block_generic(info) == {[info EXCEPT !.form = "packed"]}

\* What decompress_block_generic can make of a block: a block whose
\* decompression fails is filled with zeros.
decompress_block_generic(info) ==
    {[info EXCEPT !.form = "clear"], [info EXCEPT !.form = "zeroed"]}

\* Faulty variant: the thread forgets to count itself.
thread_comp_start_NotCounted(t) ==
    /\ comppc[t] = "created"
    /\ comppc' = [comppc EXCEPT ![t] = "loop"]
    /\ UNCHANGED <<queuevars, syncvars, blknum, blkinfo>>

thread_comp_start(t) ==
    /\ comppc[t] = "created"
    /\ comppc' = [comppc EXCEPT ![t] = "loop"]
    /\ inc_secthreads
    /\ UNCHANGED <<queuevars, blknum, blkinfo>>

thread_comp_take(t) ==
    /\ comppc[t] = "loop"
    /\ \E i \in DOMAIN queue :
          /\ queue_get_first_block_todo(i)
          /\ blknum' = [blknum EXCEPT ![t] = queue[i].itemnum]
          /\ blkinfo' = [blkinfo EXCEPT ![t] = queue[i].info]
    /\ comppc' = [comppc EXCEPT ![t] = "busy"]
    /\ UNCHANGED syncvars

\* The block is processed outside the mutex and then put back as DONE.
thread_comp_put(t, results) ==
    /\ comppc[t] = "busy"
    /\ \E info \in results : queue_replace_block(blknum[t], info, "DONE")
    /\ comppc' = [comppc EXCEPT ![t] = "loop"]
    /\ blknum' = [blknum EXCEPT ![t] = 0]
    /\ blkinfo' = [blkinfo EXCEPT ![t] = NoInfo]
    /\ UNCHANGED syncvars

\* The block cannot be processed (out of memory, unsupported algorithm,
\* encryption failure).  The label thread_comp_fct_error reads the flag
\* g_stopfillqueue, does not set it, and the block stays in PROGRESS.
thread_comp_error(t) ==
    /\ comppc[t] = "busy"
    /\ comppc' = [comppc EXCEPT ![t] = "exited"]
    /\ dec_secthreads
    /\ UNCHANGED <<queuevars, blknum, blkinfo>>

thread_comp_exit(t) ==
    /\ comppc[t] = "loop"
    /\ queue_get_end_of_queue
    /\ comppc' = [comppc EXCEPT ![t] = "exited"]
    /\ dec_secthreads
    /\ UNCHANGED <<queuevars, blknum, blkinfo>>

-----------------------------------------------------------------------------
(* Properties of the queue, whichever threads use it *)

QueueTypeOK ==
    /\ queue \in Seq(Item)
    /\ blkcount \in Nat
    /\ itemcount \in Nat
    /\ curitemnum \in Nat \ {0}
    /\ endofqueue \in BOOLEAN
    /\ comppc \in [CompThreads -> CompPc]
    /\ blknum \in [CompThreads -> Nat]
    /\ blkinfo \in [CompThreads -> Info \cup {NoInfo}]

ThreadsTypeOK ==
    /\ QueueTypeOK
    /\ stopfillqueue \in BOOLEAN
    /\ aborted \in BOOLEAN
    /\ secthreads \in Nat

Holds(t, num) == blknum[t] = num /\ num # 0

\* The items in the queue are numbered one after the other up to the last
\* number given: the search by number of queue_replace_block finds the block
\* the caller took and no other, and an item is lost only at the head.
ItemsAreConsecutive ==
    \A i \in DOMAIN queue : queue[i].itemnum = curitemnum - Len(queue) + i - 1

\* A block is in PROGRESS exactly while some compression thread holds a copy
\* of it, whose blkdata pointer the item shares, and only one thread does: no
\* reader of the queue has dequeued or freed a block under a thread.
InProgressIsHeld ==
    /\ \A i \in DOMAIN queue :
          queue[i].status = "PROGRESS" =>
             \E t \in CompThreads : Holds(t, queue[i].itemnum)
    /\ \A t \in CompThreads : blknum[t] # 0 =>
          \E i \in DOMAIN queue : /\ Holds(t, queue[i].itemnum)
                                  /\ queue[i].type = "BLOCK"
                                  /\ queue[i].status = "PROGRESS"
    /\ \A s, t \in CompThreads :
          s # t /\ blknum[s] # 0 => blknum[s] # blknum[t]

BlockNums == {queue[i].itemnum : i \in {j \in DOMAIN queue : queue[j].type = "BLOCK"}}

\* The two counters of the queue, on which its limit and its end depend, say
\* what is in it: they are u64 and a wrong one would never be corrected.
CountersMatch ==
    /\ itemcount = Len(queue)
    /\ blkcount = Cardinality(BlockNums)

\* The limit that the code enforces: a block is added while blkcount is not
\* above blkmax, so the queue holds one block more than blkmax at most.
QueueBounded == blkcount <= blkmax + 1

\* The end of the queue is final: a thread that has seen it never misses an
\* item that comes later.
EndOfQueueIsFinal == [][queue_get_end_of_queue => queue_get_end_of_queue']_queuevars

\* A block is processed once: what is DONE is never touched again, what a
\* thread is working on does not become available to another one, and nothing
\* but its status and contents ever changes while it is in the queue.
ProcessedOnce ==
    [][\A i \in DOMAIN queue : \A j \in DOMAIN queue' :
          queue[i].itemnum = queue'[j].itemnum =>
             /\ queue'[j].type = queue[i].type
             /\ queue[i].status = "DONE" => queue'[j] = queue[i]
             /\ queue[i].status = "PROGRESS" => queue'[j].status # "TODO"]_queuevars

=============================================================================
