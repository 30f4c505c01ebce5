--------------------------- MODULE QueueProtocol ---------------------------
(***************************************************************************)
(* The queue under its most general client: any thread may fill it, close   *)
(* it, take from it or empty it at any time, next to the compression        *)
(* threads.  What holds here holds for savefs, savedir, restfs, restdir and *)
(* archinfo alike, whatever order their threads call queue.c in: it rests   *)
(* on the functions of queue.c and thread_comp.c alone.                     *)
(***************************************************************************)
EXTENDS Threads

qvars == <<queuevars, compvars>>

QInit == ThreadsInit

\* pthread_create() of a compression thread
create_comp(t) ==
    /\ comppc[t] = "none"
    /\ comppc' = [comppc EXCEPT ![t] = "created"]
    /\ UNCHANGED <<queuevars, syncvars, blknum, blkinfo>>

\* The thread at one end of the queue: the main thread when saving, the
\* reader thread when restoring.
Fill ==
    /\ \/ \E info \in Info : \E status \in {"TODO", "DONE"} : queue_add_block(info, status)
       \/ \E info \in Info : queue_add_header(info)
       \/ queue_set_end_of_queue
    /\ UNCHANGED <<syncvars, compvars>>

\* The thread at the other end
Empty ==
    /\ \/ queue_dequeue_first
       \/ queue_dequeue_block
       \/ queue_dequeue_header
       \/ queue_destroy_first_item
    /\ UNCHANGED <<syncvars, compvars>>

Work(t) ==
    \/ create_comp(t)
    \/ thread_comp_start(t)
    \/ thread_comp_take(t)
    \/ \E info \in Info : thread_comp_put(t, {info})
    \/ thread_comp_error(t)
    \/ thread_comp_exit(t)

QNext == Fill \/ Empty \/ (\E t \in CompThreads : Work(t))

QSpec == QInit /\ [][QNext]_qvars

-----------------------------------------------------------------------------
(* The inductive invariant *)

\* Headers need no processing.
HeadersAreDone == \A i \in DOMAIN queue : queue[i].type = "HEADER" => queue[i].status = "DONE"

\* A thread that works on a block knows its number, and a thread that does
\* not has none, except one that gave up in the middle of it.
BusyHasBlock ==
    \A t \in CompThreads :
       /\ comppc[t] = "busy" => blknum[t] # 0
       /\ comppc[t] \in {"none", "created", "loop"} => blknum[t] = 0

NumbersLeft == Len(queue) < curitemnum

\* Everything the correctness of the queue rests on, at once: none of
\* CountersMatch, QueueBounded and InProgressIsHeld is inductive alone.
QueueInv ==
    /\ QueueTypeOK
    /\ NumbersLeft
    /\ ItemsAreConsecutive
    /\ CountersMatch
    /\ QueueBounded
    /\ HeadersAreDone
    /\ BusyHasBlock
    /\ InProgressIsHeld

=============================================================================
