------------------------------- MODULE MCQueue ------------------------------
(* A small instance of QueueProtocol *)
EXTENDS QueueProtocol

CONSTANTS c1, c2, x, y, MaxItems

TwoThreads == {c1, c2}
MCInfo == {x, y}

\* The numbers of the items are bounded.
MCNext == QNext /\ curitemnum' <= MaxItems + 1

MCSpec == QInit /\ [][MCNext]_<<qvars, syncvars>>
=============================================================================
