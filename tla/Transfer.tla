----------------------------- MODULE Transfer ------------------------------
(***************************************************************************)
(* What a pipeline of threads around the queue promises to the two ends of  *)
(* it: items come out in the order they went in, one for one, each          *)
(* processed exactly once, until the receiving end gives up.                *)
(***************************************************************************)
EXTENDS Naturals, Sequences

CONSTANTS
    Payload,        \* what can be sent
    Processed(_)    \* the forms in which a given payload may come out

VARIABLES
    sent,           \* everything put in so far
    got,            \* everything taken out so far
    closed,         \* the sender will send nothing more
    failed          \* the receiver has given up

vars == <<sent, got, closed, failed>>

Init ==
    /\ sent = <<>>
    /\ got = <<>>
    /\ closed = FALSE
    /\ failed = FALSE

Send ==
    /\ ~closed
    /\ \E x \in Payload : sent' = Append(sent, x)
    /\ UNCHANGED <<got, closed, failed>>

Deliver ==
    /\ ~failed
    /\ Len(got) < Len(sent)
    /\ \E y \in Processed(sent[Len(got) + 1]) : got' = Append(got, y)
    /\ UNCHANGED <<sent, closed, failed>>

Close ==
    /\ ~closed
    /\ closed' = TRUE
    /\ UNCHANGED <<sent, got, failed>>

Fail ==
    /\ ~failed
    /\ failed' = TRUE
    /\ UNCHANGED <<sent, got, closed>>

Next == Send \/ Deliver \/ Close \/ Fail

Spec == Init /\ [][Next]_vars /\ WF_vars(Deliver)

=============================================================================
