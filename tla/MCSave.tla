------------------------------- MODULE MCSave -------------------------------
(* Small instances of SavePipeline *)
EXTENDS SavePipeline, QueueProtocol

CONSTANTS c1, c2

OneThread == {c1}
TwoThreads == {c1, c2}

MCInfo == SaveInfo

Node(id) == [id |-> id, kind |-> "node", blks |-> 0]
Unique(id, n) == [id |-> id, kind |-> "unique", blks |-> n]
Multi(id) == [id |-> id, kind |-> "multi", blks |-> 0]

\* A tree with a large file between two small ones.
OneTree == << <<Node(1), Multi(2), Unique(3, 2), Multi(4)>> >>

\* Two file systems, the second one almost empty.
TwoTrees == << <<Node(1), Multi(2), Unique(3, 2)>>, <<Node(4)>> >>

\* Two directories; three small files overflow the block shared by two.
TwoDirs == << <<Node(1), Multi(2), Multi(3), Multi(4)>>, <<Node(5), Unique(6, 1), Unique(7, 0)>> >>
=============================================================================
