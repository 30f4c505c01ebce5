----------------------------- MODULE MCVolumes ------------------------------
(* A small instance of Volumes *)
EXTENDS Volumes

MCOptions == [overwrite: BOOLEAN, splitsize: {0, 4}]

\* An older archive with four items in three volumes
MCOldVolumes == <<
    <<VolHeader("old", 0), ItemEntry("MAIN", "old", 1), VolFooter("old", 0, FALSE)>>,
    <<VolHeader("old", 1), ItemEntry("HEAD", "old", 2), ItemEntry("BLKH", "old", 3),
      ItemEntry("DATA", "old", 3), VolFooter("old", 1, FALSE)>>,
    <<VolHeader("old", 2), ItemEntry("HEAD", "old", 4), VolFooter("old", 2, TRUE)>> >>
=============================================================================
