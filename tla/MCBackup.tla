-------------------------------- MODULE MCBackup --------------------------------
(* Instances of Backup for TLC: two installations, each with a MASTER_KEY of *)
(* its own, between which configurations are moved.                          *)
EXTENDS Backup

OldAndNew  == {"old", "new"}
OwnKeys    == [s \in OldAndNew |-> IF s = "old" THEN "K" ELSE "L"]
RightWrong == {"right", "wrong"}
=============================================================================
