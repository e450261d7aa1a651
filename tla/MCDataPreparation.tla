-------------------------- MODULE MCDataPreparation --------------------------
(* Small instances of DataPreparation: a job that needs two months and one *)
(* that needs the first, and so may reuse what the other normalised.       *)
EXTENDS DataPreparation

TwoMonths == 1 .. 2
OverlappingNeed == [j \in Jobs |-> IF j = "long" THEN {1, 2} ELSE {1}]
SoundOrSecondFails == {{}, {2}}
=============================================================================
