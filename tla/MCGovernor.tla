----------------------------- MODULE MCGovernor -----------------------------
(* Three of the default bands (<84 -> 16, <88 -> 12, <93.5 -> 4, resumed    *)
(* below 86 at 4), with one temperature for each class the code tells apart. *)
EXTENDS GovernorProperties

Band(limit, cpus) == [limit |-> limit, cpus |-> cpus]

\* 0: below 84, 1: below 86, 2: below 88, 3: below 93.5, 4: above.
MCTemps == 0..4
MCSteps == <<Band(1, 16), Band(3, 12), Band(4, 4)>>
=============================================================================
