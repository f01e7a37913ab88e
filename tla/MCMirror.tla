------------------------------ MODULE MCMirror ------------------------------
(* Values of the bounds of Mirror for model checking.                      *)
EXTENDS Mirror, TLC

CONSTANTS Users, Faults, Restarts, Relists, Resyncs, Total

MCBudget == "user" :> Users @@ "fault" :> Faults @@ "restart" :> Restarts
            @@ "relist" :> Relists @@ "resync" :> Resyncs @@ "all" :> Total

DataSymmetry == Permutations(Data)
=============================================================================
