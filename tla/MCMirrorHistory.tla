-------------------------- MODULE MCMirrorHistory --------------------------
(* Values of the bounds of MirrorHistory for model checking.               *)
EXTENDS MirrorHistory, TLC

CONSTANTS Users, Faults, Restarts, Relists, Resyncs, Total

MCBudget == "user" :> Users @@ "fault" :> Faults @@ "restart" :> Restarts
            @@ "relist" :> Relists @@ "resync" :> Resyncs @@ "all" :> Total

DataSymmetry == Permutations(Data)
=============================================================================
