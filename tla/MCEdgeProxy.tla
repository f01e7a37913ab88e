----------------------------- MODULE MCEdgeProxy -----------------------------
(* Values of the bounds of EdgeProxy for model checking.                   *)
EXTENDS EdgeProxy, TLC

CONSTANTS Remotes, Stores, Statuses, Faults, Restarts, Total

MCBudget == "remote" :> Remotes @@ "store" :> Stores @@ "status" :> Statuses
            @@ "fault" :> Faults @@ "restart" :> Restarts @@ "all" :> Total
==============================================================================
