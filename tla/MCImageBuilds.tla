--------------------------- MODULE MCImageBuilds ---------------------------
(* A small installation for TLC. *)
EXTENDS ImageBuilds, TLC
CONSTANTS app, api, ws, multi, up, exp
Configured == ws :> [kind |-> "local", targets |-> {app}, push |-> "global"]
           @@ multi :> [kind |-> "git", targets |-> {app, api}, push |-> "each"]
           @@ up :> [kind |-> "upload", targets |-> {app}, push |-> "no"]
           @@ exp :> [kind |-> "export", targets |-> {app}, push |-> "no"]
MCKind == [j \in Jobs |-> Configured[j].kind]
MCTargets == [j \in Jobs |-> Configured[j].targets]
MCPush == [j \in Jobs |-> Configured[j].push]
=============================================================================
