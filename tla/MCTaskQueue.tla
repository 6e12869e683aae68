---------------------------- MODULE MCTaskQueue ----------------------------
(***************************************************************************)
(* Small instances of TaskQueue for TLC: which rows exist, of which kind,  *)
(* team and pipeline, and the limits of the teams.                         *)
(***************************************************************************)
EXTENDS TaskQueue, TLC

CONSTANTS t1, t2, t3, p1, tm1, server, scheduler, cleaner, w1, w2, w3

\* Kinds of the rows.
MCDeploys      == [t \in Tasks |-> "deploy"]
MCSources      == [t \in Tasks |-> "source"]
MCSourceUpload == [t \in Tasks |-> IF t = t2 THEN "upload" ELSE "source"]
MCUploadExport == [t \in Tasks |-> IF t = t1 THEN "export" ELSE "upload"]

MCThreeKinds   == [t \in Tasks |-> IF t = t1 THEN "source"
                                  ELSE IF t = t2 THEN "upload" ELSE "export"]

\* Teams, pipelines and limits.
MCOneTeam      == [t \in Tasks |-> tm1]
MCTeamAndNone  == [t \in Tasks |-> IF t = t1 THEN tm1 ELSE None]
MCNoPipeline   == [t \in Tasks |-> None]
MCAllButExport == [t \in Tasks |-> IF t = t3 THEN None ELSE p1]
MCSomePipeline == [t \in Tasks |-> IF t = t2 THEN None ELSE p1]
MCLimitOne     == [s \in Scopes |-> 1]
MCLimitTwo     == [s \in Scopes |-> 2]

\* What the threads do.
MCServerCreates == [c \in Callers |-> {"create"}]
MCServerAll     == [c \in Callers |-> {"create", "stop", "retry", "delete"}]
MCCronAndServer == [c \in Callers |-> IF c = scheduler THEN {"schedule", "expire"}
                                      ELSE {"create", "stop"}]
MCWithCleaner   == [c \in Callers |-> IF c = cleaner THEN {"expire"}
                                      ELSE {"create", "stop", "retry", "delete"}]

ThreadSymmetry == Permutations(Workers)
RowSymmetry    == ThreadSymmetry \cup Permutations(Tasks)
============================================================================
