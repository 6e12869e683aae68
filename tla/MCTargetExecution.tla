-------------------------- MODULE MCTargetExecution --------------------------
(* One host with two services, an older release or none, and two executions.  *)
EXTENDS TargetExecution

Target(by, swarm, moving, lenient) ==
    [by |-> by, swarm |-> swarm, moving |-> moving, listed |-> Services, lenient |-> lenient]

\* The image of db is written without its tag.
Unlisted == [Target("id", FALSE, TRUE, FALSE) EXCEPT !.listed = {Main}]

MCHows ==
    {Target("name", FALSE, FALSE, FALSE), Target("name", TRUE, FALSE, FALSE), Unlisted,
     Target("id", FALSE, TRUE, FALSE),
     Target("single", FALSE, TRUE, FALSE), Target("sshSteps", FALSE, FALSE, TRUE)}
    \cup {Target(by, FALSE, FALSE, FALSE) :
             by \in {"sshRun", "sshSteps", "sshCompose", "agentRun", "agentCompose"}}
=============================================================================
