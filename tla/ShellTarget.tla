------------------------------ MODULE ShellTarget ------------------------------
(***************************************************************************)
(* The execution of a deployment by commands: over SSH (SSHExecutor and    *)
(* SSHDeployExecutor) or by the agent (DeployExecutor of backend/agent).   *)
(*                                                                         *)
(* Over SSH a command has no timeout, and goes on when the connection is   *)
(* lost.  The compose file is /tmp/<project>/docker-compose.yml, one for   *)
(* all executions.  The agent kills a command after its timeout, and has a *)
(* compose file per task.                                                  *)
(***************************************************************************)
EXTENDS TargetHost

BySsh == how.by \in Ssh

\* An error of the command q
Errs(e, q) == Spoilt(e, q) \/ (BySsh /\ Pending(e, q))

\* The command after an optional clean-up
Deploying ==
    CASE how.by = "sshCompose" -> "write"
      [] how.by = "agentCompose" -> "up"
      [] OTHER -> "run"

FirstCommand(r) == IF how.by \in Agent THEN "login" ELSE IF r THEN "clean" ELSE Deploying

----------------------------------------------------------------------------
(* Over SSH.                                                               *)

\* down, or stop and rm -f, each with "|| true"; in a list, a step whose failure passes
CleanHost(e) ==
    /\ ex[e].at = "clean" /\ BySsh
    /\ LET q == IF how.by = "sshCompose" THEN "down" ELSE "drop" IN
          \/ (Done(e, q) \/ Spoilt(e, q)) /\ Go(e, Deploying)
          \/ Errs(e, q) /\ Answer(e, "failed")
    /\ UNCHANGED <<how, newest, crashes>>

\* The compose file is written, and read again to see that it is there.
WriteFile(e) ==
    /\ ex[e].at = "write"
    /\ \/ Done(e, "write") /\ Go(e, "up")
       \/ Spoilt(e, "write") /\ Answer(e, "failed")
    /\ UNCHANGED <<how, newest, crashes>>

\* docker compose up -d, or docker stack deploy, with the file as it is by now
ComposeUp(e) ==
    /\ ex[e].at = "up" /\ BySsh
    /\ \/ Done(e, "up") /\ Success(e, "release")
       \/ Errs(e, "up") /\ Answer(e, "failed")
    /\ UNCHANGED <<how, newest, crashes>>

\* docker run, which fails when a container has the name
RunContainer(e) ==
    /\ ex[e].at = "run" /\ how.by = "sshRun"
    /\ \/ Done(e, "run") /\ Success(e, "release")
       \/ Errs(e, "run") /\ Answer(e, "failed")
    /\ UNCHANGED <<how, newest, crashes>>

\* The step that has docker run.  A step whose text has kill, stop or rm in it, be it in
\* the name of an option, passes when it fails.
RunStep(e) ==
    /\ ex[e].at = "run" /\ how.by = "sshSteps"
    /\ \/ Done(e, "run") /\ Success(e, "release")
       \/ how.lenient /\ Spoilt(e, "run") /\ Success(e, "guess")
       \/ Errs(e, "run") /\ Answer(e, "failed")
       \/ ~how.lenient /\ runs[Main] # None /\ Go(e, "conflict") /\ UNCHANGED <<host, late>>
    /\ UNCHANGED <<how, newest, crashes>>

\* rm -f of the container that has the name, with "|| true", and the step once more
ClearName(e) ==
    /\ ex[e].at = "conflict" /\ BySsh
    /\ \/ (Done(e, "drop") \/ Spoilt(e, "drop")) /\ Go(e, "rerun")
       \/ Errs(e, "drop") /\ Answer(e, "failed")
    /\ UNCHANGED <<how, newest, crashes>>

RunStepAgain(e) ==
    /\ ex[e].at = "rerun" /\ BySsh
    /\ \/ Done(e, "run") /\ Success(e, "release")
       \/ Errs(e, "run") /\ Answer(e, "failed")
    /\ UNCHANGED <<how, newest, crashes>>

----------------------------------------------------------------------------
(* By the agent.                                                           *)

\* docker login, when the registry of the image is known
Login(e) ==
    /\ ex[e].at = "login"
    /\ \/ Go(e, IF ex[e].remove THEN "clean" ELSE Deploying)
       \/ Answer(e, "failed")
    /\ UNCHANGED <<how, host, newest, late, crashes>>

\* _cleanup_existing_deployment goes on after any error.  Its down has the name of the
\* directory for a project, not that of the application, and finds nothing.
CleanUp(e) ==
    /\ ex[e].at = "clean" /\ how.by \in Agent
    /\ IF how.by = "agentCompose" THEN UNCHANGED <<host, late>>
       ELSE Done(e, "drop") \/ Spoilt(e, "drop")
    /\ Go(e, Deploying)
    /\ UNCHANGED <<how, newest, crashes>>

AgentRequest == IF how.by = "agentCompose" THEN "up" ELSE "run"

\* The command is run.  An error that has a word of a conflict in it, as that of an
\* address in use has, is taken for one of names, whatever the command brought before.
RunCommand(e) ==
    /\ ex[e].at \in {"up", "run"} /\ how.by \in Agent
    /\ \/ Done(e, AgentRequest) /\ Success(e, "release")
       \/ Spoilt(e, AgentRequest) /\ (Answer(e, "failed") \/ Go(e, "conflict"))
    /\ UNCHANGED <<how, newest, crashes>>

\* The container of the name the error has, or else of the first one in the text, is
\* stopped and removed: one of another project, of an earlier release or of this command.
ClearConflict(e) ==
    /\ ex[e].at = "conflict" /\ how.by \in Agent
    /\ UNCHANGED host \/ \E s \in Parts : Touch(e, "drop", {s})
    /\ Go(e, "rerun") \/ Answer(e, "failed")
    /\ UNCHANGED late
    /\ UNCHANGED <<how, newest, crashes>>

RunCommandAgain(e) ==
    /\ ex[e].at = "rerun" /\ how.by \in Agent
    /\ \/ Done(e, AgentRequest) /\ Success(e, "release")
       \/ Spoilt(e, AgentRequest) /\ Answer(e, "failed")
    /\ UNCHANGED <<how, newest, crashes>>

ShellStep(e) ==
    \/ CleanHost(e) \/ WriteFile(e) \/ ComposeUp(e) \/ RunContainer(e) \/ RunStep(e)
    \/ ClearName(e) \/ RunStepAgain(e)
    \/ Login(e) \/ CleanUp(e) \/ RunCommand(e) \/ ClearConflict(e) \/ RunCommandAgain(e)
=============================================================================
