---------------------------- MODULE PortainerTarget ----------------------------
(***************************************************************************)
(* The execution of a deployment through the API of Portainer:             *)
(* PortainerExecutor.execute (backend/deploy_executors/                    *)
(* portainer_executor.py) and the methods of PortainerClient it calls.     *)
(*                                                                         *)
(* A step is one request, or one loop over requests of which only one can  *)
(* matter.  Every request has a timeout.  An error may be retried when its *)
(* text has one of a list of words: a timeout or a 502, 503 or 504 does; a *)
(* connection that was reset does not, as _request translates its text.    *)
(***************************************************************************)
EXTENDS TargetHost

\* docker run is one deploy_stack, which never raises: no error of it is retried.
Single == how.by = "single"

\* The method of the client raises, or returns a failure, with an error that may be
\* retried or not.
Fails(e) ==
    \/ Answer(e, "failed")
    \/ /\ ~Single
       /\ ex' = [ex EXCEPT ![e].at = "confirm", ![e].bad = {}, ![e].again = FALSE]

\* The end of an attempt that went well
Finish(e, basis) == IF Single THEN Success(e, basis) ELSE GoOn(e, "verify", basis)

First == IF how.by = "id" THEN "select" ELSE "look"

----------------------------------------------------------------------------
(* Before the attempts.                                                    *)

\* remove_stack.  A Stack that cannot be deleted ends the execution.
RemoveStack(e) ==
    /\ ex[e].at = "remove"
    /\ \/ text = None /\ Go(e, First) /\ UNCHANGED <<host, late>>
       \/ Done(e, "delete") /\ Go(e, First)
       \/ Broken(e, "delete") /\ Answer(e, "failed")
    /\ UNCHANGED <<how, newest, crashes>>

\* get_stack for update_existing with an id
SelectStack(e) ==
    /\ ex[e].at = "select"
    /\ \/ text # None /\ Go(e, "pull")
       \/ Answer(e, "failed")
    /\ UNCHANGED <<how, host, newest, late, crashes>>

----------------------------------------------------------------------------
(* One attempt: deploy_stack or, with an id, update_stack.                 *)

\* get_stack_by_name
LookUp(e) ==
    /\ ex[e].at = "look"
    /\ \/ Go(e, IF text = None THEN "create" ELSE "pull")
       \/ Fails(e)
    /\ UNCHANGED <<how, host, newest, late, crashes>>

\* POST /stacks, which pulls nothing when the host has an older image of a tag that
\* moves.  After a 405 a second endpoint is tried; if that fails too, a Stack
\* that is there by then is taken for the one it created.
CreateStack(e) ==
    /\ ex[e].at = "create"
    /\ \/ Done(e, "create") /\ Finish(e, IF how.moving THEN "guess" ELSE "release")
       \/ Broken(e, "create") /\ Fails(e)
       \/ Spoilt(e, "create") /\ text' # None /\ Finish(e, "guess")
    /\ UNCHANGED <<how, newest, crashes>>

\* A pull whose failure does not count
PullUnchecked(e) ==
    /\ ex[e].at = "pull"
    /\ local' \in {local, IF how.moving THEN newest ELSE local}
    /\ Go(e, "put")
    /\ UNCHANGED <<how, runs, text, fresh, disturbed, newest, late, crashes>>

\* pull_images: the update goes on after a failure, and is then no success.
PullImages(e) ==
    /\ ex[e].at = "pull"
    /\ \/ /\ local' = IF how.moving THEN newest ELSE local
          /\ Go(e, "put")
       \/ /\ local' \in {local, IF how.moving THEN newest ELSE local}
          /\ ex' = [ex EXCEPT ![e].at = "put", ![e].bad = @ \cup {"pull"}]
    /\ UNCHANGED <<how, runs, text, fresh, disturbed, newest, late, crashes>>

\* PUT /stacks/<id>
PutStack(e) ==
    /\ ex[e].at = "put"
    /\ \/ Done(e, "put") /\ Go(e, "list")
       \/ Broken(e, "put") /\ Fails(e)
    /\ UNCHANGED <<how, newest, crashes>>

Present == {s \in Parts : runs[s] # None}

\* Every container, whatever it runs
AllPresent(e) == Present

\* The containers whose image is not the one the host has under their tag.  An image is
\* looked up by the text of the compose file: a container whose image is not found so is
\* unknown, which is no failure, and is left alone.
Stale(e) == {s \in Present \cap how.listed : runs[s] # Resolve(e)}

LeftAlone(s) == how.moving /\ ~how.swarm /\ s \notin how.listed

WorkFailed(e) ==
    \E a \in BOOLEAN :
        ex' = [ex EXCEPT ![e].at = "result", ![e].bad = @ \cup {"work"}, ![e].again = a]

\* The versions or ids of the parts W are read, to work on them one by one.
Reads(e, W) ==
    /\ fresh' = [fresh EXCEPT ![e] = IF W = {} THEN {} ELSE Present]
    /\ ex' = [ex EXCEPT ![e].todo = W, ![e].at = IF W = {} THEN "result" ELSE "each"]

\* force_update_swarm_stack_services takes an error for a failure of the workloads;
\* refresh_compose_stack_containers lets it through.
ListWorkloads(e) ==
    /\ ex[e].at = "list"
    /\ \/ Reads(e, IF how.swarm THEN Present ELSE Stale(e))
       \/ UNCHANGED fresh /\ IF how.swarm THEN WorkFailed(e) ELSE Fails(e)
    /\ UNCHANGED <<how, runs, text, local, disturbed, newest, late, crashes>>

\* Without the version
AlwaysCurrent(e, s) == TRUE

\* A part that is not the one that was read is not changed: Swarm compares the version,
\* and a container that was replaced has another id.
IsCurrent(e, s) == s \in fresh[e]

\* The next service is updated, or the next stale container deleted.  A failure is
\* noted, and the loop goes on.
ForceUpdate(e) ==
    /\ ex[e].at = "each"
    /\ \E s \in ex[e].todo :
          \/ /\ IsCurrent(e, s)
             /\ Touch(e, IF how.swarm THEN "update" ELSE "drop", {s})
             /\ \E b \in {{}, {"work"}} :
                   ex' = [ex EXCEPT ![e].todo = @ \ {s}, ![e].bad = @ \cup b]
          \/ /\ ex' = [ex EXCEPT ![e].todo = @ \ {s}, ![e].bad = @ \cup {"work"}]
             /\ UNCHANGED host
    /\ UNCHANGED <<how, newest, late, crashes>>

\* All containers are gone that were to go: the Stack is put once more.
LoopEnds(e) ==
    /\ ex[e].at = "each" /\ ex[e].todo = {}
    /\ Go(e, IF how.swarm \/ "work" \in ex[e].bad THEN "result" ELSE "again")
    /\ fresh' = [fresh EXCEPT ![e] = {}]
    /\ UNCHANGED <<how, runs, text, local, disturbed, newest, late, crashes>>

PutAgain(e) ==
    /\ ex[e].at = "again"
    /\ \/ Done(e, "put") /\ Go(e, "result")
       \/ Broken(e, "put") /\ WorkFailed(e)
    /\ UNCHANGED <<how, newest, crashes>>

\* What update_stack returns
UpdateResult(e) ==
    /\ ex[e].at = "result"
    /\ IF ex[e].bad = {} THEN Finish(e, "release")
       ELSE IF ex[e].again THEN Fails(e)
       ELSE Answer(e, "failed")
    /\ UNCHANGED <<how, host, newest, late, crashes>>

----------------------------------------------------------------------------
(* After an attempt.                                                       *)

\* The next of the attempts, from the start
TryAgain(e) ==
    IF ex[e].try = Attempts THEN Answer(e, "failed")
    ELSE ex' = [ex EXCEPT ![e].at = IF how.by = "id" THEN "pull" ELSE "look",
                          ![e].try = @ + 1]

\* _confirm_stack_after_retryable_error: a Stack that exists, whatever its text, and
\* whose services are found or cannot be read, is taken for the success of the attempt.
Confirm(e) ==
    /\ ex[e].at = "confirm"
    /\ \/ text # None /\ GoOn(e, "verify", "guess")
       \/ TryAgain(e)
    /\ UNCHANGED <<how, host, newest, late, crashes>>

\* Swarm may report tasks that failed.
TasksFailed == how.swarm

\* verify_stack_services: what cannot be read is no failure.
Unverified == Present = {} \/ TasksFailed

\* Six looks at the services, the last of which counts
Verify(e) ==
    /\ ex[e].at = "verify"
    /\ \/ Answer(e, "ok")
       \/ Unverified /\ Answer(e, "failed")
    /\ UNCHANGED <<how, host, newest, late, crashes>>

PortainerStep(e) ==
    \/ RemoveStack(e) \/ SelectStack(e) \/ LookUp(e) \/ CreateStack(e) \/ PullImages(e)
    \/ PutStack(e) \/ ListWorkloads(e) \/ ForceUpdate(e) \/ LoopEnds(e) \/ PutAgain(e)
    \/ UpdateResult(e) \/ Confirm(e) \/ Verify(e)
=============================================================================
