---------------------------- MODULE TargetExecution ----------------------------
(***************************************************************************)
(* Executions of one target of a deployment, one after the other or at the *)
(* same time, as tasks of different rows and retries of a row may be, by   *)
(* any of the executors.  Deployments has what comes before (the row, its  *)
(* thread) and after (the status); here is what happens on the host.       *)
(***************************************************************************)
EXTENDS PortainerTarget, ShellTarget

ByPortainer == how.by \in Portainer

FirstStep == [r \in BOOLEAN |-> IF ByPortainer THEN IF r THEN "remove" ELSE First
                                ELSE FirstCommand(r)]

Step(e) == PortainerStep(e) \/ ShellStep(e)

Next ==
    \/ \E e \in Execs : \/ Begin(e, FirstStep)
                        \/ Step(e)
                        \/ \E q \in {"put", "create", "delete", "down", "drop", "up", "run"} :
                              Late(e, q)
    \/ Crash

Spec == Init /\ [][Next]_vars

----------------------------------------------------------------------------
(* Properties.                                                             *)

\* The answer is success, and rests on a request that brought the release: neither on a
\* look at the Stack after an error, nor on a Stack created from a tag that moves.
Succeeded(e) == ex[e].answer = "ok" /\ ex[e].basis = "release"

EffectIn(e, S) == (e = newest /\ Succeeded(e) /\ ~disturbed) => \A s \in S : runs[s] = e

\* A target that was answered with success has the release in effect in all of its
\* parts, whatever failed and was tried again on the way, and whatever crash an
\* execution before it was left in; unless another execution changed the host since.
\* When the tag moves, this holds of the parts whose image is listed as it is written.
SuccessInEffect == \A e \in Execs : EffectIn(e, {s \in Parts : ~LeftAlone(s)})

\* Executions that overlap and all succeed leave one release and no mixture of two, in
\* the same parts.
SuccessIsWhole ==
    (Begun # {} /\ \A e \in Begun : Succeeded(e))
        => \E r \in Releases : \A s \in Parts : runs[s] = r \/ LeftAlone(s)

\* The agent takes its own container for one that is in the way, to run its command once
\* more or to fail.
ClearsOwn(e) ==
    /\ how.by \in Agent /\ ex[e].at = "conflict"
    /\ ex'[e].at = "rerun" \/ ex'[e].answer = "failed"

\* What an attempt brought into effect, a later attempt or a later step of the same
\* execution does not take away again, but for an agent that clears a conflict.
KeepsNewRelease ==
    [][\A s \in Parts :
          (newest # None /\ runs[s] = newest /\ runs'[s] # newest)
              => disturbed' \/ ex[newest].remove \/ ClearsOwn(newest)]_vars

\* What update_stack says of a tag that stays the same (portainer_client.py:711): no
\* update succeeds while what runs remains as it was.
UpdateTakesEffect == \A e \in Execs : EffectIn(e, Parts)
=============================================================================
