------------------------------- MODULE TargetHost -------------------------------
(***************************************************************************)
(* A Docker host that is deployed to, and what a request does to it: the   *)
(* part PortainerTarget and ShellTarget share.  The host is outside        *)
(* backend; it is modelled from the requests the code sends and from the   *)
(* answers it is written for.                                              *)
(*                                                                         *)
(* A deployment has parts: the services of a Stack, or one container.  An  *)
(* execution stands for the release it is to bring.  A tag may move: the   *)
(* text of a deployment then stays the same, and what runs depends on the  *)
(* image the host has under the tag.                                       *)
(*                                                                         *)
(* A request is answered well, or its answer is an error although it had   *)
(* all or some of its effect, or still has it when its caller has given    *)
(* up.  A host works on one update of a Stack at a time.                   *)
(***************************************************************************)
EXTENDS Naturals, FiniteSets

CONSTANTS
    Hows,       \* the configurations a target may have
    MaxExecs,   \* bound of the model: executions of a target of a deployment
    Services,   \* services of its compose file
    Main,       \* the container of docker run
    Attempts,   \* max_retries of PortainerExecutor, 5 in the code
    MaxLate,    \* bound of the model: requests that are late at the same time
    MaxCrashes, \* bound of the model: crashes of the server
    Old,        \* an earlier release
    None

Portainer == {"name", "id", "single"}
Agent     == {"agentRun", "agentCompose"}
Ssh       == {"sshRun", "sshSteps", "sshCompose"}

\* How a target is deployed to: through Portainer, to a Stack by name or by id, or docker
\* run as a Stack of one container; over SSH; or by an agent.  Its tag may move.  Services
\* of a Stack are listed when their image is written as Docker lists it: not so without
\* its tag, or with docker.io before it.  A step of a list may have a text that lets its
\* failure pass.
AllHows ==
    {h \in [by : Portainer \cup Agent \cup Ssh, swarm : BOOLEAN, moving : BOOLEAN,
            listed : SUBSET Services, lenient : BOOLEAN] :
        /\ h.swarm => h.by \in {"name", "id"}
        /\ h.moving => h.by \in Portainer
        /\ h.listed # Services => h.by \in Portainer
        /\ h.lenient => h.by = "sshSteps"}

ASSUME TargetAssumption ==
    /\ Hows \subseteq AllHows /\ MaxExecs \in Nat \ {0} /\ IsFiniteSet(Services) /\ Main \in Services
    /\ Attempts \in Nat \ {0} /\ MaxLate \in Nat /\ MaxCrashes \in Nat
    /\ Old \notin Nat /\ None \notin Nat \cup {Old}

VARIABLES
    how,       \* the configuration of the target
    runs,      \* the release each part runs
    text,      \* the compose text of the Stack, or of /tmp/<project>/docker-compose.yml
    local,     \* the image the host has under a tag that moves
    fresh,     \* parts whose Swarm version, or container id, the execution has read last
    newest,    \* the execution that began last; its image was pushed before
    ex,        \* the executions
    late,      \* requests that may still have their effect
    disturbed, \* history: another execution has changed the host since newest began
    crashes

host == <<runs, text, local, fresh, disturbed>>
vars == <<how, host, newest, ex, late, crashes>>

Execs    == 1..MaxExecs  \* in the order in which they begin
Releases == Execs \cup {Old}
Parts    == IF how.by \in {"single", "sshRun", "sshSteps", "agentRun"} THEN {Main} ELSE Services
Places   == {"idle", "remove", "select", "look", "create", "pull", "put", "list", "each",
             "again", "result", "confirm", "verify", "login", "clean", "write", "up",
             "run", "conflict", "rerun", "done", "dead"}
AtWork   == {e \in Execs : ex[e].at \notin {"idle", "done", "dead"}}
Begun    == {e \in Execs : ex[e].at # "idle"}

\* try: attempts begun; bad: what went wrong in this one; again: the error may be
\* retried; basis: what its success rests on
Blank == [at |-> "idle", try |-> 1, bad |-> {}, again |-> FALSE, todo |-> {},
          remove |-> FALSE, basis |-> "none", answer |-> "none"]

TypeOK ==
    /\ how \in Hows
    /\ runs \in [Services -> Releases \cup {None}]
    /\ text \in Releases \cup {None} /\ local \in Releases \cup {None}
    /\ fresh \in [Execs -> SUBSET Services]
    /\ newest \in Execs \cup {None}
    /\ ex \in [Execs -> [at : Places, try : 1..Attempts, bad : SUBSET {"pull", "work"},
                         again : BOOLEAN, todo : SUBSET Services, remove : BOOLEAN,
                         basis : {"none", "release", "guess"},
                         answer : {"none", "ok", "failed"}]]
    /\ late \subseteq Execs \X {"put", "create", "delete", "down", "drop", "write", "up", "run"}
    /\ disturbed \in BOOLEAN
    /\ crashes \in 0..MaxCrashes

\* A host that has nothing of the deployment, or an earlier release of it.
Init ==
    /\ how \in Hows
    /\ \E r \in {Old, None} :
          /\ runs = [s \in Services |-> IF s \in Parts THEN r ELSE None]
          /\ text = IF how.by \in Portainer \cup {"sshCompose"} THEN r ELSE None
          /\ local = IF how.moving THEN r ELSE None
    /\ fresh = [e \in Execs |-> {}]
    /\ newest = None
    /\ ex = [e \in Execs |-> Blank]
    /\ late = {} /\ disturbed = FALSE /\ crashes = 0

----------------------------------------------------------------------------
(* The host.                                                               *)

\* What the text of release c comes to: Swarm asks the registry, Compose takes the
\* image the host has.
Resolve(c) ==
    IF ~how.moving THEN c
    ELSE IF how.swarm \/ local = None THEN newest
    ELSE local

\* What a part runs after the request q of e: that of a release, or nothing
Image(e, q) ==
    CASE q \in {"delete", "down", "drop"} -> None
      [] q = "up" /\ how.by = "sshCompose" -> Resolve(text)
      [] OTHER -> Resolve(e)

Applies(e, q) ==
    CASE q \in {"put", "delete", "down"} -> text # None
      [] q = "create" -> text = None
      [] q = "up" -> how.by = "sshCompose" => text # None
      [] q = "run" -> runs[Main] = None
      [] OTHER -> TRUE

\* The request q of e reaches the parts S.
Touch(e, q, S) ==
    /\ runs' = [s \in Services |-> IF s \in S THEN Image(e, q) ELSE runs[s]]
    /\ text' = CASE q \in {"put", "create", "write"} -> e
                 [] q = "delete" -> None
                 [] OTHER -> text
    /\ local' = IF how.moving /\ local = None /\ q \in {"put", "create"} /\ S # {}
                THEN newest ELSE local
    /\ fresh' = [f \in Execs |-> fresh[f] \ S]
    /\ disturbed' = (disturbed \/ e # newest)

\* What a request reaches when nothing goes wrong.  An update whose text is the same
\* recreates what is missing, and the rest or not.
Reach(q) ==
    CASE q = "put" /\ how.moving -> {S \in SUBSET Parts : \A s \in Parts \ S : runs[s] # None}
      [] q = "write" -> {{}}
      [] OTHER -> {Parts}

Done(e, q) ==
    /\ Applies(e, q)
    /\ \E S \in Reach(q) : Touch(e, q, S)
    /\ UNCHANGED late

\* An error, with no effect or with some of it
Spoilt(e, q) ==
    /\ \/ UNCHANGED host
       \/ /\ Applies(e, q)
          /\ \E S \in SUBSET Parts : Touch(e, q, S)
    /\ UNCHANGED late

\* An error, and the effect is still to come
Pending(e, q) ==
    /\ Cardinality(late) < MaxLate
    /\ late' = late \cup {<<e, q>>}
    /\ UNCHANGED host

Broken(e, q) == Spoilt(e, q) \/ Pending(e, q)

\* A request whose caller does not wait for it any more has its effect after all.
Late(e, q) ==
    /\ <<e, q>> \in late
    /\ late' = late \ {<<e, q>>}
    /\ IF Applies(e, q) THEN \E S \in Reach(q) : Touch(e, q, S) ELSE UNCHANGED host
    /\ UNCHANGED <<how, newest, ex, crashes>>

----------------------------------------------------------------------------
(* An execution.                                                           *)

Go(e, place) == ex' = [ex EXCEPT ![e].at = place]

GoOn(e, place, basis) == ex' = [ex EXCEPT ![e].at = place, ![e].basis = basis]

Ended(e, place, a, basis) ==
    [Blank EXCEPT !.at = place, !.remove = ex[e].remove, !.answer = a, !.basis = basis]

Answer(e, a)      == ex' = [ex EXCEPT ![e] = Ended(e, "done", a, ex[e].basis)]
Success(e, basis) == ex' = [ex EXCEPT ![e] = Ended(e, "done", "ok", basis)]

\* _execute_target_with_executor calls the executor.  An agent runs execute_deploy
\* inside its event loop, one deployment after the other.
Begin(e, first) ==
    /\ ex[e].at = "idle" /\ \A f \in 1..(e - 1) : f \in Begun
    /\ how.by \in Agent => AtWork = {}
    /\ \E r \in BOOLEAN : ex' = [ex EXCEPT ![e].remove = r, ![e].at = first[r]]
    /\ newest' = e /\ disturbed' = FALSE
    /\ UNCHANGED <<how, runs, text, local, fresh, late, crashes>>

\* The request an execution waits for
Sends(e) ==
    CASE ex[e].at = "remove" -> {"delete"}
      [] ex[e].at = "create" -> {"create"}
      [] ex[e].at \in {"put", "again"} -> {"put"}
      [] ex[e].at = "conflict" -> {"drop"}
      [] ex[e].at = "clean" -> {IF how.by = "sshCompose" THEN "down" ELSE "drop"}
      [] ex[e].at = "up" -> {"up"}
      [] ex[e].at \in {"run", "rerun"} -> {"run"}
      [] OTHER -> {}

\* The server ends; the agent goes on.
Crash ==
    /\ crashes < MaxCrashes
    /\ crashes' = crashes + 1
    /\ how.by \notin Agent
    /\ \E L \in SUBSET UNION {{e} \X Sends(e) : e \in AtWork} :
          /\ Cardinality(late \cup L) <= MaxLate
          /\ late' = late \cup L
    /\ ex' = [e \in Execs |-> IF e \in AtWork THEN Ended(e, "dead", "none", "none")
                           ELSE ex[e]]
    /\ fresh' = [e \in Execs |-> {}]
    /\ UNCHANGED <<how, runs, text, local, disturbed, newest>>
=============================================================================
